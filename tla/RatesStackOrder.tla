---------------------------- MODULE RatesStackOrder ----------------------------
(***************************************************************************)
(* What holds of RatesStack when Redis may be slow but loses and refuses   *)
(* nothing (Faultless): OrderInv is inductive together with StackInv, and  *)
(* from the two it follows that rates do not go back in time, that what is *)
(* stored is used, and that no call fetches what its process has.          *)
(*                                                                         *)
(* A step is seen four ways, and each part of OrderInv from the one that   *)
(* it is about: from the wires and the key (WireSteps), from what has      *)
(* settled (SettlementSteps), from the line of a process (LineSteps), and  *)
(* as an action of the subsystem (FaultlessSteps).                         *)
(***************************************************************************)
EXTENDS RatesStackProofs

USE CallsAssumption, NoneAssumption, TimeAssumption, SkewAssumption,
    TimeoutAssumption, RedisAssumption, UpstreamAssumption

-----------------------------------------------------------------------------
(* What is fetched and what is sent                                        *)

\* What a fetch got carries its stamp, of its process's clock and not from the future.
LEMMA ResolvedType ==
  ASSUME StackInv, NEW f \in Resolved
  PROVE  /\ f \in Calls /\ fetched[f] \in Snapshots /\ fetched[f].by = f
         /\ fetched[f].fetchedAt \in Nat
         /\ RealTime(fetched[f]) = fetched[f].fetchedAt - Skew[ProcOf[f]]
         /\ now \in Nat /\ Skew[ProcOf[f]] \in Nat
         /\ RealTime(fetched[f]) \in Int /\ RealTime(fetched[f]) <= now
<1>1. f \in Calls /\ fetched[f] # None /\ fetched[f] \in Snapshots
  BY DEF Resolved, StackInv, ServiceInv, ServiceTypeOK
<1>2. fetched[f].by = f /\ RealTime(fetched[f]) <= now
  BY <1>1 DEF StackInv, RacesOK, RaceOK
<1>3. fetched[f].fetchedAt \in Nat
  BY <1>1 DEF Snapshots
<1>4. RealTime(fetched[f]) = fetched[f].fetchedAt - Skew[ProcOf[f]]
  BY <1>2 DEF RealTime
<1>5. now \in Nat /\ Skew[ProcOf[f]] \in Nat
  BY <1>1 DEF StackInv, ServiceInv, ServiceTypeOK, WorldTypeOK
<1> QED BY <1>1, <1>2, <1>3, <1>4, <1>5

\* A SET on a line carries what its fetch got.
LEMMA SetIsSets ==
  ASSUME StackInv, NEW cmd, Sent(cmd), IsSet(cmd)
  PROVE  /\ cmd.call \in Resolved /\ cmd = Sets(cmd.call)
         /\ cmd.snapshot = fetched[cmd.call] /\ cmd.ex = TTL
BY DEF Sent, IsSet, Sets, Resolved, SetCommand, Command

\* What is on a process's wire was sent, by a call of its own.
LEMMA WireSent ==
  ASSUME StackInv, NEW p \in Procs, NEW i \in DOMAIN wire[p]
  PROVE  Sent(wire[p][i]) /\ wire[p][i].call \in Calls /\ ProcOf[wire[p][i].call] = p
<1>1. wire[p][i] \in CommandsOf(answers[p], wire[p])
  BY CommandsOfMember
<1> QED BY <1>1, SentRange DEF StackInv, LinesOK, LineOK

\* The SETs on a wire.
LEMMA WireSets ==
  ASSUME StackInv, NEW p \in Procs, NEW i \in DOMAIN wire[p], IsSet(wire[p][i])
  PROVE  \E f \in Resolved : ProcOf[f] = p /\ wire[p][i] = Sets(f) /\ wire[p][i].snapshot = fetched[f]
BY WireSent, SetIsSets

-----------------------------------------------------------------------------
(* The steps, as the wires and the key see them                            *)

\* The steps that change a wire, the key or what was fetched.
Asks(c) ==
  LET p == ProcOf[c] IN
    /\ pc[c] = "idle" /\ alive[p]
    /\ wire' = [wire EXCEPT ![p] = Append(@, Gets(c))]
    /\ newest' = [newest EXCEPT ![c] = NewestServed(p)]
    /\ UNCHANGED <<store, fetched, alive, now>>

Stores(f) ==
  LET p == ProcOf[f] IN
    /\ fetched[f] = None
    /\ wire' = [wire EXCEPT ![p] = Append(@, SetCommand(f, Stamped(f)))]
    /\ fetched' = [fetched EXCEPT ![f] = Stamped(f)]
    /\ UNCHANGED <<store, alive, now, newest>>

IsExecuted(p) ==
  /\ wire[p] # <<>>
  /\ wire' = [wire EXCEPT ![p] = Tail(@)]
  /\ store' = Effect(Head(wire[p]))
  /\ UNCHANGED <<fetched, alive, now, newest>>

IsCut(p, n) ==
  /\ wire' = [wire EXCEPT ![p] = SubSeq(@, 1, n)]
  /\ alive' = [alive EXCEPT ![p] = FALSE]
  /\ UNCHANGED <<store, fetched, now, newest>>

Passes == now' \in {now, now + 1} /\ UNCHANGED <<wire, store, fetched, alive, newest>>

\* Without faults a step is of one of these actions.
LEMMA FaultlessSteps ==
  ASSUME Faultless, StackInv, NoFaults, [Next]_vars
  PROVE  \/ \E c \in Calls : Request(c) \/ ReadDone(c)
         \/ \E f \in Calls : UpstreamAnswers(f) \/ UpstreamFails(f) \/ WriteDone(f)
         \/ /\ \E p \in Procs : RedisExecutes(p) \/ ChunkArrives(p)
            /\ UNCHANGED <<worldVars, serviceVars, stackVars>>
         \/ \E p \in Procs : Dies(p)
         \/ Tick
         \/ UNCHANGED vars
<1>1. ASSUME NEW c \in Calls, Discard(c)
      PROVE  FALSE
  <2>1. PICK i \in DOMAIN turn[ProcOf[c]] : IsCorrupt(turn[ProcOf[c]][i].reply)
    BY <1>1 DEF Discard, DiscardBegins
  <2>2. turn[ProcOf[c]][i] \in ToSet(turn[ProcOf[c]]) /\ ProcOf[c] \in Procs
    BY DEF ToSet
  <2> QED BY <2>1, <2>2 DEF NoFaults
<1>2. ~(drops < MaxDrops)
  BY DEF Faultless, StackInv, StackTypeOK, RepoTypeOK
<1>3. ASSUME NEW p \in Procs, LinkDrops(p) \/ LinkReconnects(p) \/ QueueFlushed(p)
      PROVE  FALSE
  BY <1>2, <1>3 DEF LinkDrops, LinkReconnects, QueueFlushed, NoFaults
<1>4. ~RedisRestarts
  BY <1>2 DEF RedisRestarts
<1> QED BY <1>1, <1>3, <1>4 DEF Next, RedisSteps, TimeIsUp

\* Sending appends to the wire, since the connection is up.
LEMMA Sends ==
  ASSUME NoFaults, NEW cmd, cmd.call \in Calls, Send(cmd)
  PROVE  /\ wire' = [wire EXCEPT ![ProcOf[cmd.call]] = Append(@, cmd)]
         /\ deadline' = [deadline EXCEPT ![cmd.op][cmd.call] = now + CmdTimeout]
         /\ UNCHANGED <<turn, link, answers, store, drops>>
BY DEF NoFaults, Send, SendWithin

\* Seen from the wires and the key, a step is one of these.
LEMMA WireSteps ==
  ASSUME Faultless, StackInv, NoFaults, [Next]_vars
  PROVE  \/ \E c \in Calls : Asks(c)
         \/ \E f \in Calls : Stores(f)
         \/ \E p \in Procs : IsExecuted(p)
         \/ \E p \in Procs : \E n \in 0..Len(wire[p]) : IsCut(p, n)
         \/ Passes
<1>1. ASSUME NEW c \in Calls, Request(c)
      PROVE  Asks(c)
  <2>1. Gets(c).call = c /\ Send(Gets(c))
    BY <1>1 DEF Request, SendGet, Gets, Command
  <2> QED BY <1>1, <2>1, Sends DEF Asks, Request, GetRates, worldVars
<1>2. ASSUME NEW f \in Calls, UpstreamAnswers(f)
      PROVE  Stores(f)
  <2>1. SetCommand(f, Stamped(f)).call = f /\ Send(SetCommand(f, Stamped(f)))
    BY <1>2 DEF UpstreamAnswers, SendSet, SetCommand
  <2>2. fetched[f] = None
    BY <1>2 DEF UpstreamAnswers, ProviderResolves, StackInv, ServiceInv, NothingEarly
  <2> QED BY <1>2, <2>1, <2>2, Sends DEF Stores, UpstreamAnswers, ProviderResolves, worldVars
<1>3. ASSUME NEW p \in Procs, RedisExecutes(p), UNCHANGED <<worldVars, serviceVars, stackVars>>
      PROVE  IsExecuted(p)
  BY <1>3 DEF RedisExecutes, IsExecuted, Faultless, worldVars, serviceVars, stackVars
<1>4. ASSUME NEW p \in Procs, Dies(p)
      PROVE  \E n \in 0..Len(wire[p]) : IsCut(p, n)
  BY <1>4 DEF Dies, Killed, ServiceDies, RepoDies, IsCut
<1>5. ASSUME NEW c \in Calls, ReadDone(c) \/ WriteDone(c) \/ UpstreamFails(c)
      PROVE  UNCHANGED <<wire, store, worldVars, newest>> /\ fetched' = fetched
  BY <1>5, SettlesEffect, ReadDoneFetch
     DEF ReadDone, ReadReturns, GetReturns, DiscardReturns, WriteDone, WriteReturns, UpstreamFails,
         stackVars, repoVars
<1>6. ASSUME NEW p \in Procs, ChunkArrives(p), UNCHANGED <<worldVars, serviceVars, stackVars>>
      PROVE  Passes
  BY <1>6 DEF ChunkArrives, Passes, worldVars, serviceVars, stackVars
<1>7. CASE Tick
  BY <1>7 DEF Tick, Advance, Passes, serviceVars, repoVars, stackVars
<1>8. CASE UNCHANGED vars
  BY <1>8 DEF vars, worldVars, serviceVars, repoVars, stackVars, Passes
<1>9. ASSUME NEW c \in Calls, ReadDone(c) \/ WriteDone(c) \/ UpstreamFails(c)
      PROVE  Passes
  BY <1>5, <1>9 DEF Passes, worldVars
<1> QED BY <1>1, <1>2, <1>3, <1>4, <1>6, <1>7, <1>8, <1>9, FaultlessSteps

-----------------------------------------------------------------------------
(* The SETs on a wire, and the key                                         *)

\* A fetch is stamped no earlier than whatever was resolved before it.
LEMMA StampIsNewest ==
  ASSUME Faultless, StackInv, NEW f \in Calls
  PROVE  /\ Stamped(f) \in Snapshots /\ Stamped(f).fetchedAt \in Nat
         /\ \A g \in Resolved : fetched[g].fetchedAt <= Stamped(f).fetchedAt
<1>1. Stamped(f) \in Snapshots /\ Stamped(f).fetchedAt = now + Skew[ProcOf[f]]
  BY StampedType DEF StackInv, ServiceInv, ServiceTypeOK, Stamped, Clock
<1>2. Stamped(f).fetchedAt \in Nat
  BY <1>1 DEF Snapshots
<1>3. ASSUME NEW g \in Resolved
      PROVE  fetched[g].fetchedAt <= Stamped(f).fetchedAt
  <2>1. /\ fetched[g].fetchedAt - Skew[ProcOf[g]] <= now /\ fetched[g].fetchedAt \in Nat
        /\ now \in Nat /\ Skew[ProcOf[g]] \in Nat /\ g \in Calls
    BY ResolvedType
  <2>2. ProcOf[g] = ProcOf[f]
    BY <2>1 DEF Faultless
  <2> QED BY <1>1, <2>1, <2>2
<1> QED BY <1>1, <1>2, <1>3

\* What a fetch got is among what was resolved, and nothing else joins it.
LEMMA ResolvedGrows ==
  ASSUME StackInv, NEW f \in Calls, Stores(f)
  PROVE  /\ Resolved' = Resolved \cup {f} /\ f \notin Resolved
         /\ fetched'[f] = Stamped(f) /\ \A g \in Resolved : g \in Calls /\ fetched'[g] = fetched[g]
<1>1. fetched \in [Calls -> Snapshots \cup {None}] /\ Stamped(f) \in Snapshots
  BY StampedType DEF StackInv, ServiceInv, ServiceTypeOK
<1> QED BY <1>1 DEF Stores, Resolved

\* SETs stay in the order of their stamps.
LEMMA SetsStayInOrder ==
  ASSUME Faultless, StackInv, OrderInv, [Next]_vars
  PROVE  SetsInOrder'
<1> SUFFICES ASSUME NEW q \in Procs, NEW i \in DOMAIN wire'[q], NEW j \in DOMAIN wire'[q],
                    i < j, IsSet(wire'[q][i]), IsSet(wire'[q][j])
             PROVE  wire'[q][i].snapshot.fetchedAt <= wire'[q][j].snapshot.fetchedAt
  BY DEF SetsInOrder, IsSet
<1>1. wire \in [Procs -> Seq(Commands)] /\ wire[q] \in Seq(Commands)
  BY DEF StackInv, StackTypeOK, RepoTypeOK
<1>2. NoFaults /\ \A k, l \in DOMAIN wire[q] :
        k < l /\ IsSet(wire[q][k]) /\ IsSet(wire[q][l])
          => wire[q][k].snapshot.fetchedAt <= wire[q][l].snapshot.fetchedAt
  BY DEF OrderInv, SetsInOrder
<1>3. CASE wire'[q] = wire[q]
  BY <1>2, <1>3
<1>4. ASSUME NEW c \in Calls, Asks(c), q = ProcOf[c]
      PROVE  wire'[q][i].snapshot.fetchedAt <= wire'[q][j].snapshot.fetchedAt
  <2>1. wire'[q] = Append(wire[q], Gets(c)) /\ Gets(c) \in Commands /\ ~IsSet(Gets(c))
    BY <1>1, <1>4 DEF Asks, Gets, Command, Commands, Ops, IsSet
  <2> QED BY <1>1, <1>2, <2>1, AppendIndex
<1>5. ASSUME NEW f \in Calls, Stores(f), q = ProcOf[f]
      PROVE  wire'[q][i].snapshot.fetchedAt <= wire'[q][j].snapshot.fetchedAt
  <2> DEFINE cmd == SetCommand(f, Stamped(f))
  <2>1. wire'[q] = Append(wire[q], cmd) /\ cmd.snapshot = Stamped(f)
    BY <1>1, <1>5 DEF Stores, SetCommand
  <2>2. cmd \in Commands
    BY StampIsNewest DEF SetCommand, Commands, Ops
  <2> HIDE DEF cmd
  <2>3. CASE j \in DOMAIN wire[q]
    BY <1>1, <1>2, <2>1, <2>2, <2>3, AppendIndex
  <2>4. CASE j \notin DOMAIN wire[q]
    <3>1. wire'[q][j].snapshot = Stamped(f) /\ i \in DOMAIN wire[q] /\ wire'[q][i] = wire[q][i]
      BY <1>1, <2>1, <2>2, <2>4, AppendIndex
    <3>2. \E g \in Resolved : wire[q][i].snapshot = fetched[g]
      BY <3>1, WireSets
    <3> QED BY <3>1, <3>2, StampIsNewest
  <2> QED BY <2>3, <2>4
<1>6. ASSUME IsExecuted(q)
      PROVE  wire'[q][i].snapshot.fetchedAt <= wire'[q][j].snapshot.fetchedAt
  <2>1. wire'[q] = Tail(wire[q]) /\ wire[q] # <<>>
    BY <1>1, <1>6 DEF IsExecuted
  <2>2. /\ i \in Nat /\ i + 1 \in DOMAIN wire[q] /\ wire'[q][i] = wire[q][i + 1]
        /\ j \in Nat /\ j + 1 \in DOMAIN wire[q] /\ wire'[q][j] = wire[q][j + 1]
    BY <1>1, <2>1, TailIndex
  <2>3. i + 1 < j + 1
    BY <2>2
  <2> QED BY <1>2, <2>2, <2>3
<1>7. ASSUME NEW n \in 0..Len(wire[q]), IsCut(q, n)
      PROVE  wire'[q][i].snapshot.fetchedAt <= wire'[q][j].snapshot.fetchedAt
  <2>1. wire'[q] = SubSeq(wire[q], 1, n)
    BY <1>1, <1>7 DEF IsCut
  <2> QED BY <1>1, <1>2, <2>1, PrefixIndex
<1> QED BY <1>1, <1>2, <1>3, <1>4, <1>5, <1>6, <1>7, WireSteps DEF Asks, Stores, IsExecuted, IsCut, Passes

\* What Redis executes, without faults, is a GET or the SET of what some fetch got.
LEMMA ExecutesOne ==
  ASSUME StackInv, NoFaults, NEW p \in Procs, IsExecuted(p)
  PROVE  \/ \E c \in Calls : ProcOf[c] = p /\ Head(wire[p]) = Gets(c) /\ store' = Found
         \/ \E f \in Resolved : /\ ProcOf[f] = p /\ Head(wire[p]) = Sets(f)
                              /\ store' = [kind |-> "snapshot", snapshot |-> fetched[f],
                                           expiresAt |-> now + TTL]
<1>1. wire[p] \in Seq(Commands) /\ wire[p] # <<>>
  BY DEF StackInv, StackTypeOK, RepoTypeOK, IsExecuted
<1>2. 1 \in DOMAIN wire[p] /\ Head(wire[p]) = wire[p][1]
  BY <1>1, TailIndex
<1>3. PICK cmd : cmd = Head(wire[p])
  OBVIOUS
<1>4. Sent(cmd) /\ cmd.call \in Calls /\ ProcOf[cmd.call] = p /\ cmd.op # "del"
  BY <1>2, <1>3, WireSent DEF NoFaults
<1>5. CASE cmd = Command("get", cmd.call)
  <2>1. store' = Found
    BY <1>3, <1>5 DEF IsExecuted, Effect, Command
  <2> QED BY <1>3, <1>4, <1>5, <2>1 DEF Gets
<1>6. CASE cmd = SetCommand(cmd.call, fetched[cmd.call]) /\ fetched[cmd.call] \in Snapshots
  <2>1. store' = [kind |-> "snapshot", snapshot |-> fetched[cmd.call], expiresAt |-> now + TTL]
    BY <1>3, <1>6 DEF IsExecuted, Effect, SetCommand
  <2>2. cmd.call \in Resolved
    BY <1>4, <1>6 DEF Resolved
  <2> QED BY <1>3, <1>4, <1>6, <2>1, <2>2 DEF Sets
<1> QED BY <1>4, <1>5, <1>6 DEF Sent, Command

\* Reading the key shows what it covers: what is older than the TTL may be gone.
LEMMA FoundCovers ==
  ASSUME Faultless, StackInv, StoreInOrder, NEW c \in Calls, NEW stamp \in Nat,
         Covers(ProcOf[c], stamp)
  PROVE  \/ /\ Found.kind = "snapshot" /\ Known(Found.snapshot)
            /\ stamp <= Found.snapshot.fetchedAt
         \/ Found.kind # "snapshot" /\ stamp + TTL < Clock(ProcOf[c])
<1>1. CASE store.kind # "snapshot"
  BY <1>1 DEF Covers, Found
<1>2. CASE store.kind = "snapshot"
  <2>1. Known(store.snapshot) /\ stamp <= store.snapshot.fetchedAt
    BY <1>2 DEF StackInv, StoreOK, Covers
  <2>2. CASE ~(now > store.expiresAt)
    BY <1>2, <2>1, <2>2 DEF Found
  <2>3. CASE now > store.expiresAt
    <3>1. PICK s \in Snapshots : s = store.snapshot
      BY <2>1 DEF Known
    <3>2. s.by \in Calls /\ s.fetchedAt \in Nat
      BY DEF Snapshots
    <3>3. ProcOf[s.by] = ProcOf[c] /\ ProcOf[c] \in Procs /\ Skew[ProcOf[c]] \in Nat
      BY <3>2 DEF Faultless
    <3>4. RealTime(s) = s.fetchedAt - Skew[ProcOf[c]]
      BY <3>3 DEF RealTime
    <3>5. now \in Nat /\ store.expiresAt \in Nat
      BY <1>2 DEF StackInv, StackTypeOK, ServiceTypeOK, WorldTypeOK, RepoTypeOK, Values, Kinds
    <3>6. RealTime(s) + TTL <= store.expiresAt
      BY <1>2, <3>1 DEF StoreInOrder
    <3>7. stamp + TTL < now + Skew[ProcOf[c]]
      BY <2>1, <2>3, <3>1, <3>2, <3>3, <3>4, <3>5, <3>6
    <3>8. Found.kind # "snapshot"
      BY <1>2, <2>3 DEF Found, Nothing, Holding
    <3> QED BY <3>7, <3>8 DEF Clock
  <2> QED BY <2>2, <2>3
<1> QED BY <1>1, <1>2

\* The key keeps to the order of the SETs.
LEMMA StoreStaysInOrder ==
  ASSUME Faultless, StackInv, OrderInv, [Next]_vars
  PROVE  StoreInOrder'
<1> USE DEF IsSet
<1>1. wire \in [Procs -> Seq(Commands)] /\ now \in Nat
  BY DEF StackInv, StackTypeOK, RepoTypeOK, ServiceTypeOK, WorldTypeOK
<1>2. NoFaults /\ StoreInOrder /\ SetsInOrder
  BY DEF OrderInv
<1>3. ASSUME store' = store, NEW q \in Procs, NEW i \in DOMAIN wire'[q], IsSet(wire'[q][i]),
             store.kind = "snapshot", \E j \in DOMAIN wire[q] : wire[q][j] = wire'[q][i]
      PROVE  store'.snapshot.fetchedAt <= wire'[q][i].snapshot.fetchedAt
  BY <1>2, <1>3 DEF StoreInOrder
<1>4. ASSUME store' = store,
             \A q \in Procs : \A i \in DOMAIN wire'[q] : IsSet(wire'[q][i]) =>
               \/ \E j \in DOMAIN wire[q] : wire[q][j] = wire'[q][i]
               \/ store.kind = "snapshot" =>
                    store.snapshot.fetchedAt <= wire'[q][i].snapshot.fetchedAt
      PROVE  StoreInOrder'
  BY <1>2, <1>3, <1>4 DEF StoreInOrder, RealTime
<1>5. ASSUME NEW c \in Calls, Asks(c)
      PROVE  StoreInOrder'
  <2>1. ASSUME NEW q \in Procs, NEW i \in DOMAIN wire'[q], IsSet(wire'[q][i])
        PROVE  \E j \in DOMAIN wire[q] : wire[q][j] = wire'[q][i]
    <3>1. Gets(c) \in Commands /\ ~IsSet(Gets(c))
      BY <1>5 DEF Asks, Gets, Command, Commands, Ops
    <3>2. wire[q] \in Seq(Commands) /\ wire'[q] \in {wire[q], Append(wire[q], Gets(c))}
      BY <1>1, <1>5 DEF Asks
    <3>3. CASE wire'[q] = Append(wire[q], Gets(c))
      <4>1. i \in DOMAIN wire[q] /\ wire'[q][i] = wire[q][i]
        BY <2>1, <3>1, <3>2, <3>3, AppendIndex
      <4> QED BY <4>1
    <3> QED BY <3>2, <3>3
  <2> QED BY <1>4, <1>5, <2>1 DEF Asks
<1>6. ASSUME NEW f \in Calls, Stores(f)
      PROVE  StoreInOrder'
  <2> DEFINE cmd == SetCommand(f, Stamped(f))
  <2>1. ASSUME NEW q \in Procs, NEW i \in DOMAIN wire'[q], IsSet(wire'[q][i])
        PROVE  (\E j \in DOMAIN wire[q] : wire[q][j] = wire'[q][i]) \/ wire'[q][i].snapshot = Stamped(f)
    <3>1. cmd \in Commands /\ cmd.snapshot = Stamped(f)
      BY StampIsNewest DEF SetCommand, Commands, Ops
    <3>2. wire[q] \in Seq(Commands) /\ wire'[q] \in {wire[q], Append(wire[q], cmd)}
      BY <1>1, <1>6 DEF Stores
    <3> HIDE DEF cmd
    <3>3. CASE wire'[q] = Append(wire[q], cmd)
      <4>1. (i \in DOMAIN wire[q] /\ wire'[q][i] = wire[q][i]) \/ wire'[q][i] = cmd
        BY <3>1, <3>2, <3>3, AppendIndex
      <4> QED BY <3>1, <4>1
    <3> QED BY <3>2, <3>3
  <2>2. store.kind = "snapshot" => store.snapshot.fetchedAt <= Stamped(f).fetchedAt
    <3>1. store.kind = "snapshot" => \E g \in Resolved : fetched[g] = store.snapshot
      BY DEF StackInv, StoreOK, Known, Resolved, Snapshots
    <3> QED BY <3>1, StampIsNewest
  <2> HIDE DEF cmd
  <2> QED BY <1>4, <1>6, <2>1, <2>2 DEF Stores
<1>7. ASSUME NEW p \in Procs, IsExecuted(p)
      PROVE  StoreInOrder'
  <2>1. wire[p] \in Seq(Commands) /\ wire[p] # <<>> /\ wire' = [wire EXCEPT ![p] = Tail(wire[p])]
    BY <1>1, <1>7 DEF IsExecuted
  <2>2. /\ 1 \in DOMAIN wire[p] /\ Head(wire[p]) = wire[p][1]
        /\ \A i \in DOMAIN Tail(wire[p]) : /\ i \in Nat \ {0} /\ i + 1 \in DOMAIN wire[p]
                                          /\ Tail(wire[p])[i] = wire[p][i + 1]
    BY <2>1, TailIndex
  <2>3. \A q \in Procs : \A i \in DOMAIN wire'[q] :
          \E j \in DOMAIN wire[q] : wire[q][j] = wire'[q][i] /\ (q = p => j > 1 /\ j \in Nat)
    <3>1. ASSUME NEW q \in Procs, NEW i \in DOMAIN wire'[q]
          PROVE  \E j \in DOMAIN wire[q] : wire[q][j] = wire'[q][i] /\ (q = p => j > 1 /\ j \in Nat)
      <4>1. CASE q # p
        BY <1>1, <2>1, <4>1
      <4>2. CASE q = p
        <5>1. i \in Nat \ {0} /\ i + 1 \in DOMAIN wire[p] /\ wire'[q][i] = wire[p][i + 1]
          BY <1>1, <2>1, <2>2, <4>2
        <5>2. i + 1 > 1 /\ i + 1 \in Nat
          BY <5>1
        <5> QED BY <4>2, <5>1, <5>2
      <4> QED BY <4>1, <4>2
    <3> QED BY <3>1
  <2>4. CASE store' = Found
    <3>1. CASE Found = store
      BY <1>4, <2>3, <2>4, <3>1
    <3>2. CASE Found = Nothing
      BY <2>4, <3>2 DEF StoreInOrder, Nothing, Holding
    <3> QED BY <3>1, <3>2 DEF Found
  <2>5. ASSUME NEW f \in Resolved, ProcOf[f] = p, Head(wire[p]) = Sets(f),
               store' = [kind |-> "snapshot", snapshot |-> fetched[f], expiresAt |-> now + TTL]
        PROVE  StoreInOrder'
    <3>1. /\ f \in Calls /\ RealTime(fetched[f]) \in Int /\ RealTime(fetched[f]) <= now
          /\ fetched[f].fetchedAt \in Nat
      BY ResolvedType
    <3>2. RealTime(store'.snapshot) + TTL <= store'.expiresAt
      BY <1>1, <2>5, <3>1
    <3>3. ASSUME NEW q \in Procs, NEW i \in DOMAIN wire'[q], IsSet(wire'[q][i])
          PROVE  store'.snapshot.fetchedAt <= wire'[q][i].snapshot.fetchedAt
      <4>1. PICK j \in DOMAIN wire[q] : wire[q][j] = wire'[q][i] /\ (q = p => j > 1 /\ j \in Nat)
        BY <2>3, <3>3
      <4>2. q = p
        BY <2>5, <3>1, <4>1, WireSent DEF Faultless
      <4>3. wire[p][1].snapshot = fetched[f] /\ IsSet(wire[p][1])
        BY <2>2, <2>5 DEF Sets, SetCommand
      <4>4. wire[p][1].snapshot.fetchedAt <= wire[p][j].snapshot.fetchedAt
        BY <1>2, <2>2, <3>3, <4>1, <4>2, <4>3 DEF SetsInOrder
      <4> QED BY <2>5, <4>1, <4>2, <4>3, <4>4
    <3>4. RealTime(store.snapshot)' = RealTime(store'.snapshot)
      BY DEF RealTime
    <3> QED BY <3>2, <3>3, <3>4 DEF StoreInOrder
  <2> QED BY <1>2, <1>7, <2>4, <2>5, ExecutesOne
<1>8. ASSUME NEW p \in Procs, NEW n \in 0..Len(wire[p]), IsCut(p, n)
      PROVE  StoreInOrder'
  <2>1. ASSUME NEW q \in Procs, NEW i \in DOMAIN wire'[q]
        PROVE  \E j \in DOMAIN wire[q] : wire[q][j] = wire'[q][i]
    <3>1. wire[q] \in Seq(Commands) /\ (q = p => wire'[q] = SubSeq(wire[q], 1, n))
          /\ (q # p => wire'[q] = wire[q])
      BY <1>1, <1>8 DEF IsCut
    <3> QED BY <2>1, <3>1, PrefixIndex
  <2> QED BY <1>4, <1>8, <2>1 DEF IsCut
<1>9. ASSUME Passes
      PROVE  StoreInOrder'
  BY <1>4, <1>9 DEF Passes
<1> QED BY <1>2, <1>5, <1>6, <1>7, <1>8, <1>9, WireSteps

\* What is covered stays so while Redis keeps, finds or drops what has expired.
LEMMA CoversKept ==
  ASSUME Faultless, StackInv, StoreInOrder, NEW c \in Calls, NEW stamp \in Nat,
         Covers(ProcOf[c], stamp),
         \/ store' = store /\ now' \in {now, now + 1}
         \/ store' = Found /\ now' = now
  PROVE  Covers(ProcOf[c], stamp)'
<1>1. now \in Nat /\ Skew[ProcOf[c]] \in Nat
  BY DEF StackInv, StackTypeOK, ServiceTypeOK, WorldTypeOK
<1>2. CASE store' = store /\ now' \in {now, now + 1}
  <2>1. CASE store.kind = "snapshot" /\ stamp <= store.snapshot.fetchedAt
    BY <1>2, <2>1 DEF Covers
  <2>2. CASE store.kind # "snapshot" /\ stamp + TTL < Clock(ProcOf[c])
    <3>1. stamp + TTL < now + Skew[ProcOf[c]]
      BY <2>2 DEF Clock
    <3>2. stamp + TTL < now' + Skew[ProcOf[c]]
      BY <1>1, <1>2, <3>1
    <3> QED BY <1>2, <2>2, <3>2 DEF Covers, Clock
  <2> QED BY <2>1, <2>2 DEF Covers
<1>3. CASE store' = Found /\ now' = now
  <2>1. \/ store'.kind = "snapshot" /\ stamp <= store'.snapshot.fetchedAt
        \/ store'.kind # "snapshot" /\ stamp + TTL < Clock(ProcOf[c])
    BY <1>3, FoundCovers
  <2> QED BY <1>3, <2>1 DEF Covers, Clock
<1> QED BY <1>2, <1>3

\* Only the one process's wire is executed.
LEMMA ExecutesOwn ==
  ASSUME Faultless, StackInv, NoFaults, NEW p \in Procs, IsExecuted(p), NEW c \in Calls
  PROVE  p = ProcOf[c]
<1>1. \A d \in Resolved : d \in Calls
  BY DEF Resolved
<1> QED BY <1>1, ExecutesOne DEF Faultless

\* What was resolved is still to be written, or Redis holds it, or newer.
LEMMA NothingGetsLost ==
  ASSUME Faultless, StackInv, OrderInv, [Next]_vars
  PROVE  NothingLost'
<1> SUFFICES ASSUME NEW f \in Resolved', alive'[ProcOf[f]]
             PROVE  \/ \E i \in DOMAIN wire'[ProcOf[f]] : wire'[ProcOf[f]][i] = Sets(f)'
                    \/ /\ Covers(ProcOf[f], fetched[f].fetchedAt)'
                       /\ \A i \in DOMAIN wire'[ProcOf[f]] :
                            IsSet(wire'[ProcOf[f]][i]) =>
                              fetched'[f].fetchedAt <= wire'[ProcOf[f]][i].snapshot.fetchedAt
  BY DEF NothingLost, IsSet
<1>1. f \in Calls
  BY DEF Resolved
<1> DEFINE p == ProcOf[f]
<1>2. /\ wire \in [Procs -> Seq(Commands)] /\ wire[p] \in Seq(Commands) /\ p \in Procs
      /\ alive \in [Procs -> BOOLEAN]
  BY <1>1 DEF StackInv, StackTypeOK, RepoTypeOK, ServiceTypeOK, WorldTypeOK
<1> DEFINE Lies == \E i \in DOMAIN wire'[p] : wire'[p][i] = Sets(f)'
           Held == /\ Covers(p, fetched[f].fetchedAt)'
                   /\ \A i \in DOMAIN wire'[p] :
                        IsSet(wire'[p][i]) => fetched'[f].fetchedAt <= wire'[p][i].snapshot.fetchedAt
           Lay  == \E i \in DOMAIN wire[p] : wire[p][i] = Sets(f)
           Hold == /\ Covers(p, fetched[f].fetchedAt)
                   /\ \A i \in DOMAIN wire[p] :
                        IsSet(wire[p][i]) => fetched[f].fetchedAt <= wire[p][i].snapshot.fetchedAt
<1>3. NoFaults /\ StoreInOrder /\ SetsInOrder /\ (f \in Resolved /\ alive[p] => Lay \/ Hold)
  BY DEF OrderInv, NothingLost
<1>4. ASSUME Stores(f)
      PROVE  Lies
  <2>1. Stamped(f) \in Snapshots /\ fetched \in [Calls -> Snapshots \cup {None}]
    BY <1>1, StampIsNewest DEF StackInv, StackTypeOK, ServiceTypeOK
  <2>2. Sets(f)' = SetCommand(f, Stamped(f)) /\ SetCommand(f, Stamped(f)) \in Commands
    BY <1>1, <1>4, <2>1 DEF Stores, Sets, SetCommand, Commands, Ops
  <2>3. wire'[p] = Append(wire[p], SetCommand(f, Stamped(f)))
    BY <1>2, <1>4 DEF Stores
  <2>4. Len(wire[p]) + 1 \in DOMAIN wire'[p] /\ wire'[p][Len(wire[p]) + 1] = SetCommand(f, Stamped(f))
    BY <1>2, <2>2, <2>3, AppendIndex
  <2> QED BY <2>2, <2>4
<1>5. ASSUME NEW g \in Calls, Stores(g), g # f
      PROVE  Lies \/ Held
  <2>1. /\ f \in Resolved /\ fetched'[f] = fetched[f] /\ alive[p]
        /\ store' = store /\ now' = now
    <3>1. /\ Resolved' = Resolved \cup {g}
          /\ \A h \in Resolved : fetched'[h] = fetched[h]
      BY <1>5, ResolvedGrows
    <3>2. f \in Resolved
      BY <1>5, <3>1
    <3>3. alive' = alive /\ store' = store /\ now' = now
      BY <1>5 DEF Stores
    <3> QED BY <3>1, <3>2, <3>3
  <2> DEFINE cmd == SetCommand(g, Stamped(g))
  <2>2. cmd \in Commands /\ cmd.snapshot = Stamped(g)
    BY StampIsNewest DEF SetCommand, Commands, Ops
  <2>3. wire'[p] = Append(wire[p], cmd)
    BY <1>1, <1>2, <1>5 DEF Stores, Faultless
  <2> HIDE DEF cmd
  <2>4. CASE Lay
    BY <1>2, <2>1, <2>2, <2>3, <2>4, AppendIndex DEF Sets
  <2>5. CASE Hold
    <3>1. Covers(p, fetched[f].fetchedAt)'
      BY <1>1, <1>3, <2>1, <2>5, CoversKept, ResolvedType
    <3>2. fetched[f].fetchedAt <= Stamped(g).fetchedAt
      BY <2>1, StampIsNewest
    <3>3. \A i \in DOMAIN wire'[p] : (i \in DOMAIN wire[p] /\ wire'[p][i] = wire[p][i]) \/ wire'[p][i] = cmd
      BY <1>2, <2>2, <2>3, AppendIndex
    <3> QED BY <2>1, <2>2, <2>5, <3>1, <3>2, <3>3
  <2> QED BY <1>3, <2>1, <2>4, <2>5
<1>6. ASSUME fetched' = fetched, alive[p], f \in Resolved,
             \/ store' = store /\ now' \in {now, now + 1}
             \/ store' = Found /\ now' = now,
             \A i \in DOMAIN wire'[p] :
               IsSet(wire'[p][i]) => \E j \in DOMAIN wire[p] : wire[p][j] = wire'[p][i],
             \A i \in DOMAIN wire[p] : IsSet(wire[p][i]) => 
               \E j \in DOMAIN wire'[p] : wire'[p][j] = wire[p][i]
      PROVE  Lies \/ Held
  <2>1. CASE Lay
    BY <1>6, <2>1 DEF Sets, SetCommand, IsSet
  <2>2. CASE Hold
    <3>1. Covers(p, fetched[f].fetchedAt)'
      BY <1>1, <1>3, <1>6, <2>2, CoversKept, ResolvedType
    <3> QED BY <1>6, <2>2, <3>1
  <2> QED BY <1>3, <1>6, <2>1, <2>2
<1>7. ASSUME NEW c \in Calls, Asks(c)
      PROVE  Lies \/ Held
  <2>1. Gets(c) \in Commands /\ ~IsSet(Gets(c))
    BY DEF Gets, Command, Commands, Ops, IsSet
  <2>2. wire'[p] = Append(wire[p], Gets(c))
    BY <1>1, <1>2, <1>7 DEF Asks, Faultless
  <2>3. /\ fetched' = fetched /\ alive[p] /\ f \in Resolved /\ store' = store /\ now' = now
    BY <1>7 DEF Asks, Resolved
  <2>4. /\ \A i \in DOMAIN wire'[p] :
             IsSet(wire'[p][i]) => \E j \in DOMAIN wire[p] : wire[p][j] = wire'[p][i]
        /\ \A i \in DOMAIN wire[p] : IsSet(wire[p][i]) => 
             \E j \in DOMAIN wire'[p] : wire'[p][j] = wire[p][i]
    <3>1. \A i \in DOMAIN wire'[p] : (i \in DOMAIN wire[p] /\ wire'[p][i] = wire[p][i]) \/ wire'[p][i] = Gets(c)
      BY <1>2, <2>1, <2>2, AppendIndex
    <3>2. \A i \in DOMAIN wire[p] : i \in DOMAIN wire'[p] /\ wire'[p][i] = wire[p][i]
      BY <1>2, <2>1, <2>2, AppendIndex
    <3> QED BY <2>1, <3>1, <3>2
  <2> QED BY <1>6, <2>3, <2>4
<1>8. ASSUME NEW q \in Procs, IsExecuted(q)
      PROVE  Lies \/ Held
  <2>1. q = p
    BY <1>1, <1>3, <1>8, ExecutesOwn
  <2>2. /\ fetched' = fetched /\ alive[p] /\ f \in Resolved /\ now' = now
        /\ wire'[p] = Tail(wire[p]) /\ wire[p] # <<>>
    BY <1>2, <1>8, <2>1 DEF IsExecuted, Resolved
  <2>3. /\ 1 \in DOMAIN wire[p] /\ Head(wire[p]) = wire[p][1]
        /\ \A i \in DOMAIN wire'[p] :
             i \in Nat \ {0} /\ i + 1 \in DOMAIN wire[p] /\ wire'[p][i] = wire[p][i + 1]
        /\ \A i \in DOMAIN wire[p] :
             i \in Nat \ {0} /\ (i # 1 => i - 1 \in DOMAIN wire'[p] /\ wire'[p][i - 1] = wire[p][i])
    BY <1>2, <2>2, TailIndex
  <2>4. ASSUME NEW c \in Calls, Head(wire[p]) = Gets(c), store' = Found
        PROVE  Lies \/ Held
    <3>1. ~IsSet(wire[p][1])
      BY <2>3, <2>4 DEF Gets, Command, IsSet
    <3>2. \A i \in DOMAIN wire'[p] :
            IsSet(wire'[p][i]) => \E j \in DOMAIN wire[p] : wire[p][j] = wire'[p][i]
      BY <2>3
    <3>3. \A i \in DOMAIN wire[p] :
            IsSet(wire[p][i]) => \E j \in DOMAIN wire'[p] : wire'[p][j] = wire[p][i]
      BY <2>3, <3>1
    <3> QED BY <1>6, <2>2, <2>4, <3>2, <3>3
  <2>5. ASSUME NEW g \in Resolved, Head(wire[p]) = Sets(g),
               store' = [kind |-> "snapshot", snapshot |-> fetched[g], expiresAt |-> now + TTL]
        PROVE  Lies \/ Held
    <3>1. IsSet(wire[p][1]) /\ wire[p][1].snapshot = fetched[g]
      BY <2>3, <2>5 DEF Sets, SetCommand, IsSet
    <3>2. SUFFICES ASSUME ~Lies
                   PROVE  Held
      OBVIOUS
    <3>3. ASSUME NEW i \in DOMAIN wire'[p], IsSet(wire'[p][i])
          PROVE  fetched[g].fetchedAt <= wire'[p][i].snapshot.fetchedAt
      <4>1. i + 1 \in DOMAIN wire[p] /\ wire'[p][i] = wire[p][i + 1] /\ 1 < i + 1
        BY <2>3
      <4>2. \A k, l \in DOMAIN wire[p] :
              k < l /\ IsSet(wire[p][k]) /\ IsSet(wire[p][l])
                => wire[p][k].snapshot.fetchedAt <= wire[p][l].snapshot.fetchedAt
        BY <1>2, <1>3 DEF SetsInOrder
      <4>3. IsSet(wire[p][i + 1])
        BY <3>3, <4>1
      <4>4. wire[p][1].snapshot.fetchedAt <= wire[p][i + 1].snapshot.fetchedAt
        BY <2>3, <3>1, <4>1, <4>2, <4>3
      <4> QED BY <3>1, <4>1, <4>4
    <3>4. fetched[f].fetchedAt <= fetched[g].fetchedAt
      <4>1. CASE Lay
        <5>1. PICK i \in DOMAIN wire[p] : wire[p][i] = Sets(f)
          BY <4>1
        <5>2. i = 1
          <6>1. Sets(f)' = Sets(f)
            BY <2>2 DEF Sets
          <6> QED BY <2>3, <3>2, <5>1, <6>1
        <5>3. fetched[f] = fetched[g]
          BY <3>1, <5>1, <5>2 DEF Sets, SetCommand
        <5> QED BY <2>2, <5>3, ResolvedType
      <4>2. CASE Hold
        BY <2>3, <3>1, <4>2
      <4> QED BY <1>3, <2>2, <4>1, <4>2
    <3>5. Covers(p, fetched[f].fetchedAt)'
      BY <2>2, <2>5, <3>4 DEF Covers
    <3>6. ASSUME NEW i \in DOMAIN wire'[p], IsSet(wire'[p][i])
          PROVE  fetched'[f].fetchedAt <= wire'[p][i].snapshot.fetchedAt
      <4>1. i + 1 \in DOMAIN wire[p] /\ wire'[p][i] = wire[p][i + 1]
        BY <2>3
      <4>2. PICK k \in DOMAIN wire[p] : wire[p][k] = wire'[p][i] /\ IsSet(wire[p][k])
        <5>1. IsSet(wire[p][i + 1])
          BY <3>6, <4>1
        <5> QED BY <4>1, <5>1
      <4>3. PICK h \in Resolved : wire[p][k].snapshot = fetched[h]
        <5>1. p \in Procs /\ k \in DOMAIN wire[p] /\ IsSet(wire[p][k])
          BY <1>2, <4>2
        <5> HIDE DEF p
        <5> QED BY <5>1, WireSets
      <4>4. /\ fetched[f].fetchedAt \in Nat /\ fetched[g].fetchedAt \in Nat
            /\ fetched[h].fetchedAt \in Nat
        BY <2>2, ResolvedType
      <4>5. fetched[g].fetchedAt <= fetched[h].fetchedAt
        BY <3>3, <3>6, <4>2, <4>3
      <4> QED BY SMTT(60), <2>2, <3>4, <4>2, <4>3, <4>4, <4>5
    <3> QED BY <3>5, <3>6
  <2> QED BY <1>3, <1>8, <2>1, <2>4, <2>5, ExecutesOne
<1>9. ASSUME NEW q \in Procs, NEW n \in 0..Len(wire[q]), IsCut(q, n)
      PROVE  Lies \/ Held
  <2>1. q # p /\ alive[p] /\ wire'[p] = wire[p]
    BY <1>2, <1>9 DEF IsCut
  <2> QED BY <1>6, <1>9, <2>1 DEF IsCut, Resolved
<1>10. ASSUME Passes
       PROVE  Lies \/ Held
  BY <1>6, <1>10 DEF Passes, Resolved
<1> QED BY <1>3, <1>4, <1>5, <1>7, <1>8, <1>9, <1>10, WireSteps

-----------------------------------------------------------------------------
(* What was served before a call began, and the GET that will see it       *)

\* The newest stamp a process served is that of what one of its fetches got.
LEMMA NewestIsResolved ==
  ASSUME Faultless, StackInv, NEW c \in Calls, NewestServed(ProcOf[c]) # None
  PROVE  \E f \in Resolved : fetched[f].fetchedAt = NewestServed(ProcOf[c])
<1> DEFINE p == ProcOf[c]
           D == {d \in Calls : ProcOf[d] = p /\ pc[d] \in Served}
           stamps == {answer[d].fetchedAt : d \in D}
           f == [d \in D |-> answer[d].fetchedAt]
<1>1. NewestServed(p) = IF stamps = {} THEN None ELSE Max(stamps)
  BY DEF NewestServed
<1>2. stamps # {} /\ D # {}
  BY <1>1
<1>3. IsFiniteSet(D)
  BY FiniteAssumption, FS_Subset
<1>4. \A d \in D : /\ f[d] = answer[d].fetchedAt /\ f[d] \in Int
                   /\ \E g \in Resolved : fetched[g] = answer[d]
  BY DEF StackInv, AnswersOK, Known, Snapshots, Resolved
<1>5. stamps = {f[d] : d \in D}
  BY <1>4
<1> HIDE DEF f, D
<1>6. Max({f[d] : d \in D}) \in {f[d] : d \in D}
  <2>1. \A d \in D : f[d] \in Int
    BY <1>4
  <2> QED BY ZenonT(60), <1>2, <1>3, <2>1, GreatestIsMax
<1>7. PICK d \in D : f[d] = Max(stamps)
  BY <1>5, <1>6
<1>8. PICK g \in Resolved : fetched[g] = answer[d]
  BY <1>4
<1>9. answer[d].fetchedAt = Max(stamps)
  BY <1>4, <1>7
<1>10. NewestServed(p) = Max(stamps)
  BY <1>1, <1>2
<1> HIDE DEF stamps
<1> QED BY <1>8, <1>9, <1>10

\* What was served before a call began had been resolved.
LEMMA NewestStaysResolved ==
  ASSUME Faultless, StackInv, OrderInv, [Next]_vars
  PROVE  NewestResolved'
<1> SUFFICES ASSUME NEW c \in Calls, newest'[c] # None
             PROVE  \E f \in Resolved' : fetched'[f].fetchedAt = newest'[c]
  BY DEF NewestResolved
<1>1. /\ newest[c] # None => \E f \in Resolved : fetched[f].fetchedAt = newest[c]
      /\ newest \in [Calls -> Nat \cup {None}]
  BY DEF OrderInv, NewestResolved, StackInv, StackTypeOK
<1>2. ASSUME NEW d \in Calls, Asks(d)
      PROVE  \E f \in Resolved' : fetched'[f].fetchedAt = newest'[c]
  <2>1. fetched' = fetched /\ Resolved' = Resolved
        /\ newest'[c] = IF c = d THEN NewestServed(ProcOf[d]) ELSE newest[c]
    BY <1>1, <1>2 DEF Asks, Resolved
  <2> QED BY <1>1, <2>1, NewestIsResolved
<1>3. ASSUME NEW d \in Calls, Stores(d)
      PROVE  \E f \in Resolved' : fetched'[f].fetchedAt = newest'[c]
  <2>1. newest' = newest
    BY <1>3 DEF Stores
  <2> QED BY <1>1, <1>3, <2>1, ResolvedGrows
<1>4. ASSUME fetched' = fetched, newest' = newest
      PROVE  \E f \in Resolved' : fetched'[f].fetchedAt = newest'[c]
  BY <1>1, <1>4 DEF Resolved
<1>5. NoFaults
  BY DEF OrderInv
<1> QED BY <1>2, <1>3, <1>4, <1>5, WireSteps DEF IsExecuted, IsCut, Passes

\* A call that begins sends its GET after every SET of what was served before.
LEMMA AskingWillSee ==
  ASSUME Faultless, StackInv, OrderInv, NEW c \in Calls, alive[ProcOf[c]], NEW stamp,
         stamp = NewestServed(ProcOf[c]), stamp # None
  PROVE  WillSee(ProcOf[c], Len(wire[ProcOf[c]]) + 1, stamp)
<1> DEFINE p == ProcOf[c]
           w == wire[p]
<1>1. PICK f \in Resolved : fetched[f].fetchedAt = stamp
  BY NewestIsResolved
<1>2. w \in Seq(Commands) /\ ProcOf[f] = p /\ stamp \in Nat
  BY <1>1, ResolvedType DEF StackInv, StackTypeOK, RepoTypeOK, Faultless
<1>3. Len(w) \in Nat /\ DOMAIN w = 1..Len(w)
  BY <1>2, LenProperties
<1>4. 1..((Len(w) + 1) - 1) = DOMAIN w
  BY <1>3
<1>5. \/ \E i \in DOMAIN w : w[i] = Sets(f)
      \/ Covers(p, stamp) /\ \A i \in DOMAIN w : IsSet(w[i]) => stamp <= w[i].snapshot.fetchedAt
  <2>1. alive[ProcOf[f]] /\ wire[ProcOf[f]] = w /\ fetched[f].fetchedAt = stamp
    BY <1>1, <1>2
  <2> HIDE DEF w
  <2>2. \/ \E i \in DOMAIN w : w[i] = Sets(f)
        \/ /\ Covers(ProcOf[f], stamp)
           /\ \A i \in DOMAIN w : IsSet(w[i]) => stamp <= w[i].snapshot.fetchedAt
    BY <2>1 DEF OrderInv, NothingLost
  <2> QED BY <1>2, <2>2
<1>6. CASE \E i \in DOMAIN w : w[i] = Sets(f)
  <2>1. \E i \in DOMAIN w : IsSet(w[i]) /\ stamp <= w[i].snapshot.fetchedAt
    BY SMTT(60), <1>1, <1>2, <1>6 DEF Sets, SetCommand, IsSet
  <2> QED BY <1>4, <2>1 DEF WillSee
<1>7. CASE Covers(p, stamp) /\ \A i \in DOMAIN w : IsSet(w[i]) => stamp <= w[i].snapshot.fetchedAt
  BY <1>4, <1>7 DEF WillSee
<1> QED BY <1>5, <1>6, <1>7

\* A GET on its way still will see what was served before its call.
LEMMA GetsStillSee ==
  ASSUME Faultless, StackInv, OrderInv, [Next]_vars
  PROVE  GetsWillSee'
<1> SUFFICES ASSUME NEW p \in Procs, alive'[p], NEW i \in DOMAIN wire'[p], NEW c \in Calls,
                    wire'[p][i] = Gets(c), newest'[c] # None
             PROVE  WillSee(p, i, newest[c])'
  BY DEF GetsWillSee, Gets
<1>1. /\ wire \in [Procs -> Seq(Commands)] /\ wire[p] \in Seq(Commands)
      /\ newest \in [Calls -> Nat \cup {None}] /\ alive \in [Procs -> BOOLEAN] /\ now \in Nat
  BY DEF StackInv, StackTypeOK, RepoTypeOK, ServiceTypeOK, WorldTypeOK
<1>2. /\ NoFaults /\ StoreInOrder /\ SetsInOrder
      /\ \A k \in DOMAIN wire[p] : alive[p] /\ wire[p][k] = Gets(c) /\ newest[c] # None
                                     => WillSee(p, k, newest[c])
  BY DEF OrderInv, GetsWillSee
<1>3. Gets(c) \in Commands /\ ~IsSet(Gets(c)) /\ Gets(c).call = c
  BY DEF Gets, Command, Commands, Ops, IsSet
<1>4. \A k \in DOMAIN wire[p] : wire[p][k] = Gets(c) => ProcOf[c] = p /\ pc[c] # "idle"
  BY <1>3, WireSent DEF Sent
<1>5. ASSUME i \in DOMAIN wire[p], wire[p][i] = Gets(c), alive[p], newest'[c] = newest[c],
             \A j \in 1..(i - 1) : wire'[p][j] = wire[p][j],
             store' = store, now' \in {now, now + 1}
      PROVE  WillSee(p, i, newest[c])'
  <2>1. newest[c] \in Nat /\ ProcOf[c] = p
    BY <1>1, <1>4, <1>5
  <2>2. CASE \E j \in 1..(i - 1) : IsSet(wire[p][j]) /\ newest[c] <= wire[p][j].snapshot.fetchedAt
    BY <1>5, <2>2 DEF WillSee, IsSet
  <2>3. CASE Covers(p, newest[c]) /\ \A j \in 1..(i - 1) : ~IsSet(wire[p][j])
    <3>1. Covers(p, newest[c])'
      <4>1. PICK stamp \in Nat : stamp = newest[c]
        BY <2>1
      <4>2. Covers(p, stamp)'
        BY <1>2, <1>5, <2>1, <2>3, <4>1, CoversKept
      <4> QED BY <1>5, <4>1, <4>2 DEF Covers
    <3> QED BY <1>5, <2>3, <3>1 DEF WillSee, IsSet
  <2> QED BY <1>2, <1>5, <2>2, <2>3 DEF WillSee
<1>6. ASSUME NEW x \in Commands, wire'[p] = Append(wire[p], x), alive[p],
             store' = store, now' = now, newest'[c] = newest[c], x # Gets(c)
      PROVE  WillSee(p, i, newest[c])'
  <2>1. i \in DOMAIN wire[p] /\ wire[p][i] = Gets(c) /\ i \in 1..Len(wire[p])
    BY <1>1, <1>6, AppendIndex
  <2>2. \A j \in 1..(i - 1) : j \in DOMAIN wire[p]
    BY <1>1, <2>1, LenProperties
  <2>3. \A j \in 1..(i - 1) : wire'[p][j] = wire[p][j]
    BY <1>1, <1>6, <2>2, AppendIndex
  <2> QED BY <1>5, <1>6, <2>1, <2>3
<1>7. ASSUME NEW d \in Calls, Asks(d), p = ProcOf[d]
      PROVE  WillSee(p, i, newest[c])'
  <2>1. wire'[p] = Append(wire[p], Gets(d)) /\ Gets(d) \in Commands /\ Gets(d).call = d
    BY <1>1, <1>7 DEF Asks, Gets, Command, Commands, Ops
  <2>2. alive[p] /\ store' = store /\ now' = now
        /\ newest'[c] = IF c = d THEN NewestServed(p) ELSE newest[c]
    BY <1>1, <1>7 DEF Asks
  <2>3. CASE c # d
    BY <1>3, <1>6, <2>1, <2>2, <2>3
  <2>4. CASE c = d
    <3>1. i = Len(wire[p]) + 1 /\ \A j \in DOMAIN wire[p] : wire'[p][j] = wire[p][j]
      <4>1. i \notin DOMAIN wire[p] \/ wire[p][i] # Gets(c)
        BY <1>4, <1>7, <2>4 DEF Asks
      <4> QED BY <1>1, <2>1, <4>1, AppendIndex
    <3>2. PICK stamp : stamp = newest'[c]
      OBVIOUS
    <3>3. WillSee(p, i, stamp)
      BY <1>7, <2>2, <2>4, <3>1, <3>2, AskingWillSee
    <3>4. \A j \in 1..(i - 1) : wire'[p][j] = wire[p][j]
      BY <1>1, <3>1, LenProperties
    <3>5. WillSee(p, i, stamp)'
      BY <2>2, <3>3, <3>4 DEF WillSee, IsSet, Covers, Clock
    <3> QED BY <3>2, <3>5 DEF WillSee, Covers
  <2> QED BY <2>3, <2>4
<1>8. ASSUME NEW f \in Calls, Stores(f), p = ProcOf[f]
      PROVE  WillSee(p, i, newest[c])'
  <2>1. SetCommand(f, Stamped(f)) \in Commands /\ SetCommand(f, Stamped(f)) # Gets(c)
    BY StampIsNewest DEF SetCommand, Commands, Ops, Gets, Command
  <2> QED BY <1>1, <1>6, <1>8, <2>1 DEF Stores
<1>9. ASSUME IsExecuted(p)
      PROVE  WillSee(p, i, newest[c])'
  <2>1. /\ wire'[p] = Tail(wire[p]) /\ wire[p] # <<>> /\ alive[p] /\ now' = now
        /\ newest' = newest /\ fetched' = fetched
    BY <1>1, <1>9 DEF IsExecuted
  <2>2. /\ 1 \in DOMAIN wire[p] /\ Head(wire[p]) = wire[p][1]
        /\ \A k \in DOMAIN wire'[p] :
             k \in Nat \ {0} /\ k + 1 \in DOMAIN wire[p] /\ wire'[p][k] = wire[p][k + 1]
        /\ \A k \in DOMAIN wire[p] :
             k \in Nat \ {0} /\ (k # 1 => k - 1 \in DOMAIN wire'[p] /\ wire'[p][k - 1] = wire[p][k])
    BY <1>1, <2>1, TailIndex
  <2>3. /\ i + 1 \in DOMAIN wire[p] /\ wire[p][i + 1] = Gets(c) /\ i \in Nat \ {0}
        /\ WillSee(p, i + 1, newest[c])
    BY <1>2, <2>1, <2>2
  <2>4. PICK stamp \in Nat : stamp = newest[c]
    BY <1>1, <2>1
  <2>5. ProcOf[c] = p
    BY <1>4, <2>3
  <2>6. \A j \in 1..(i - 1) : j \in DOMAIN wire'[p] /\ j + 1 \in DOMAIN wire[p] /\ j \in Nat
                             /\ wire'[p][j] = wire[p][j + 1] /\ j + 1 \in 1..((i + 1) - 1) /\ j + 1 # 1
    <3>1. \A j \in 1..(i - 1) : j \in DOMAIN wire'[p]
      <4>1. wire'[p] \in Seq(Commands)
        BY <1>1, <2>1, HeadTailProperties
      <4>2. DOMAIN wire'[p] = 1..Len(wire'[p]) /\ Len(wire'[p]) \in Nat
        BY <4>1, LenProperties
      <4> QED BY <2>3, <4>2
    <3>2. \A j \in 1..(i - 1) : j \in Nat /\ j + 1 \in 1..((i + 1) - 1) /\ j + 1 # 1
      BY <2>3
    <3> QED BY <2>2, <3>1, <3>2
  <2>7. SUFFICES WillSee(p, i, stamp)'
    BY <2>1, <2>4 DEF WillSee, Covers
  <2>8. WillSee(p, i + 1, stamp)
    BY <2>3, <2>4
  <2>9. ASSUME NEW d \in Calls, Head(wire[p]) = Gets(d), store' = Found
        PROVE  WillSee(p, i, stamp)'
    <3>1. ~IsSet(wire[p][1])
      BY <2>2, <2>9 DEF Gets, Command, IsSet
    <3>2. CASE \E j \in 1..((i + 1) - 1) : IsSet(wire[p][j]) /\ stamp <= wire[p][j].snapshot.fetchedAt
      <4>1. PICK j \in 1..((i + 1) - 1) : IsSet(wire[p][j]) /\ stamp <= wire[p][j].snapshot.fetchedAt
        BY <3>2
      <4>2. j - 1 \in 1..(i - 1) /\ (j - 1) + 1 = j
        BY <2>3, <3>1, <4>1
      <4>3. wire'[p][j - 1] = wire[p][j]
        BY <2>6, <4>2
      <4> QED BY <4>1, <4>2, <4>3 DEF WillSee, IsSet
    <3>3. CASE Covers(p, stamp) /\ \A j \in 1..((i + 1) - 1) : ~IsSet(wire[p][j])
      <4>1. Covers(p, stamp)'
        BY <1>2, <2>1, <2>5, <2>9, <3>3, CoversKept
      <4>2. \A j \in 1..(i - 1) : ~IsSet(wire[p][j + 1])
        BY <2>6, <3>3
      <4> QED BY <2>6, <4>1, <4>2 DEF WillSee, IsSet
    <3> QED BY <2>8, <3>2, <3>3 DEF WillSee
  <2>10. ASSUME NEW g \in Resolved, Head(wire[p]) = Sets(g),
                store' = [kind |-> "snapshot", snapshot |-> fetched[g], expiresAt |-> now + TTL]
         PROVE  WillSee(p, i, stamp)'
    <3>1. IsSet(wire[p][1]) /\ wire[p][1].snapshot = fetched[g] /\ 1 \in 1..((i + 1) - 1)
      BY <2>2, <2>3, <2>10 DEF Sets, SetCommand, IsSet
    <3>2. CASE stamp <= fetched[g].fetchedAt
      <4>1. Covers(p, stamp)'
        BY <2>10, <3>2 DEF Covers
      <4>2. ASSUME NEW j \in 1..(i - 1), IsSet(wire[p][j + 1])
            PROVE  stamp <= wire[p][j + 1].snapshot.fetchedAt
        <5>1. j + 1 \in DOMAIN wire[p] /\ 1 < j + 1
          BY <2>6
        <5>2. fetched[g].fetchedAt <= wire[p][j + 1].snapshot.fetchedAt
          BY <1>2, <2>2, <3>1, <4>2, <5>1 DEF SetsInOrder
        <5>3. PICK h \in Resolved : wire[p][j + 1].snapshot = fetched[h]
          BY <4>2, <5>1, WireSets
        <5> QED BY <3>2, <5>2, <5>3, ResolvedType
      <4>3. ASSUME NEW j \in 1..(i - 1), IsSet(wire'[p][j])
            PROVE  stamp <= wire'[p][j].snapshot.fetchedAt
        BY <2>6, <4>2, <4>3
      <4> QED BY <4>1, <4>3 DEF WillSee, IsSet
    <3>3. CASE ~(stamp <= fetched[g].fetchedAt)
      <4>1. PICK j \in 1..((i + 1) - 1) : IsSet(wire[p][j]) /\ stamp <= wire[p][j].snapshot.fetchedAt
        BY <2>8, <3>1 DEF WillSee
      <4>2. j - 1 \in 1..(i - 1) /\ (j - 1) + 1 = j
        BY <2>3, <3>1, <3>3, <4>1
      <4>3. wire'[p][j - 1] = wire[p][j]
        BY <2>6, <4>2
      <4> QED BY <4>1, <4>2, <4>3 DEF WillSee, IsSet
    <3> QED BY <3>2, <3>3
  <2> QED BY <1>2, <1>9, <2>9, <2>10, ExecutesOne
<1>10. ASSUME wire'[p] = wire[p], store' = store, now' \in {now, now + 1}, alive[p],
              newest'[c] = newest[c]
       PROVE  WillSee(p, i, newest[c])'
  BY <1>5, <1>10
<1>11. ASSUME NEW d \in Calls, Asks(d) \/ Stores(d), p # ProcOf[d]
       PROVE  FALSE
  <2>1. wire'[p] = wire[p]
    BY <1>1, <1>11 DEF Asks, Stores
  <2> QED BY <1>4, <1>11, <2>1 DEF Faultless
<1>12. ASSUME NEW q \in Procs, IsExecuted(q), q # p
       PROVE  FALSE
  <2>1. wire'[p] = wire[p]
    BY <1>1, <1>12 DEF IsExecuted
  <2> QED BY <1>2, <1>4, <1>12, <2>1, ExecutesOwn
<1>13. ASSUME NEW q \in Procs, NEW n \in 0..Len(wire[q]), IsCut(q, n)
       PROVE  WillSee(p, i, newest[c])'
  BY <1>1, <1>10, <1>13 DEF IsCut
<1>14. ASSUME Passes
       PROVE  WillSee(p, i, newest[c])'
  BY <1>10, <1>14 DEF Passes
<1> QED BY <1>2, <1>7, <1>8, <1>9, <1>11, <1>12, <1>13, <1>14, WireSteps

-----------------------------------------------------------------------------
(* What settles                                                            *)

\* A chunk of one reply resumes its caller, or nobody when that has given up.
LEMMA ChunkOfOne ==
  ASSUME Faultless, StackInv, NEW p \in Procs, ChunkArrives(p)
  PROVE  /\ turn[p] = <<>> /\ answers[p] # <<>>
         /\ answers' = [answers EXCEPT ![p] = Tail(@)] /\ wire' = wire
         /\ \/ Awaited(Head(answers[p]).cmd) /\ turn' = [turn EXCEPT ![p] = <<Head(answers[p])>>]
            \/ ~Awaited(Head(answers[p]).cmd) /\ turn' = turn
<1>1. /\ answers \in [Procs -> Seq(Settlements)] /\ answers[p] \in Seq(Settlements)
      /\ turn \in [Procs -> Seq(Settlements)]
  BY DEF StackInv, StackTypeOK, RepoTypeOK
<1>2. PICK n \in 1..MaxChunk :
        /\ n <= Len(answers[p])
        /\ \E settled \in AwaitedOf(p, n) : turn' = [turn EXCEPT ![p] = settled]
        /\ answers' = [answers EXCEPT ![p] = SubSeq(@, n + 1, Len(@))]
  BY DEF ChunkArrives
<1>3. n = 1
  BY DEF Faultless
<1>4. Len(answers[p]) \in Nat /\ answers[p] # <<>> /\ Head(answers[p]) = answers[p][1]
  <2>1. Len(answers[p]) \in Nat /\ Len(<<>>) = 0
    BY <1>1, LenProperties, EmptySeq
  <2>2. answers[p] # <<>>
    BY <1>2, <1>3, <2>1
  <2> QED BY <1>1, <2>1, <2>2, TailIndex
<1>5. answers' = [answers EXCEPT ![p] = Tail(@)]
  <2>1. Tail(answers[p]) = SubSeq(answers[p], 2, Len(answers[p]))
    BY <1>1, <1>4, TailIsSubSeq
  <2>2. n + 1 = 2
    BY <1>3
  <2>3. answers' = [answers EXCEPT ![p] = SubSeq(@, 2, Len(@))]
    BY <1>2, <2>2
  <2> QED BY <1>1, <2>1, <2>3
<1>6. turn[p] = <<>> /\ wire' = wire
  BY DEF ChunkArrives, AtRest
<1> DEFINE e == answers[p][1]
           kept == {i \in 1..1 : Awaited(answers[p][i].cmd)}
<1>7. PICK settled : settled \in AwaitedOf(p, 1) /\ turn' = [turn EXCEPT ![p] = settled]
  BY <1>2, <1>3
<1>8. CASE Awaited(e.cmd)
  <2>1. kept = {1} /\ Cardinality(kept) = 1
    <3>1. kept = {1}
      BY <1>8
    <3> QED BY <3>1, FS_Singleton
  <2>2. PICK pick \in [1..1 -> {1}] : settled = [k \in 1..1 |-> answers[p][pick[k]]]
    <3>1. \E pick \in [1..Cardinality(kept) -> kept] :
            settled = [k \in 1..Cardinality(kept) |-> answers[p][pick[k]]]
      BY <1>7 DEF AwaitedOf
    <3> HIDE DEF kept
    <3> QED BY <2>1, <3>1
  <2>3. settled = <<e>>
    BY <2>2
  <2> QED BY <1>4, <1>5, <1>6, <1>7, <1>8, <2>3
<1>9. CASE ~Awaited(e.cmd)
  <2>1. kept = {} /\ Cardinality(kept) = 0
    <3>1. kept = {}
      BY <1>9
    <3> QED BY <3>1, FS_EmptySet
  <2>2. \E pick : settled = [k \in 1..0 |-> answers[p][pick[k]]]
    <3>1. \E pick \in [1..Cardinality(kept) -> kept] :
            settled = [k \in 1..Cardinality(kept) |-> answers[p][pick[k]]]
      BY <1>7 DEF AwaitedOf
    <3> HIDE DEF kept
    <3> QED BY <2>1, <3>1
  <2>3. settled = <<>>
    BY <2>2
  <2>4. turn' = turn
    BY <1>1, <1>6, <1>7, <2>3
  <2> QED BY <1>4, <1>5, <1>6, <1>9, <2>4
<1> QED BY <1>8, <1>9

\* The race of a command ends with its settlement, the only one of its turn, or when its
\* timer fires.
LEMMA RaceOfOne ==
  ASSUME StackInv, NoFaults, NEW op \in Ops, NEW c \in Calls, NEW reply, RaceEnds(op, c, reply)
  PROVE  \/ \E e \in Settlements :
              /\ turn[ProcOf[c]] = <<e>> /\ turn' = [turn EXCEPT ![ProcOf[c]] = <<>>]
              /\ e.cmd.op = op /\ e.cmd.call = c /\ e.reply = reply
         \/ turn' = turn /\ deadline[op][c] = now /\ reply = Rejection
<1> DEFINE p == ProcOf[c]
<1>1. turn[p] \in Seq(Settlements) /\ Len(turn[p]) <= 1
  BY DEF StackInv, StackTypeOK, RepoTypeOK, NoFaults
<1>2. ASSUME NEW i \in DOMAIN turn[p], turn[p][i].cmd.op = op, turn[p][i].cmd.call = c,
             turn[p][i].reply = reply, turn' = [turn EXCEPT ![p] = RemoveAt(@, i)]
      PROVE  \E e \in Settlements :
              /\ turn[ProcOf[c]] = <<e>> /\ turn' = [turn EXCEPT ![ProcOf[c]] = <<>>]
              /\ e.cmd.op = op /\ e.cmd.call = c /\ e.reply = reply
  <2>1. DOMAIN turn[p] = 1..Len(turn[p]) /\ Len(turn[p]) \in Nat
    BY <1>1, LenProperties
  <2>2. Len(turn[p]) = 1 /\ i = 1
    <3>1. i \in 1..Len(turn[p]) /\ Len(turn[p]) \in Nat /\ Len(turn[p]) <= 1
      BY <1>1, <2>1
    <3>2. \A n \in Nat : \A k \in 1..n : n <= 1 => n = 1 /\ k = 1
      OBVIOUS
    <3> QED BY ONLY <3>1, <3>2
  <2>3. PICK e \in Settlements : e = turn[p][1]
    BY <1>1, <2>2, ElementOfSeq
  <2>4. turn[p] = <<e>>
    BY <1>1, <2>1, <2>2, <2>3
  <2>5. RemoveAt(turn[p], i) = <<>>
    <3>1. RemoveAt(turn[p], i) \in Seq(Settlements) /\ Len(RemoveAt(turn[p], i)) = 0
      BY <1>1, <2>2, RemoveAtProperties
    <3> QED BY <3>1, EmptySeq
  <2>6. turn' = [turn EXCEPT ![p] = <<>>]
    BY <1>2, <2>5
  <2> QED BY <1>2, <2>2, <2>3, <2>4, <2>6
<1> QED BY <1>2, RaceEffect

\* What is settled was, or Redis executes it now.
LEMMA SettlementSteps ==
  ASSUME Faultless, StackInv, NoFaults, [Next]_vars, NEW p \in Procs
  PROVE  /\ \A e \in ToSet(turn'[p]) \cup ToSet(answers'[p]) :
              \/ e \in ToSet(turn[p]) \cup ToSet(answers[p])
              \/ /\ IsExecuted(p) /\ alive[p]
                 /\ e.cmd = Head(wire[p]) /\ e.reply = ReplyTo(Head(wire[p]))
         /\ Len(turn'[p]) <= 1
         /\ link' = link
<1> DEFINE Old == ToSet(turn[p]) \cup ToSet(answers[p])
           New == ToSet(turn'[p]) \cup ToSet(answers'[p])
<1>1. /\ turn \in [Procs -> Seq(Settlements)] /\ answers \in [Procs -> Seq(Settlements)]
      /\ turn[p] \in Seq(Settlements) /\ answers[p] \in Seq(Settlements)
      /\ Len(turn[p]) <= 1
  BY DEF StackInv, StackTypeOK, RepoTypeOK, NoFaults
<1>2. /\ ToSet(<<>>) = {} /\ Len(<<>>) = 0 /\ \A e : ToSet(<<e>>) = {e} /\ Len(<<e>>) = 1
  BY DEF ToSet
<1>3. ASSUME UNCHANGED <<turn, answers, link>>
      PROVE  New \subseteq Old /\ Len(turn'[p]) <= 1 /\ link' = link
  BY <1>1, <1>3
<1>4. ASSUME NEW c \in Calls, Request(c)
      PROVE  UNCHANGED <<turn, answers, link>>
  <2>1. Gets(c).call = c /\ Send(Gets(c))
    BY <1>4 DEF Request, SendGet, Gets, Command
  <2> QED BY <2>1, Sends
<1>5. ASSUME NEW f \in Calls, UpstreamAnswers(f)
      PROVE  UNCHANGED <<turn, answers, link>>
  <2>1. SetCommand(f, Stamped(f)).call = f /\ Send(SetCommand(f, Stamped(f)))
    BY <1>5 DEF UpstreamAnswers, SendSet, SetCommand
  <2> QED BY <2>1, Sends
<1>6. ASSUME NEW c \in Calls, ReadDone(c) \/ WriteDone(c)
      PROVE  New \subseteq Old /\ Len(turn'[p]) <= 1 /\ link' = link
  <2>1. /\ UNCHANGED <<answers, link>>
        /\ \E op \in Ops : \E reply : RaceEnds(op, c, reply)
    BY <1>6 DEF ReadDone, ReadReturns, GetReturns, DiscardReturns, WriteDone, WriteReturns, Ops
  <2>2. turn' = turn \/ turn' = [turn EXCEPT ![ProcOf[c]] = <<>>]
    BY <2>1, RaceOfOne
  <2>3. answers'[p] = answers[p] /\ link' = link /\ (turn'[p] = turn[p] \/ turn'[p] = <<>>)
    BY <1>1, <2>1, <2>2
  <2> QED BY <1>1, <1>2, <2>3
<1>7. ASSUME NEW q \in Procs, ChunkArrives(q)
      PROVE  New \subseteq Old /\ Len(turn'[p]) <= 1 /\ link' = link
  <2>1. /\ answers[q] # <<>> /\ answers' = [answers EXCEPT ![q] = Tail(@)]
        /\ turn' = [turn EXCEPT ![q] = <<Head(answers[q])>>] \/ turn' = turn
    BY <1>7, ChunkOfOne
  <2>2. link' = link
    BY <1>7 DEF ChunkArrives
  <2>3. CASE q # p
    BY <1>1, <2>1, <2>2, <2>3
  <2>4. CASE q = p
    <3>1. /\ \A i \in DOMAIN Tail(answers[p]) :
                i + 1 \in DOMAIN answers[p] /\ Tail(answers[p])[i] = answers[p][i + 1]
          /\ 1 \in DOMAIN answers[p] /\ Head(answers[p]) = answers[p][1]
      BY <1>1, <2>1, <2>4, TailIndex
    <3>2. ToSet(Tail(answers[p])) \subseteq ToSet(answers[p]) /\ Head(answers[p]) \in ToSet(answers[p])
      BY <3>1 DEF ToSet
    <3>3. answers'[p] = Tail(answers[p]) /\ (turn'[p] = <<Head(answers[p])>> \/ turn'[p] = turn[p])
      BY <1>1, <2>1, <2>4
    <3>4. CASE turn'[p] = <<Head(answers[p])>>
      <4>1. ToSet(turn'[p]) = {Head(answers[p])} /\ Len(turn'[p]) = 1
        BY <1>2, <3>4
      <4> QED BY <2>2, <3>2, <3>3, <4>1
    <3>5. CASE turn'[p] = turn[p]
      BY <1>1, <2>2, <3>2, <3>3, <3>5
    <3> QED BY <3>3, <3>4, <3>5
  <2> QED BY <2>3, <2>4
<1>8. ASSUME NEW q \in Procs, RedisExecutes(q), UNCHANGED <<worldVars, serviceVars, stackVars>>
      PROVE  /\ \A e \in New :
                  \/ e \in Old
                  \/ /\ IsExecuted(p) /\ alive[p]
                     /\ e.cmd = Head(wire[p]) /\ e.reply = ReplyTo(Head(wire[p]))
             /\ Len(turn'[p]) <= 1 /\ link' = link
  <2>1. turn' = turn /\ link' = link
    BY <1>8 DEF RedisExecutes
  <2> DEFINE x == [cmd |-> Head(wire[q]), reply |-> ReplyTo(Head(wire[q]))]
  <2>2. answers' = answers \/ (alive[q] /\ answers' = [answers EXCEPT ![q] = Append(@, x)])
    BY <1>8 DEF RedisExecutes, Faultless
  <2>3. CASE answers'[p] = answers[p]
    BY <1>1, <2>1, <2>3
  <2>4. CASE p = q /\ alive[p] /\ answers'[p] = Append(answers[p], x)
    <3>1. x \in Settlements
      <4>1. wire[q] # <<>>
        BY <1>8 DEF RedisExecutes
      <4> QED BY <4>1, HeadSent, ReplyType DEF Settlements, StackInv, StackTypeOK
    <3>2. IsExecuted(p)
      BY <1>8, <2>4 DEF RedisExecutes, IsExecuted, Faultless, worldVars, serviceVars, stackVars
    <3>3. x.cmd = Head(wire[p]) /\ x.reply = ReplyTo(Head(wire[p]))
      BY <2>4
    <3> HIDE DEF x
    <3>4. \A e \in New : e \in Old \/ e = x
      BY <1>1, <2>1, <2>4, <3>1, AppendSet
    <3> QED BY <1>1, <2>1, <2>4, <3>2, <3>3, <3>4
  <2> QED BY <1>1, <2>2, <2>3, <2>4
<1>9. ASSUME NEW q \in Procs, Dies(q)
      PROVE  New \subseteq Old /\ Len(turn'[p]) <= 1 /\ link' = link
  <2>1. /\ answers' = [answers EXCEPT ![q] = <<>>] /\ turn' = [turn EXCEPT ![q] = <<>>]
        /\ link' = link
    BY <1>9 DEF Dies, RepoDies
  <2> QED BY <1>1, <1>2, <2>1
<1>10. ASSUME (\E f \in Calls : UpstreamFails(f)) \/ Tick \/ UNCHANGED vars
       PROVE  UNCHANGED <<turn, answers, link>>
  BY <1>10 DEF UpstreamFails, Tick, vars, repoVars
<1> QED BY <1>3, <1>4, <1>5, <1>6, <1>7, <1>8, <1>9, <1>10, FaultlessSteps

\* Nothing goes wrong where nothing goes wrong.
LEMMA FaultlessStays ==
  ASSUME Faultless, StackInv, OrderInv, [Next]_vars
  PROVE  NoFaults'
<1>1. NoFaults
  BY DEF OrderInv
<1>2. \A p \in Procs : link'[p] = "up" /\ Len(turn'[p]) <= 1
  BY <1>1, SettlementSteps DEF NoFaults
<1>3. ASSUME NEW p \in Procs, NEW i \in DOMAIN wire'[p]
      PROVE  wire'[p][i].op # "del"
  <2>1. wire \in [Procs -> Seq(Commands)] /\ wire[p] \in Seq(Commands)
    BY DEF StackInv, StackTypeOK, RepoTypeOK
  <2>2. \A j \in DOMAIN wire[p] : wire[p][j].op # "del"
    BY <1>1 DEF NoFaults
  <2>3. ASSUME NEW x \in Commands, x.op # "del", wire'[p] = Append(wire[p], x)
        PROVE  wire'[p][i].op # "del"
    BY <1>3, <2>1, <2>2, <2>3, AppendIndex
  <2>4. ASSUME NEW c \in Calls, Asks(c)
        PROVE  wire'[p][i].op # "del"
    <3>1. Gets(c) \in Commands /\ Gets(c).op # "del"
      BY DEF Gets, Command, Commands, Ops
    <3>2. wire'[p] = wire[p] \/ wire'[p] = Append(wire[p], Gets(c))
      BY <2>1, <2>4 DEF Asks
    <3> QED BY <1>3, <2>2, <2>3, <3>1, <3>2
  <2>5. ASSUME NEW f \in Calls, Stores(f)
        PROVE  wire'[p][i].op # "del"
    <3>1. SetCommand(f, Stamped(f)) \in Commands /\ SetCommand(f, Stamped(f)).op # "del"
      BY StampIsNewest DEF SetCommand, Commands, Ops
    <3>2. wire'[p] = wire[p] \/ wire'[p] = Append(wire[p], SetCommand(f, Stamped(f)))
      BY <2>1, <2>5 DEF Stores
    <3> QED BY <1>3, <2>2, <2>3, <3>1, <3>2
  <2>6. ASSUME NEW q \in Procs, IsExecuted(q)
        PROVE  wire'[p][i].op # "del"
    <3>1. wire'[p] = wire[p] \/ (wire[p] # <<>> /\ wire'[p] = Tail(wire[p]))
      BY <2>1, <2>6 DEF IsExecuted
    <3>2. CASE wire[p] # <<>> /\ wire'[p] = Tail(wire[p])
      <4>1. i + 1 \in DOMAIN wire[p] /\ wire'[p][i] = wire[p][i + 1]
        BY <1>3, <2>1, <3>2, TailIndex
      <4> QED BY <2>2, <4>1
    <3> QED BY <1>3, <2>2, <3>1, <3>2
  <2>7. ASSUME NEW q \in Procs, NEW n \in 0..Len(wire[q]), IsCut(q, n)
        PROVE  wire'[p][i].op # "del"
    <3>1. wire'[p] = wire[p] \/ (q = p /\ wire'[p] = SubSeq(wire[p], 1, n))
      BY <2>1, <2>7 DEF IsCut
    <3>2. CASE q = p /\ wire'[p] = SubSeq(wire[p], 1, n)
      <4>1. i \in DOMAIN wire[p] /\ wire'[p][i] = wire[p][i]
        BY <1>3, <2>1, <2>7, <3>2, PrefixIndex
      <4> QED BY <2>2, <4>1
    <3> QED BY <1>3, <2>2, <3>1, <3>2
  <2> QED BY <1>1, <1>3, <2>2, <2>4, <2>5, <2>6, <2>7, WireSteps DEF Passes
<1>4. Found.kind \in {"absent", "snapshot"}
  BY <1>1 DEF NoFaults, Found, Nothing, Holding
<1>5. ASSUME NEW p \in Procs, NEW e \in ToSet(turn'[p]) \cup ToSet(answers'[p])
      PROVE  ~IsCorrupt(e.reply)
  <2>1. CASE e \in ToSet(turn[p]) \cup ToSet(answers[p])
    BY <1>1, <2>1 DEF NoFaults
  <2>2. CASE e.reply = ReplyTo(Head(wire[p]))
    BY <1>4, <2>2 DEF ReplyTo, Reply, IsCorrupt
  <2> QED BY <1>1, <1>5, <2>1, <2>2, SettlementSteps
<1>6. ASSUME NEW c \in Calls
      PROVE  deadline'["del"][c] = None
  <2> USE DEF Ops
  <2>1. deadline["del"][c] = None /\ RepoTypeOK
    BY <1>1 DEF NoFaults, StackInv, StackTypeOK
  <2>2. ASSUME NEW op \in {"get", "set"}, NEW d \in Calls, NEW timer,
               deadline' = [deadline EXCEPT ![op][d] = timer]
        PROVE  deadline'["del"][c] = None
    BY <2>1, <2>2, OneTimer
  <2>3. ASSUME NEW d \in Calls, ReadDone(d)
        PROVE  deadline'["del"][c] = None
    <3>1. PICK op \in {"get", "del"} : deadline[op][d] # None /\ deadline' = [deadline EXCEPT ![op][d] = None]
      BY <2>3, ReadDoneEffect
    <3>2. op = "get"
      BY <1>1, <3>1 DEF NoFaults
    <3> QED BY <2>2, <3>1, <3>2
  <2>4. ASSUME NEW d \in Calls, Request(d)
        PROVE  deadline'["del"][c] = None
    <3>1. deadline' = [deadline EXCEPT !["get"][d] = now + CmdTimeout]
      BY <2>4 DEF Request, SendGet, Send, SendWithin, Command
    <3> QED BY <2>2, <3>1
  <2>5. ASSUME NEW f \in Calls, UpstreamAnswers(f)
        PROVE  deadline'["del"][c] = None
    BY SMTT(60), <2>2, <2>5, AnswersEffect
  <2>6. ASSUME NEW f \in Calls, UpstreamFails(f) \/ WriteDone(f)
        PROVE  deadline'["del"][c] = None
    <3>1. deadline' = deadline \/ deadline' = [deadline EXCEPT !["set"][f] = None]
      BY <2>6, SettlesEffect
    <3> QED BY <2>1, <2>2, <3>1
  <2>7. ASSUME NEW p \in Procs, Dies(p)
        PROVE  deadline'["del"][c] = None
    BY <2>1, <2>7 DEF Dies, RepoDies
  <2>8. ASSUME NEW p \in Procs, RedisExecutes(p) \/ ChunkArrives(p)
        PROVE  deadline'["del"][c] = None
    BY <2>1, <2>8 DEF RedisExecutes, ChunkArrives
  <2> QED BY <1>1, <2>1, <2>3, <2>4, <2>5, <2>6, <2>7, <2>8, FaultlessSteps DEF Tick, vars, repoVars
<1>7. store'.kind \in {"absent", "snapshot"}
  <2>1. ASSUME NEW p \in Procs, IsExecuted(p)
        PROVE  store'.kind \in {"absent", "snapshot"}
    BY <1>1, <1>4, <2>1, ExecutesOne
  <2>2. store' = store \/ \E p \in Procs : IsExecuted(p)
    BY <1>1, WireSteps DEF Asks, Stores, IsCut, Passes
  <2> QED BY <1>1, <2>1, <2>2 DEF NoFaults
<1>8. /\ \A p \in Procs : \A i \in DOMAIN wire'[p] : wire'[p][i].op # "del"
      /\ \A p \in Procs : \A e \in ToSet(turn'[p]) \cup ToSet(answers'[p]) : ~IsCorrupt(e.reply)
      /\ \A c \in Calls : deadline'["del"][c] = None
  BY <1>3, <1>5, <1>6
<1> QED BY <1>2, <1>7, <1>8 DEF NoFaults, IsCorrupt

\* What is settled was sent.
LEMMA SettledSent ==
  ASSUME StackInv, NEW p \in Procs, NEW e \in ToSet(turn[p]) \cup ToSet(answers[p])
  PROVE  Sent(e.cmd) /\ ProcOf[e.cmd.call] = p /\ (e \in ToSet(turn[p]) => Awaited(e.cmd))
<1>1. e \in ToSet(turn[p]) => e.cmd \in CommandsOf(turn[p], <<>>)
  BY DEF CommandsOf
<1>2. e \in ToSet(answers[p]) => e.cmd \in CommandsOf(answers[p], wire[p])
  BY DEF CommandsOf
<1> QED BY <1>1, <1>2 DEF StackInv, LinesOK, LineOK, TurnsOK, TurnOK

\* A GET that was executed has seen what it would.
LEMMA GetsHaveSeen ==
  ASSUME Faultless, StackInv, OrderInv, [Next]_vars
  PROVE  GetsSaw'
<1> SUFFICES ASSUME NEW p \in Procs, NEW e \in ToSet(turn'[p]) \cup ToSet(answers'[p]),
                    NEW c \in Calls, e.cmd = Gets(c), newest'[c] # None
             PROVE  \/ e.reply.kind = "snapshot" /\ newest'[c] <= e.reply.snapshot.fetchedAt
                    \/ e.reply.kind = "absent" /\ newest'[c] + TTL < Clock(p)'
  BY DEF GetsSaw, Saw, Gets
<1>1. NoFaults /\ StoreInOrder
  BY DEF OrderInv
<1>2. newest \in [Calls -> Nat \cup {None}] /\ now \in Nat /\ Skew[p] \in Nat
  BY DEF StackInv, StackTypeOK, ServiceTypeOK, WorldTypeOK
<1>3. CASE e \in ToSet(turn[p]) \cup ToSet(answers[p])
  <2>1. pc[c] # "idle" /\ Saw(p, e)
    <3>1. Saw(p, e)
      BY <1>3 DEF OrderInv, GetsSaw
    <3>2. Sent(e.cmd)
      BY <1>3, SettledSent
    <3>3. e.cmd.call = c
      BY DEF Gets, Command
    <3> QED BY <3>1, <3>2, <3>3 DEF Sent
  <2>2. newest'[c] = newest[c] /\ now' \in {now, now + 1}
    BY <1>1, <1>2, <2>1, WireSteps DEF Asks, Stores, IsExecuted, IsCut, Passes
  <2>3. PICK stamp \in Nat : stamp = newest[c]
    BY <1>2, <2>2
  <2>4. stamp + TTL < now + Skew[p] => stamp + TTL < now' + Skew[p]
    BY <1>2, <2>2
  <2> QED BY <2>1, <2>2, <2>3, <2>4 DEF Saw, Clock
<1>4. ASSUME IsExecuted(p), alive[p], e.cmd = Head(wire[p]), e.reply = ReplyTo(Head(wire[p]))
      PROVE  \/ e.reply.kind = "snapshot" /\ newest'[c] <= e.reply.snapshot.fetchedAt
             \/ e.reply.kind = "absent" /\ newest'[c] + TTL < Clock(p)'
  <2>1. wire[p] \in Seq(Commands) /\ wire[p] # <<>> /\ newest' = newest /\ now' = now
    BY <1>4 DEF StackInv, StackTypeOK, RepoTypeOK, IsExecuted
  <2>2. 1 \in DOMAIN wire[p] /\ wire[p][1] = Gets(c)
    BY <1>4, <2>1, TailIndex
  <2>3. WillSee(p, 1, newest[c])
    BY <1>4, <2>1, <2>2 DEF OrderInv, GetsWillSee
  <2>4. Covers(p, newest[c])
    BY <2>3 DEF WillSee
  <2>5. PICK stamp \in Nat : stamp = newest[c]
    BY <1>2, <2>1
  <2>6. p = ProcOf[c]
    BY <1>1, <1>4, ExecutesOwn
  <2>7. \/ Found.kind = "snapshot" /\ stamp <= Found.snapshot.fetchedAt
        \/ Found.kind # "snapshot" /\ stamp + TTL < Clock(p)
    BY <1>1, <2>4, <2>5, <2>6, FoundCovers
  <2>8. Found.kind \in {"absent", "snapshot"}
    BY <1>1 DEF NoFaults, Found, Nothing, Holding
  <2>9. e.reply = Reply(Found.kind, Found.snapshot)
    BY <1>4 DEF ReplyTo, Gets, Command
  <2> QED BY <2>1, <2>5, <2>7, <2>8, <2>9 DEF Reply, Clock
<1> QED BY <1>1, <1>3, <1>4, SettlementSteps

\* A dead process stays silent.
LEMMA DeadStaySilent ==
  ASSUME Faultless, StackInv, OrderInv, [Next]_vars
  PROVE  DeadAreSilent'
<1> SUFFICES ASSUME NEW c \in Calls, ~alive'[ProcOf[c]]
             PROVE  pc'[c] \notin Pending /\ fetch'[c] \notin Active
  BY DEF DeadAreSilent
<1>1. /\ ~alive[ProcOf[c]] => pc[c] \notin Pending /\ fetch[c] \notin Active
      /\ NoFaults
  BY DEF OrderInv, DeadAreSilent
<1>2. /\ alive \in [Procs -> BOOLEAN] /\ pc \in [Calls -> {"idle"} \cup Pending \cup Settled]
      /\ fetch \in [Calls -> {"none", "stored", "unstored", "failed", "lost"} \cup Active]
  BY DEF StackInv, ServiceInv, ServiceTypeOK, WorldTypeOK
<1>3. ASSUME NEW d \in Calls, Request(d)
      PROVE  pc'[c] \notin Pending /\ fetch'[c] \notin Active
  BY <1>1, <1>2, <1>3 DEF Request, GetRates, worldVars
<1>4. ASSUME NEW d \in Calls, ReadDone(d)
      PROVE  pc'[c] \notin Pending /\ fetch'[c] \notin Active
  <2>1. /\ pc[d] = "reading" /\ pc' = [pc EXCEPT ![d] = pc'[d]] /\ alive' = alive
        /\ fetch' = fetch \/ fetch' = [fetch EXCEPT ![d] = "upstream"]
    BY <1>4, ReadDoneEffect, ReadDoneFetch DEF worldVars
  <2> QED BY <1>1, <1>2, <2>1 DEF Pending
<1>5. ASSUME NEW f \in Calls, UpstreamAnswers(f)
      PROVE  pc'[c] \notin Pending /\ fetch'[c] \notin Active
  <2>1. /\ fetch[f] = "upstream" /\ fetch' = [fetch EXCEPT ![f] = "writing"]
        /\ alive' = alive /\ pc' = pc
    BY <1>5, AnswersEffect DEF worldVars
  <2> QED BY <1>1, <1>2, <2>1 DEF Active
<1>6. ASSUME NEW f \in Calls, UpstreamFails(f) \/ WriteDone(f)
      PROVE  pc'[c] \notin Pending /\ fetch'[c] \notin Active
  <2>1. /\ \E outcome \in {"failed", "stored", "unstored"} : fetch' = [fetch EXCEPT ![f] = outcome]
        /\ pc'[c] = pc[c] \/ pc'[c] \in {"live", "failed"}
        /\ alive' = alive
    BY <1>6, SettlesEffect DEF worldVars
  <2> QED BY <1>1, <1>2, <2>1 DEF Active, Pending
<1>7. ASSUME NEW p \in Procs, Dies(p)
      PROVE  pc'[c] \notin Pending /\ fetch'[c] \notin Active
  <2>1. /\ alive' = [alive EXCEPT ![p] = FALSE]
        /\ pc'[c] = IF ProcOf[c] = p /\ pc[c] \in Pending THEN "lost" ELSE pc[c]
        /\ fetch'[c] = IF ProcOf[c] = p /\ fetch[c] \in Active THEN "lost" ELSE fetch[c]
    BY <1>7 DEF Dies, Killed, ServiceDies
  <2> QED BY <1>1, <1>2, <2>1 DEF Pending, Active
<1>8. ASSUME UNCHANGED <<alive, pc, fetch>>
      PROVE  pc'[c] \notin Pending /\ fetch'[c] \notin Active
  BY <1>1, <1>8
<1> QED
  BY <1>1, <1>3, <1>4, <1>5, <1>6, <1>7, <1>8, FaultlessSteps
     DEF Tick, Advance, vars, worldVars, serviceVars

\* Fetches resolve one after the other.
LEMMA LastStaysNewest ==
  ASSUME Faultless, StackInv, OrderInv, [Next]_vars
  PROVE  LastIsNewest'
<1> SUFFICES ASSUME NEW f \in Resolved', NEW g \in Resolved', fetch'[f] = "writing"
             PROVE  fetched'[g].fetchedAt <= fetched'[f].fetchedAt
  BY DEF LastIsNewest
<1>1. /\ \A x, y \in Resolved : fetch[x] = "writing" => fetched[y].fetchedAt <= fetched[x].fetchedAt
      /\ NoFaults
      /\ fetch \in [Calls -> {"none", "stored", "unstored", "failed", "lost"} \cup Active]
      /\ f \in Calls /\ g \in Calls
  BY DEF OrderInv, LastIsNewest, StackInv, ServiceInv, ServiceTypeOK, Resolved
<1>2. ASSUME NEW h \in Calls, UpstreamAnswers(h)
      PROVE  fetched'[g].fetchedAt <= fetched'[f].fetchedAt
  <2>1. /\ fetch[h] = "upstream" /\ fetch' = [fetch EXCEPT ![h] = "writing"]
        /\ fetched' = [fetched EXCEPT ![h] = Stamped(h)]
        /\ fetched \in [Calls -> Snapshots \cup {None}] /\ fetched[h] = None
    BY <1>2, AnswersEffect DEF StackInv, ServiceInv, ServiceTypeOK, NothingEarly
  <2>2. f = h
    <3>1. f # h => fetch[f] = "writing"
      BY <1>1, <2>1
    <3>2. fetch[f] = "writing" => inFlight[ProcOf[f]] = f
      BY <1>1 DEF StackInv, ServiceInv, SingleFlightInv, Active
    <3>3. inFlight[ProcOf[h]] = h /\ ProcOf[f] = ProcOf[h]
      BY <1>1, <2>1 DEF StackInv, ServiceInv, SingleFlightInv, Active, Faultless
    <3> QED BY <3>1, <3>2, <3>3
  <2>3. fetched'[f] = Stamped(f) /\ Stamped(f).fetchedAt \in Nat
    BY <2>1, <2>2, StampIsNewest
  <2>4. g # h => g \in Resolved /\ fetched'[g] = fetched[g]
    BY <1>1, <2>1 DEF Resolved
  <2>5. CASE g = h
    BY <2>2, <2>3, <2>5
  <2>6. CASE g # h
    BY <1>1, <2>3, <2>4, <2>6, StampIsNewest
  <2> QED BY <2>5, <2>6
<1>3. ASSUME fetched' = fetched, fetch'[f] = "writing" => fetch[f] = "writing"
      PROVE  fetched'[g].fetchedAt <= fetched'[f].fetchedAt
  BY <1>1, <1>3 DEF Resolved
<1>4. ASSUME NEW d \in Calls, ReadDone(d)
      PROVE  fetched' = fetched /\ (fetch'[f] = "writing" => fetch[f] = "writing")
  <2>1. fetched' = fetched /\ (fetch' = fetch \/ fetch' = [fetch EXCEPT ![d] = "upstream"])
    BY <1>4, ReadDoneFetch
  <2> QED BY <1>1, <2>1
<1>5. ASSUME NEW h \in Calls, UpstreamFails(h) \/ WriteDone(h)
      PROVE  fetched' = fetched /\ (fetch'[f] = "writing" => fetch[f] = "writing")
  <2>1. /\ \E outcome \in {"failed", "stored", "unstored"} : fetch' = [fetch EXCEPT ![h] = outcome]
        /\ fetched' = fetched
    BY <1>5, SettlesEffect
  <2> QED BY <1>1, <2>1
<1>6. ASSUME NEW p \in Procs, Dies(p)
      PROVE  fetched' = fetched /\ (fetch'[f] = "writing" => fetch[f] = "writing")
  BY <1>1, <1>6 DEF Dies, ServiceDies
<1>7. ASSUME NEW d \in Calls, Request(d)
      PROVE  fetched' = fetched /\ fetch' = fetch
  BY <1>7 DEF Request, GetRates
<1> QED
  BY <1>1, <1>2, <1>3, <1>4, <1>5, <1>6, <1>7, FaultlessSteps
     DEF Tick, vars, serviceVars

-----------------------------------------------------------------------------
(* The line of a process: reads come before the writes of later fetches    *)

\* A process's line is made of commands sent by its calls.
LEMMA LineType ==
  ASSUME StackInv, NEW p \in Procs
  PROVE  /\ CommandsIn(turn[p]) \in Seq(Commands) /\ CommandsIn(answers[p]) \in Seq(Commands)
         /\ wire[p] \in Seq(Commands) /\ Line(p) \in Seq(Commands)
         /\ \A i \in DOMAIN Line(p) : Sent(Line(p)[i])
<1> DEFINE t == CommandsIn(turn[p])
           a == CommandsIn(answers[p])
           w == wire[p]
<1>1. /\ turn[p] \in Seq(Settlements) /\ answers[p] \in Seq(Settlements) /\ w \in Seq(Commands)
  BY DEF StackInv, StackTypeOK, RepoTypeOK
<1>2. t \in Seq(Commands) /\ a \in Seq(Commands)
  BY <1>1, CommandsInType
<1>3. \A i \in 1..Len(t) : Sent(t[i])
  <2>1. ASSUME NEW i \in 1..Len(t)
        PROVE  Sent(t[i])
    <3>1. Len(t) = Len(turn[p]) /\ DOMAIN turn[p] = 1..Len(turn[p]) /\ t[i] = turn[p][i].cmd
      BY <1>1, CommandsInType, LenProperties
    <3>2. turn[p][i] \in ToSet(turn[p])
      BY <3>1 DEF ToSet
    <3> QED BY <3>1, <3>2, SettledSent
  <2> QED BY <2>1
<1>4. \A i \in 1..Len(a) : Sent(a[i])
  <2>1. ASSUME NEW i \in 1..Len(a)
        PROVE  Sent(a[i])
    <3>1. Len(a) = Len(answers[p]) /\ DOMAIN answers[p] = 1..Len(answers[p]) /\ a[i] = answers[p][i].cmd
      BY <1>1, CommandsInType, LenProperties
    <3>2. answers[p][i] \in ToSet(answers[p])
      BY <3>1 DEF ToSet
    <3> QED BY <3>1, <3>2, SettledSent
  <2> QED BY <2>1
<1>5. \A i \in 1..Len(w) : Sent(w[i])
  <2>1. DOMAIN w = 1..Len(w)
    BY <1>1, LenProperties
  <2> QED BY <2>1, WireSent
<1> HIDE DEF t, a, w
<1>6. ASSUME NEW s1 \in Seq(Commands), NEW s2 \in Seq(Commands),
             \A i \in 1..Len(s1) : Sent(s1[i]), \A i \in 1..Len(s2) : Sent(s2[i])
      PROVE  s1 \o s2 \in Seq(Commands) /\ \A i \in 1..Len(s1 \o s2) : Sent((s1 \o s2)[i])
  <2> DEFINE u == s1 \o s2
  <2>1. /\ u \in Seq(Commands) /\ Len(u) = Len(s1) + Len(s2)
        /\ \A i \in 1..(Len(s1) + Len(s2)) : u[i] = IF i <= Len(s1) THEN s1[i] ELSE s2[i - Len(s1)]
    BY ONLY s1 \in Seq(Commands), s2 \in Seq(Commands), ConcatProperties DEF u
  <2>2. Len(s1) \in Nat /\ Len(s2) \in Nat
    BY LenProperties
  <2> HIDE DEF u
  <2>3. ASSUME NEW i \in 1..Len(u)
        PROVE  Sent(u[i])
    <3>1. i \in 1..(Len(s1) + Len(s2))
      BY <2>1
    <3>2. CASE i <= Len(s1)
      <4>1. i \in 1..Len(s1) /\ u[i] = s1[i]
        BY <2>1, <2>2, <3>1, <3>2
      <4> QED BY <1>6, <4>1
    <3>3. CASE ~(i <= Len(s1))
      <4>1. i - Len(s1) \in 1..Len(s2) /\ u[i] = s2[i - Len(s1)]
        BY <2>1, <2>2, <3>1, <3>3
      <4> QED BY <1>6, <4>1
    <3> QED BY <3>2, <3>3
  <2> QED BY <2>1, <2>3 DEF u
<1>7. t \o a \in Seq(Commands) /\ \A i \in 1..Len(t \o a) : Sent((t \o a)[i])
  BY <1>2, <1>3, <1>4, <1>6
<1> DEFINE u == (t \o a) \o w
<1>8. u \in Seq(Commands) /\ \A i \in 1..Len(u) : Sent(u[i])
  BY <1>1, <1>5, <1>6, <1>7 DEF w
<1>9. Line(p) = u
  BY DEF Line, t, a, w
<1> HIDE DEF u
<1>10. DOMAIN u = 1..Len(u)
  BY <1>8, LenProperties
<1> QED BY <1>1, <1>2, <1>8, <1>9, <1>10 DEF t, a, w

\* What is sent comes last.
LEMMA LineAppends ==
  ASSUME StackInv, NEW p \in Procs, NEW cmd \in Commands,
         turn' = turn, answers' = answers, wire'[p] = Append(wire[p], cmd)
  PROVE  Line(p)' = Append(Line(p), cmd)
<1> DEFINE t == CommandsIn(turn[p])
           a == CommandsIn(answers[p])
           s == t \o a
           w == wire[p]
<1>1. t \in Seq(Commands) /\ a \in Seq(Commands) /\ w \in Seq(Commands)
  BY LineType
<1>2. Line(p)' = s \o Append(w, cmd) /\ Line(p) = s \o w
  BY DEF Line, CommandsIn
<1> HIDE DEF t, a
<1>3. s \in Seq(Commands) /\ <<cmd>> \in Seq(Commands)
  BY <1>1, ConcatProperties
<1> HIDE DEF s, w
<1>4. Append(w, cmd) = w \o <<cmd>>
  BY <1>1, AppendIsConcat
<1>5. s \o (w \o <<cmd>>) = (s \o w) \o <<cmd>>
  BY <1>1, <1>3, ConcatAssociative
<1>6. s \o w \in Seq(Commands)
  BY <1>1, <1>3, ConcatProperties
<1>7. (s \o w) \o <<cmd>> = Append(s \o w, cmd)
  BY <1>6, AppendIsConcat
<1> QED BY <1>2, <1>4, <1>5, <1>7

\* Being executed changes no place in the line.
LEMMA LineKept ==
  ASSUME StackInv, NEW p \in Procs, NEW e \in Settlements, e.cmd = Head(wire[p]),
         wire[p] # <<>>, turn' = turn,
         answers'[p] = Append(answers[p], e), wire'[p] = Tail(wire[p])
  PROVE  Line(p)' = Line(p)
<1> DEFINE t == CommandsIn(turn[p])
           a == CommandsIn(answers[p])
           w == wire[p]
           x == <<e.cmd>>
           v == Tail(w)
<1>1. t \in Seq(Commands) /\ a \in Seq(Commands) /\ w \in Seq(Commands)
  BY LineType
<1>2. answers[p] \in Seq(Settlements)
  BY DEF StackInv, StackTypeOK, RepoTypeOK
<1>3. CommandsIn(answers'[p]) = a \o x /\ e.cmd \in Commands
  BY <1>2, CommandsInSteps
<1>4. Line(p)' = (t \o (a \o x)) \o v /\ Line(p) = (t \o a) \o w
  BY <1>3 DEF Line, CommandsIn
<1>5. v \in Seq(Commands) /\ w = x \o v
  BY <1>1, HeadFirst
<1>6. x \in Seq(Commands)
  BY <1>3
<1> HIDE DEF t, a, w, x, v
<1>7. t \o (a \o x) = (t \o a) \o x
  <2>1. t \in Seq(Commands) /\ a \in Seq(Commands) /\ x \in Seq(Commands)
    BY <1>1, <1>6
  <2> QED BY ONLY SMTT(60), <2>1, ConcatAssociative
<1>8. t \o a \in Seq(Commands)
  BY <1>1, ConcatProperties
<1>9. ((t \o a) \o x) \o v = (t \o a) \o (x \o v)
  <2>1. t \o a \in Seq(Commands) /\ x \in Seq(Commands) /\ v \in Seq(Commands)
    BY <1>5, <1>6, <1>8
  <2> QED BY ONLY SMTT(60), <2>1, ConcatAssociative
<1> QED BY <1>4, <1>5, <1>7, <1>9

\* The oldest of the settled is the oldest of the line.
LEMMA LineTail ==
  ASSUME StackInv, NEW p \in Procs, wire' = wire,
         \/ /\ \E e \in Settlements : turn[p] = <<e>>
            /\ turn'[p] = <<>> /\ answers' = answers
         \/ /\ turn[p] = <<>> /\ answers[p] # <<>>
            /\ turn' = turn /\ answers'[p] = Tail(answers[p])
  PROVE  /\ Line(p) # <<>> /\ Line(p)' = Tail(Line(p))
         /\ turn[p] # <<>> => Head(Line(p)) = turn[p][1].cmd
         /\ turn[p] = <<>> => Head(Line(p)) = Head(answers[p]).cmd
<1> DEFINE t == CommandsIn(turn[p])
           a == CommandsIn(answers[p])
           w == wire[p]
<1>1. t \in Seq(Commands) /\ a \in Seq(Commands) /\ w \in Seq(Commands)
  BY LineType
<1>2. answers[p] \in Seq(Settlements) /\ <<>> \in Seq(Commands) /\ CommandsIn(<<>>) = <<>>
  BY DEF StackInv, StackTypeOK, RepoTypeOK, CommandsIn
<1>3. a \o w \in Seq(Commands)
  BY <1>1, ConcatProperties
<1>4. CASE (\E e \in Settlements : turn[p] = <<e>>) /\ turn'[p] = <<>> /\ answers' = answers
  <2>1. PICK e \in Settlements : turn[p] = <<e>>
    BY <1>4
  <2>2. t = <<e.cmd>> /\ e.cmd \in Commands /\ turn[p] # <<>> /\ turn[p][1].cmd = e.cmd
    <3>1. CommandsIn(<<e>>) = <<e.cmd>> /\ e.cmd \in Commands
      BY CommandsInSteps
    <3> QED BY <2>1, <3>1
  <2>3. Line(p) = (t \o a) \o w /\ Line(p)' = (<<>> \o a) \o w
    BY <1>2, <1>4 DEF Line, CommandsIn
  <2> HIDE DEF a, w, t
  <2>4. <<>> \o a = a
    BY <1>1, ConcatEmptySeq
  <2>5. (t \o a) \o w = <<e.cmd>> \o (a \o w)
    BY <1>1, <2>2, ConcatAssociative
  <2> QED BY SMTT(60), <1>3, <2>2, <2>3, <2>4, <2>5, FirstHead
<1>5. CASE turn[p] = <<>> /\ answers[p] # <<>> /\ turn' = turn /\ answers'[p] = Tail(answers[p])
  <2> DEFINE b == CommandsIn(Tail(answers[p]))
             cmd == Head(answers[p]).cmd
  <2>1. a = <<cmd>> \o b
    BY <1>2, <1>5, CommandsInTail
  <2>2. cmd \in Commands /\ b \in Seq(Commands)
    <3>1. Head(answers[p]) \in Settlements /\ Tail(answers[p]) \in Seq(Settlements)
      BY <1>2, <1>5, HeadFirst
    <3> QED BY <3>1, CommandsInType DEF Settlements
  <2>3. Line(p) = (<<>> \o a) \o w /\ Line(p)' = (<<>> \o b) \o w
    BY <1>2, <1>5 DEF Line, CommandsIn
  <2> HIDE DEF a, w, t, b, cmd
  <2>4. <<>> \o a = a /\ <<>> \o b = b
    BY <1>1, <2>2, ConcatEmptySeq
  <2>5. b \o w \in Seq(Commands) /\ <<cmd>> \in Seq(Commands)
    BY <1>1, <2>2, ConcatProperties
  <2>6. (<<cmd>> \o b) \o w = <<cmd>> \o (b \o w)
    BY <1>1, <2>2, <2>5, ConcatAssociative
  <2> QED BY <1>5, <2>1, <2>2, <2>3, <2>4, <2>5, <2>6, FirstHead DEF cmd
<1> QED BY <1>4, <1>5

\* The timer of its GET is armed while a call reads.
LEMMA ReadingAwaits ==
  ASSUME StackInv, NoFaults, NEW c \in Calls, pc[c] = "reading"
  PROVE  deadline["get"][c] # None /\ Awaited(Gets(c))
BY DEF StackInv, RacesOK, RaceOK, NoFaults, Awaited, Gets, Command

\* Without faults a live process's line grows at its end and is used up at its head, and
\* a GET leaves it only when its call stops reading.
LEMMA LineSteps ==
  ASSUME Faultless, StackInv, NoFaults, [Next]_vars, NEW p \in Procs, alive'[p]
  PROVE  \/ Line(p)' = Line(p)
         \/ \E c \in Calls : Request(c) /\ Line(p)' = Append(Line(p), Gets(c))
         \/ \E f \in Calls : UpstreamAnswers(f) /\ Line(p)' = Append(Line(p), SetCommand(f, Stamped(f)))
         \/ /\ Line(p) # <<>> /\ Line(p)' = Tail(Line(p))
            /\ \A c \in Calls : Head(Line(p)) = Gets(c) => pc'[c] # "reading"
<1>1. /\ turn \in [Procs -> Seq(Settlements)] /\ answers \in [Procs -> Seq(Settlements)]
      /\ wire \in [Procs -> Seq(Commands)] /\ alive \in [Procs -> BOOLEAN]
      /\ pc \in [Calls -> {"idle"} \cup Pending \cup Settled]
  BY DEF StackInv, StackTypeOK, RepoTypeOK, ServiceTypeOK, WorldTypeOK
<1>2. ASSUME turn'[p] = turn[p], answers'[p] = answers[p], wire'[p] = wire[p]
      PROVE  Line(p)' = Line(p)
  BY <1>2 DEF Line, CommandsIn
<1>3. ASSUME NEW c \in Calls, Request(c)
      PROVE  Line(p)' = Line(p) \/ Line(p)' = Append(Line(p), Gets(c))
  <2>1. Gets(c).call = c /\ Send(Gets(c)) /\ Gets(c) \in Commands
    BY <1>3 DEF Request, SendGet, Gets, Command, Commands, Ops
  <2>2. wire' = [wire EXCEPT ![ProcOf[c]] = Append(@, Gets(c))] /\ turn' = turn /\ answers' = answers
    BY <2>1, Sends
  <2>3. CASE p = ProcOf[c]
    BY <1>1, <2>1, <2>2, <2>3, LineAppends
  <2>4. CASE p # ProcOf[c]
    BY <1>1, <1>2, <2>2, <2>4
  <2> QED BY <2>3, <2>4
<1>4. ASSUME NEW f \in Calls, UpstreamAnswers(f)
      PROVE  Line(p)' = Line(p) \/ Line(p)' = Append(Line(p), SetCommand(f, Stamped(f)))
  <2> DEFINE cmd == SetCommand(f, Stamped(f))
  <2>1. cmd.call = f /\ Send(cmd) /\ cmd \in Commands
    BY <1>4, StampIsNewest DEF UpstreamAnswers, SendSet, SetCommand, Commands, Ops
  <2> HIDE DEF cmd
  <2>2. wire' = [wire EXCEPT ![ProcOf[f]] = Append(@, cmd)] /\ turn' = turn /\ answers' = answers
    BY <2>1, Sends
  <2>3. CASE p = ProcOf[f]
    BY <1>1, <2>1, <2>2, <2>3, LineAppends DEF cmd
  <2>4. CASE p # ProcOf[f]
    BY <1>1, <1>2, <2>2, <2>4
  <2> QED BY <2>3, <2>4
<1> DEFINE Shifts == /\ Line(p) # <<>> /\ Line(p)' = Tail(Line(p))
                     /\ \A c \in Calls : Head(Line(p)) = Gets(c) => pc'[c] # "reading"
<1>5. ASSUME NEW op \in Ops, NEW d \in Calls, NEW reply, RaceEnds(op, d, reply),
             wire' = wire, answers' = answers, op = "get" => pc'[d] # "reading"
      PROVE  Line(p)' = Line(p) \/ Shifts
  <2>1. CASE turn' = turn
    BY <1>2, <1>5, <2>1
  <2>2. CASE p # ProcOf[d]
    <3>1. turn'[p] = turn[p]
      <4>1. turn' = turn \/ turn' = [turn EXCEPT ![ProcOf[d]] = <<>>]
        BY <1>5, RaceOfOne
      <4> QED BY <1>1, <2>2, <4>1
    <3> QED BY <1>2, <1>5, <3>1
  <2>3. ASSUME NEW e \in Settlements, p = ProcOf[d], turn[p] = <<e>>,
               turn' = [turn EXCEPT ![p] = <<>>], e.cmd.op = op, e.cmd.call = d
        PROVE  Shifts
    <3>1. turn'[p] = <<>> /\ turn[p] # <<>> /\ turn[p][1] = e
      BY <1>1, <2>3
    <3>2. Line(p) # <<>> /\ Line(p)' = Tail(Line(p)) /\ Head(Line(p)) = e.cmd
      <4>1. \E x \in Settlements : turn[p] = <<x>>
        BY <2>3
      <4> QED BY <1>5, <3>1, <4>1, LineTail
    <3>3. ASSUME NEW c \in Calls, e.cmd = Gets(c)
          PROVE  pc'[c] # "reading"
      BY <1>5, <2>3, <3>3 DEF Gets, Command
    <3> QED BY <3>2, <3>3
  <2> QED BY <1>5, <2>1, <2>2, <2>3, RaceOfOne
<1>6. ASSUME NEW c \in Calls, ReadDone(c)
      PROVE  Line(p)' = Line(p) \/ Shifts
  <2>1. /\ wire' = wire /\ answers' = answers
        /\ \E op \in Ops : \E reply : RaceEnds(op, c, reply)
    BY <1>6 DEF ReadDone, ReadReturns, GetReturns, DiscardReturns, Ops
  <2>2. pc'[c] # "reading"
    BY <1>6, ReadDoneEffect
  <2> QED BY <1>5, <2>1, <2>2
<1>7. ASSUME NEW f \in Calls, WriteDone(f)
      PROVE  Line(p)' = Line(p) \/ Shifts
  <2>1. /\ wire' = wire /\ answers' = answers /\ "set" \in Ops /\ "set" # "get"
        /\ \E reply : RaceEnds("set", f, reply)
    BY <1>7 DEF WriteDone, WriteReturns, Ops
  <2> QED BY <1>5, <2>1
<1>8. ASSUME NEW q \in Procs, ChunkArrives(q), UNCHANGED <<worldVars, serviceVars, stackVars>>
      PROVE  Line(p)' = Line(p) \/ Shifts
  <2>1. /\ turn[q] = <<>> /\ answers[q] # <<>>
        /\ answers' = [answers EXCEPT ![q] = Tail(@)] /\ wire' = wire
        /\ \/ /\ Awaited(Head(answers[q]).cmd)
              /\ turn' = [turn EXCEPT ![q] = <<Head(answers[q])>>]
           \/ ~Awaited(Head(answers[q]).cmd) /\ turn' = turn
    BY <1>8, ChunkOfOne
  <2>2. CASE q # p
    <3>1. turn'[p] = turn[p] /\ answers'[p] = answers[p] /\ wire'[p] = wire[p]
      BY <1>1, <2>1, <2>2
    <3> QED BY <1>2, <3>1
  <2>3. CASE q = p /\ turn' = [turn EXCEPT ![q] = <<Head(answers[q])>>]
    <3>1. turn'[p] = <<Head(answers[p])>> /\ answers'[p] = Tail(answers[p]) /\ wire'[p] = wire[p]
      BY <1>1, <2>1, <2>3
    <3>2. /\ answers[p] \in Seq(Settlements) /\ Head(answers[p]) \in Settlements
          /\ CommandsIn(answers[p]) = <<Head(answers[p]).cmd>> \o CommandsIn(Tail(answers[p]))
      BY <1>1, <2>1, <2>3, CommandsInTail, HeadFirst
    <3>3. /\ CommandsIn(<<>>) = <<>>
          /\ CommandsIn(<<Head(answers[p])>>) = <<Head(answers[p]).cmd>>
      BY <3>2, CommandsInSteps
    <3>4. /\ Line(p) = (CommandsIn(<<>>) \o CommandsIn(answers[p])) \o wire[p]
          /\ Line(p)' = (CommandsIn(<<Head(answers[p])>>) \o CommandsIn(Tail(answers[p]))) \o wire[p]
      <4>1. Line(p)' = (CommandsIn(turn'[p]) \o CommandsIn(answers'[p])) \o wire'[p]
        BY DEF Line, CommandsIn
      <4> QED BY <2>1, <2>3, <3>1, <4>1 DEF Line
    <3>5. <<>> \o CommandsIn(answers[p]) = CommandsIn(answers[p])
      BY LineType, ConcatEmptySeq
    <3> QED BY <3>2, <3>3, <3>4, <3>5
  <2>4. CASE q = p /\ ~Awaited(Head(answers[q]).cmd) /\ turn' = turn
    <3>1. answers'[p] = Tail(answers[p])
      BY <1>1, <2>1, <2>4
    <3>2. Line(p) # <<>> /\ Line(p)' = Tail(Line(p)) /\ Head(Line(p)) = Head(answers[p]).cmd
      BY <2>1, <2>4, <3>1, LineTail
    <3>3. ASSUME NEW c \in Calls, Head(answers[p]).cmd = Gets(c)
          PROVE  pc'[c] # "reading"
      <4>1. pc' = pc
        BY <1>8 DEF serviceVars
      <4> QED BY <2>4, <3>3, <4>1, ReadingAwaits
    <3> QED BY <3>2, <3>3
  <2> QED BY <2>1, <2>2, <2>3, <2>4
<1>9. ASSUME NEW q \in Procs, RedisExecutes(q), UNCHANGED <<worldVars, serviceVars, stackVars>>
      PROVE  Line(p)' = Line(p)
  <2>1. /\ turn' = turn /\ wire[q] # <<>> /\ wire' = [wire EXCEPT ![q] = Tail(@)] /\ alive' = alive
        /\ LET x == [cmd |-> Head(wire[q]), reply |-> ReplyTo(Head(wire[q]))]
           IN alive[q] => answers' = [answers EXCEPT ![q] = Append(@, x)]
        /\ ~alive[q] => answers' = answers
    BY <1>9 DEF RedisExecutes, Faultless, worldVars
  <2>2. CASE q = p
    <3> DEFINE x == [cmd |-> Head(wire[p]), reply |-> ReplyTo(Head(wire[p]))]
    <3>1. x \in Settlements /\ x.cmd = Head(wire[p])
      <4>1. wire[p] # <<>>
        BY <2>1, <2>2
      <4> QED BY <4>1, HeadSent, ReplyType DEF Settlements, StackInv, StackTypeOK
    <3>2. answers'[p] = Append(answers[p], x) /\ wire'[p] = Tail(wire[p]) /\ wire[p] # <<>>
      BY <1>1, <2>1, <2>2
    <3> HIDE DEF x
    <3> QED BY <2>1, <3>1, <3>2, LineKept
  <2>3. CASE q # p
    <3>1. answers' = answers \/ \E y : answers' = [answers EXCEPT ![q] = y]
      BY <2>1
    <3>2. answers'[p] = answers[p] /\ wire'[p] = wire[p] /\ turn'[p] = turn[p]
      BY <1>1, <2>1, <2>3, <3>1
    <3> QED BY <1>2, <3>2
  <2> QED BY <2>2, <2>3
<1>10. ASSUME NEW q \in Procs, Dies(q)
       PROVE  Line(p)' = Line(p)
  <2>1. q # p
    BY <1>1, <1>10 DEF Dies, Killed
  <2>2. turn'[p] = turn[p] /\ answers'[p] = answers[p] /\ wire'[p] = wire[p]
    BY <1>1, <1>10, <2>1 DEF Dies, RepoDies
  <2> QED BY <1>2, <2>2
<1>11. ASSUME (\E f \in Calls : UpstreamFails(f)) \/ Tick \/ UNCHANGED vars
       PROVE  Line(p)' = Line(p)
  BY <1>2, <1>11 DEF UpstreamFails, Tick, vars, repoVars
<1> QED BY <1>3, <1>4, <1>6, <1>7, <1>8, <1>9, <1>10, <1>11, FaultlessSteps

\* A fetch that was resolved while a call was reading is not written before that call has
\* its read: the SET is behind the GET, and so is its timer.
LEMMA WritesComeLater ==
  ASSUME Faultless, StackInv, OrderInv, NEW c \in Calls, pc[c] = "reading",
         NEW f \in Calls, fetched[f] # None, RealTime(fetched[f]) > startedAt[c]
  PROVE  ~WriteDone(f)
<1> SUFFICES ASSUME WriteDone(f)
             PROVE  FALSE
  OBVIOUS
<1> DEFINE p == ProcOf[c]
<1>1. /\ NoFaults /\ ProcOf[f] = p /\ p \in Procs
      /\ Gets(c) \in ToSet(Line(p)) /\ Precedes(Line(p), Gets(c), Sets(f))
  BY DEF OrderInv, ReadsComeFirst, Faultless
<1>2. PICK reply : RaceEnds("set", f, reply)
  BY DEF WriteDone, WriteReturns
<1>3. ASSUME NEW e \in Settlements, turn[p] = <<e>>, turn' = [turn EXCEPT ![p] = <<>>],
             e.cmd.op = "set", e.cmd.call = f, wire' = wire, answers' = answers
      PROVE  FALSE
  <2>1. e.cmd = Sets(f)
    <3>1. e \in ToSet(turn[p])
      BY <1>3 DEF ToSet
    <3>2. Sent(e.cmd)
      BY <1>1, <3>1, SettledSent
    <3> QED BY <1>3, <3>2, SetIsSets DEF IsSet
  <2>2. Line(p) # <<>> /\ Head(Line(p)) = Sets(f)
    <3>1. turn'[p] = <<>>
      BY <1>1, <1>3 DEF StackInv, StackTypeOK, RepoTypeOK
    <3>2. turn[p] # <<>> /\ turn[p][1] = e
      BY <1>3
    <3> QED BY <1>1, <1>3, <2>1, <3>1, <3>2, LineTail
  <2>3. /\ 1 \in DOMAIN Line(p) /\ Line(p)[1] = Sets(f)
        /\ \A i \in DOMAIN Line(p) : i \in Nat \ {0}
    BY <1>1, <2>2, LineType, TailIndex
  <2>4. PICK i \in DOMAIN Line(p) : Line(p)[i] = Gets(c)
    BY <1>1 DEF ToSet
  <2>5. i < 1
    BY <1>1, <2>3, <2>4 DEF Precedes
  <2> QED BY <2>3, <2>4, <2>5
<1>4. CASE deadline["set"][f] = now
  <2>1. deadline["set"][f] # None
    BY <1>2, RaceEffect DEF Ops
  <2>2. /\ now = RealTime(fetched[f]) + CmdTimeout /\ now \in Nat
        /\ RealTime(fetched[f]) \in Int /\ startedAt[c] \in Nat
    BY <1>4, <2>1, TimerTypes DEF StackInv, TimersOK, TimerOK
  <2>3. now <= startedAt[c] + CmdTimeout
    <3>1. deadline["get"][c] # None
      BY <1>1, ReadingAwaits
    <3>2. now <= deadline["get"][c] /\ deadline["get"][c] <= startedAt[c] + CmdTimeout
      BY <3>1 DEF StackInv, TimersOK, TimerOK, Ops
    <3>3. deadline["get"][c] \in Nat
      BY <3>1, TimerTypes DEF Ops
    <3> QED BY <2>2, <3>2, <3>3
  <2> QED BY <2>2, <2>3
<1> QED
  <2>1. wire' = wire /\ answers' = answers /\ "set" \in Ops
    BY DEF WriteDone, WriteReturns, Ops
  <2> QED BY <1>1, <1>2, <1>3, <1>4, <2>1, RaceOfOne

\* The GET of a call that reads stays ahead of what is resolved meanwhile.
LEMMA ReadsStayFirst ==
  ASSUME Faultless, StackInv, OrderInv, [Next]_vars
  PROVE  ReadsComeFirst'
<1> SUFFICES ASSUME NEW c \in Calls, pc'[c] = "reading"
             PROVE  /\ Gets(c) \in ToSet(Line(ProcOf[c])')
                    /\ \A f \in Calls : fetched'[f] # None /\ RealTime(fetched'[f]) > startedAt'[c] =>
                         fetch'[f] = "writing" /\ Precedes(Line(ProcOf[c])', Gets(c), Sets(f)')
  BY DEF ReadsComeFirst, RealTime, Precedes, Gets, ToSet
<1> DEFINE p == ProcOf[c]
<1>1. /\ NoFaults /\ p \in Procs /\ Line(p) \in Seq(Commands)
      /\ fetch \in [Calls -> {"none", "stored", "unstored", "failed", "lost"} \cup Active]
      /\ fetched \in [Calls -> Snapshots \cup {None}]
      /\ pc \in [Calls -> {"idle"} \cup Pending \cup Settled]
      /\ startedAt \in [Calls -> Nat \cup {None}]
  BY LineType DEF OrderInv, StackInv, StackTypeOK, ServiceTypeOK
<1>2. alive'[p]
  BY DeadStaySilent DEF DeadAreSilent, Pending
<1>3. ASSUME Request(c)
      PROVE  /\ Gets(c) \in ToSet(Line(p)')
             /\ \A f \in Calls : fetched'[f] # None => ~(RealTime(fetched'[f]) > startedAt'[c])
  <2>1. Line(p)' = Append(Line(p), Gets(c)) /\ Gets(c) \in Commands
    <3>1. Gets(c).call = c /\ Send(Gets(c)) /\ Gets(c) \in Commands
      BY <1>3 DEF Request, SendGet, Gets, Command, Commands, Ops
    <3>2. wire' = [wire EXCEPT ![p] = Append(@, Gets(c))] /\ turn' = turn /\ answers' = answers
      BY <1>1, <3>1, Sends
    <3>3. wire'[p] = Append(wire[p], Gets(c))
      BY <1>1, <3>2 DEF StackInv, StackTypeOK, RepoTypeOK
    <3> QED BY <1>1, <3>1, <3>2, <3>3, LineAppends
  <2>2. \E i \in DOMAIN Append(Line(p), Gets(c)) : Append(Line(p), Gets(c))[i] = Gets(c)
    BY <1>1, <2>1, AppendIndex
  <2>3. startedAt'[c] = now /\ fetched' = fetched
    BY <1>1, <1>3 DEF Request, GetRates
  <2>4. ASSUME NEW f \in Calls, fetched[f] # None
        PROVE  ~(RealTime(fetched[f]) > now)
    <3>1. f \in Resolved
      BY <2>4 DEF Resolved
    <3> QED BY <3>1, ResolvedType
  <2> QED BY <2>1, <2>2, <2>3, <2>4 DEF ToSet
<1>4. ASSUME ~Request(c)
      PROVE  pc[c] = "reading" /\ startedAt'[c] = startedAt[c]
  <2>1. ASSUME NEW d \in Calls, Request(d), d # c
        PROVE  pc[c] = "reading" /\ startedAt'[c] = startedAt[c]
    BY <1>1, <2>1 DEF Request, GetRates
  <2>2. ASSUME NEW d \in Calls, ReadDone(d)
        PROVE  pc[c] = "reading" /\ startedAt'[c] = startedAt[c]
    <3>1. pc' = [pc EXCEPT ![d] = pc'[d]] /\ pc'[d] # "reading" /\ startedAt' = startedAt
      BY <2>2, ReadDoneEffect, ReadDoneFetch
    <3> QED BY <1>1, <3>1
  <2>3. ASSUME NEW f \in Calls, UpstreamFails(f) \/ WriteDone(f)
        PROVE  pc[c] = "reading" /\ startedAt'[c] = startedAt[c]
    BY <2>3, SettlesEffect
  <2>4. ASSUME NEW f \in Calls, UpstreamAnswers(f)
        PROVE  pc[c] = "reading" /\ startedAt'[c] = startedAt[c]
    BY <2>4, AnswersEffect
  <2>5. ASSUME NEW q \in Procs, Dies(q)
        PROVE  pc[c] = "reading" /\ startedAt'[c] = startedAt[c]
    BY <2>5 DEF Dies, ServiceDies
  <2> QED
    BY <1>1, <1>4, <2>1, <2>2, <2>3, <2>4, <2>5, FaultlessSteps
       DEF Tick, vars, serviceVars, stackVars
<1>5. ASSUME ~Request(c)
      PROVE  /\ Gets(c) \in ToSet(Line(p))
             /\ \A f \in Calls : fetched[f] # None /\ RealTime(fetched[f]) > startedAt[c] =>
                  fetch[f] = "writing" /\ Precedes(Line(p), Gets(c), Sets(f)) /\ ~WriteDone(f)
  BY <1>4, <1>5, WritesComeLater DEF OrderInv, ReadsComeFirst
<1>6. \A d \in Calls : Request(d) /\ d # c => Gets(d) # Gets(c) /\ Gets(d) \in Commands
  BY DEF Gets, Command, Commands, Ops
<1>7. \A f \in Calls : SetCommand(f, Stamped(f)) # Gets(c) /\ SetCommand(f, Stamped(f)) \in Commands
  BY StampIsNewest DEF Gets, Command, SetCommand, Commands, Ops
<1>8. ASSUME ~Request(c)
       PROVE  \/ Line(p)' = Line(p)
              \/ \E x \in Commands \ {Gets(c)} : Line(p)' = Append(Line(p), x)
              \/ Line(p) # <<>> /\ Line(p)' = Tail(Line(p)) /\ Head(Line(p)) # Gets(c)
  <2>1. ASSUME NEW d \in Calls, Request(d), Line(p)' = Append(Line(p), Gets(d))
        PROVE  \E x \in Commands \ {Gets(c)} : Line(p)' = Append(Line(p), x)
    BY <1>6, <1>8, <2>1
  <2>2. ASSUME NEW f \in Calls, Line(p)' = Append(Line(p), SetCommand(f, Stamped(f)))
        PROVE  \E x \in Commands \ {Gets(c)} : Line(p)' = Append(Line(p), x)
    BY <1>7, <2>2
  <2> QED BY <1>1, <1>2, <2>1, <2>2, LineSteps
<1>9. ASSUME ~Request(c)
      PROVE  Gets(c) \in ToSet(Line(p)')
  BY <1>1, <1>5, <1>9, <1>8, PrecedesKept
<1>10. ASSUME ~Request(c), NEW f \in Calls, fetched'[f] # None, RealTime(fetched'[f]) > startedAt'[c]
      PROVE  fetch'[f] = "writing" /\ Precedes(Line(p)', Gets(c), Sets(f)')
  <2>1. CASE UpstreamAnswers(f)
    <3>1. fetch'[f] = "writing" /\ Sets(f)' = SetCommand(f, Stamped(f)) /\ fetched[f] = None
      BY <1>1, <2>1, AnswersEffect DEF Sets, SetCommand, StackInv, ServiceInv, NothingEarly
    <3>2. SetCommand(f, Stamped(f)) \notin ToSet(Line(p))
      <4>1. \A i \in DOMAIN Line(p) : Sent(Line(p)[i])
        BY <1>1, LineType
      <4>2. ~Sent(SetCommand(f, Stamped(f)))
        BY <3>1 DEF Sent, Command, SetCommand
      <4> QED BY <4>1, <4>2 DEF ToSet
    <3>3. Line(p)' = Append(Line(p), SetCommand(f, Stamped(f)))
      <4> DEFINE cmd == SetCommand(f, Stamped(f))
      <4>1. cmd.call = f /\ Send(cmd) /\ cmd \in Commands
        BY <1>7, <2>1 DEF UpstreamAnswers, SendSet, SetCommand
      <4> HIDE DEF cmd
      <4>2. wire' = [wire EXCEPT ![ProcOf[f]] = Append(@, cmd)] /\ turn' = turn /\ answers' = answers
        BY <1>1, <4>1, Sends
      <4>3. wire'[p] = Append(wire[p], cmd)
        BY <1>1, <4>2 DEF StackInv, StackTypeOK, RepoTypeOK, Faultless
      <4>4. Line(p)' = Append(Line(p), cmd)
        BY <1>1, <4>1, <4>2, <4>3, LineAppends
      <4> QED BY <4>4 DEF cmd
    <3> QED BY <1>1, <1>5, <1>7, <1>10, <3>1, <3>2, <3>3, PrecedesKept
  <2>2. CASE ~UpstreamAnswers(f)
    <3>1. fetched'[f] = fetched[f]
      <4>1. ASSUME NEW g \in Calls, UpstreamAnswers(g)
            PROVE  fetched'[f] = fetched[f]
        <5>1. g # f /\ fetched' = [fetched EXCEPT ![g] = Stamped(g)]
          BY <2>2, <4>1, AnswersEffect
        <5> QED BY <1>1, <5>1
      <4>2. ASSUME NEW d \in Calls, ReadDone(d)
            PROVE  fetched'[f] = fetched[f]
        BY <4>2, ReadDoneFetch
      <4>3. ASSUME NEW g \in Calls, UpstreamFails(g) \/ WriteDone(g)
            PROVE  fetched'[f] = fetched[f]
        BY <4>3, SettlesEffect
      <4>4. ASSUME NEW q \in Procs, Dies(q)
            PROVE  fetched'[f] = fetched[f]
        BY <4>4 DEF Dies, ServiceDies
      <4>5. ASSUME NEW d \in Calls, Request(d)
            PROVE  fetched'[f] = fetched[f]
        BY <4>5 DEF Request, GetRates
      <4> QED BY <1>1, <4>1, <4>2, <4>3, <4>4, <4>5, FaultlessSteps DEF Tick, vars, serviceVars
    <3>2. Sets(f)' = Sets(f) /\ startedAt'[c] = startedAt[c]
      BY <1>4, <1>10, <3>1 DEF Sets
    <3>3. fetch[f] = "writing" /\ Precedes(Line(p), Gets(c), Sets(f)) /\ ~WriteDone(f)
      BY <1>5, <1>10, <3>1, <3>2
    <3>4. fetch'[f] = "writing"
      <4>1. ASSUME NEW g \in Calls, UpstreamAnswers(g)
            PROVE  fetch'[f] = "writing"
        BY <1>1, <3>3, <4>1, AnswersEffect
      <4>2. ASSUME NEW d \in Calls, ReadDone(d)
            PROVE  fetch'[f] = "writing"
        <5>1. fetch' = fetch \/ (fetch' = [fetch EXCEPT ![d] = "upstream"] /\ fetch[d] = "none")
          BY <4>2, ReadDoneFetch
        <5> QED BY <1>1, <3>3, <5>1
      <4>3. ASSUME NEW g \in Calls, UpstreamFails(g) \/ WriteDone(g)
            PROVE  fetch'[f] = "writing"
        <5>1. g # f
          BY <3>3, <4>3 DEF UpstreamFails, ProviderRejects
        <5>2. \E outcome : fetch' = [fetch EXCEPT ![g] = outcome]
          BY <4>3, SettlesEffect
        <5> QED BY <1>1, <3>3, <5>1, <5>2
      <4>4. ASSUME NEW q \in Procs, Dies(q)
            PROVE  fetch'[f] = "writing"
        <5>1. ProcOf[f] # q
          <6>1. alive' = [alive EXCEPT ![q] = FALSE] /\ alive \in [Procs -> BOOLEAN] /\ ProcOf[f] = p
            BY <4>4 DEF Dies, Killed, StackInv, StackTypeOK, ServiceTypeOK, WorldTypeOK, Faultless
          <6> QED BY <1>1, <1>2, <6>1
        <5> QED BY <1>1, <3>3, <4>4, <5>1 DEF Dies, ServiceDies
      <4>5. ASSUME NEW d \in Calls, Request(d)
            PROVE  fetch'[f] = "writing"
        BY <3>3, <4>5 DEF Request, GetRates
      <4> QED BY <1>1, <3>3, <4>1, <4>2, <4>3, <4>4, <4>5, FaultlessSteps DEF Tick, vars, serviceVars
    <3>5. Precedes(Line(p)', Gets(c), Sets(f))
      <4>1. Gets(c) \in ToSet(Line(p)) /\ Line(p) \in Seq(Commands)
        BY <1>1, <1>5, <1>10
      <4>2. CASE Line(p)' = Line(p)
        BY <3>3, <4>2
      <4>3. ASSUME NEW x \in Commands \ {Gets(c)}, Line(p)' = Append(Line(p), x)
            PROVE  Precedes(Line(p)', Gets(c), Sets(f))
        BY <3>3, <4>1, <4>3, PrecedesKept
      <4>4. CASE Line(p) # <<>> /\ Line(p)' = Tail(Line(p)) /\ Head(Line(p)) # Gets(c)
        BY <3>3, <4>1, <4>4, PrecedesKept
      <4> QED BY <1>10, <1>8, <4>2, <4>3, <4>4
    <3> QED BY <3>2, <3>4, <3>5
  <2> QED BY <2>1, <2>2
<1> QED BY <1>3, <1>9, <1>10

-----------------------------------------------------------------------------
(* The invariant                                                           *)

\* Before the first call nothing is under way and the key is absent.
LEMMA OrderInvInit ==
  ASSUME Faultless, Init
  PROVE  OrderInv
<1> USE DEF Init, WorldInit, ServiceInit, RepoInit
<1>1. /\ \A p \in Procs : turn[p] = <<>> /\ answers[p] = <<>> /\ wire[p] = <<>>
      /\ DOMAIN <<>> = {} /\ ToSet(<<>>) = {} /\ Len(<<>>) = 0
  BY DEF ToSet
<1>2. store = Holding("absent") /\ store.kind = "absent"
  BY DEF Faultless, Holding
<1>3. \A c \in Calls : deadline["del"][c] = None
  BY DEF Ops
<1>4. NoFaults
  <2>1. \A p \in Procs : link[p] = "up" /\ Len(turn[p]) <= 1
    BY <1>1
  <2>2. \A p \in Procs : \A i \in DOMAIN wire[p] : wire[p][i].op # "del"
    BY <1>1
  <2>3. \A p \in Procs : \A e \in ToSet(turn[p]) \cup ToSet(answers[p]) : ~IsCorrupt(e.reply)
    BY <1>1
  <2> QED BY <1>2, <1>3, <2>1, <2>2, <2>3 DEF NoFaults
<1>5. DeadAreSilent /\ ReadsComeFirst
  BY DEF DeadAreSilent, ReadsComeFirst, Pending, Active
<1>6. LastIsNewest /\ NothingLost /\ NewestResolved
  BY DEF LastIsNewest, NothingLost, NewestResolved, Resolved
<1>7. SetsInOrder /\ GetsWillSee
  BY <1>1 DEF SetsInOrder, GetsWillSee
<1>8. StoreInOrder
  BY <1>2 DEF StoreInOrder
<1>9. GetsSaw
  BY <1>1 DEF GetsSaw
<1> QED BY <1>4, <1>5, <1>6, <1>7, <1>8, <1>9 DEF OrderInv

\* Every step of a faultless stack keeps the order of things.
LEMMA OrderInvStep ==
  ASSUME Faultless
  PROVE  StackInv /\ OrderInv /\ [Next]_vars => OrderInv'
BY FaultlessStays, DeadStaySilent, ReadsStayFirst, LastStaysNewest, SetsStayInOrder,
   StoreStaysInOrder, NothingGetsLost, GetsStillSee, GetsHaveSeen, NewestStaysResolved
   DEF OrderInv

\* With one process and a Redis that loses and refuses nothing, reads and writes reach it
\* in an order in which nothing older comes after what was served.
THEOREM OrderInvariant ==
  ASSUME Faultless
  PROVE  Spec => []OrderInv
<1>1. Init => OrderInv
  BY OrderInvInit
<1>2. StackInv /\ OrderInv /\ [Next]_vars => OrderInv'
  BY OrderInvStep
<1> QED BY <1>1, <1>2, StackInvariant, PTL DEF Spec

-----------------------------------------------------------------------------
(* What the order of things promises a call                                *)

\* What a call reads: the GET was executed, and saw what had been served before the call
\* began, or it was not answered.
LEMMA ReadSaw ==
  ASSUME Faultless, StackInv, OrderInv, NEW c \in Calls, NEW read, ReadReturns(c, read),
         newest[c] # None
  PROVE  \/ read = Failing("error")
         \/ /\ read.status = "hit" /\ read.snapshot \in Snapshots
            /\ newest[c] <= read.snapshot.fetchedAt
         \/ read.status = "absent" /\ newest[c] + TTL < Clock(ProcOf[c])
<1>1. NoFaults /\ \A op \in Ops : op = "del" => deadline[op][c] = None
  BY DEF OrderInv, NoFaults
<1>2. ~DiscardReturns(c, read)
  BY <1>1, RaceEffect DEF DiscardReturns, Ops
<1>3. PICK reply : RaceEnds("get", c, reply) /\ read = ReadOf(reply)
  BY <1>2 DEF ReadReturns, GetReturns
<1>4. CASE reply = Rejection
  BY <1>3, <1>4 DEF ReadOf, Rejection, Reply, Failing
<1>5. ASSUME NEW e \in Settlements, turn[ProcOf[c]] = <<e>>, e.cmd.op = "get", e.cmd.call = c,
             e.reply = reply
      PROVE  \/ /\ read.status = "hit" /\ read.snapshot \in Snapshots
                /\ newest[c] <= read.snapshot.fetchedAt
             \/ read.status = "absent" /\ newest[c] + TTL < Clock(ProcOf[c])
  <2>1. e \in ToSet(turn[ProcOf[c]]) /\ ProcOf[c] \in Procs
    BY <1>5 DEF ToSet
  <2>2. e.cmd = Gets(c)
    <3>1. Sent(e.cmd)
      BY <2>1, SettledSent
    <3> QED BY <1>5, <3>1 DEF Sent, Command, SetCommand, Gets
  <2>3. Saw(ProcOf[c], e) /\ ReplyOK(e)
    BY <2>1 DEF OrderInv, GetsSaw, StackInv, RepliesOK
  <2>4. \/ e.reply.kind = "snapshot" /\ newest[c] <= e.reply.snapshot.fetchedAt
        \/ e.reply.kind = "absent" /\ newest[c] + TTL < Clock(ProcOf[c])
    BY <2>2, <2>3 DEF Saw
  <2>5. e.reply.kind = "snapshot" => e.reply.snapshot \in Snapshots
    BY <1>5, <2>3 DEF ReplyOK, Known, Kinds
  <2> QED BY <1>3, <1>5, <2>4, <2>5 DEF ReadOf
<1> QED BY <1>1, <1>3, <1>4, <1>5, RaceOfOne DEF Ops

\* A call served from the cache, or with what was fetched, gets nothing older than was
\* served before it began.
LEMMA AnswerIsNewer ==
  ASSUME Faultless, StackInv, OrderInv, [Next]_vars,
         NEW c \in Calls, Serves(c), newest[c] # None
  PROVE  answer'[c].fetchedAt >= newest[c]
<1>1. /\ answer \in [Calls -> Snapshots \cup {None}] /\ fetched \in [Calls -> Snapshots \cup {None}]
      /\ pc \in [Calls -> {"idle"} \cup Pending \cup Settled]
      /\ newest[c] \in Nat
  BY DEF StackInv, StackTypeOK, ServiceTypeOK
<1>2. ASSUME NEW d \in Calls, ReadDone(d)
      PROVE  answer'[c].fetchedAt >= newest[c]
  <2>1. PICK read : ReadReturns(d, read) /\ ReadSettles(d, read)
    BY <1>2 DEF ReadDone
  <2>2. c = d /\ read.status = "hit" /\ answer'[c] = read.snapshot
    BY <1>1, <2>1 DEF ReadSettles, Miss, ServeCached, Serves, Served, Settled, Pending
  <2>3. read.snapshot \in Snapshots /\ newest[c] <= read.snapshot.fetchedAt
    BY <2>1, <2>2, ReadSaw DEF Failing
  <2>4. PICK s \in Snapshots : s = read.snapshot
    BY <2>3
  <2>5. s.fetchedAt \in Nat
    BY DEF Snapshots
  <2> QED BY <1>1, <2>2, <2>3, <2>4, <2>5
<1>3. ASSUME NEW f \in Calls, WriteDone(f)
      PROVE  answer'[c].fetchedAt >= newest[c]
  <2>1. fetch[f] = "writing" /\ answer'[c] = fetched[f]
    BY <1>3 DEF WriteDone, WriteSettles, FetchSettles, Serves
  <2>2. f \in Resolved
    BY <2>1, TimerTypes DEF Resolved
  <2>3. PICK g \in Resolved : fetched[g].fetchedAt = newest[c]
    BY DEF OrderInv, NewestResolved
  <2>4. fetched[g].fetchedAt <= fetched[f].fetchedAt
    BY <2>1, <2>2 DEF OrderInv, LastIsNewest
  <2>5. fetched[f].fetchedAt \in Nat
    BY <2>2, ResolvedType
  <2> QED BY <1>1, <2>1, <2>3, <2>4, <2>5
<1>4. (\E d \in Calls : ReadDone(d)) \/ (\E f \in Calls : WriteDone(f))
  BY <1>1 DEF Serves, Served, Next, Request, GetRates, Discard, UpstreamAnswers, ProviderResolves,
         UpstreamFails, ProviderRejects, FetchSettles, RedisSteps, Dies, ServiceDies, Tick,
         TimeIsUp, vars, serviceVars
<1> QED BY <1>2, <1>3, <1>4

\* With one process and a Redis that loses and refuses nothing, a call never gets rates
\* older than some its process had served before it began, however late its reads and
\* writes are executed.
THEOREM ReadsAreMonotonic ==
  ASSUME Faultless
  PROVE  Spec => MonotonicReads
<1>1. StackInv /\ OrderInv /\ [Next]_vars =>
        [\A c \in Calls : Serves(c) /\ newest[c] # None => answer'[c].fetchedAt >= newest[c]]_vars
  BY AnswerIsNewer
<1> QED BY <1>1, StackInvariant, OrderInvariant, PTL DEF Spec, MonotonicReads

\* Who starts a fetch is a call whose read missed.
LEMMA FetchStarts ==
  ASSUME StackInv, [Next]_vars, NEW c \in Calls, StartsFetch(c)
  PROVE  /\ pc[c] = "reading" /\ inFlight[ProcOf[c]] = None /\ ReadDone(c)
         /\ \E read : /\ ReadReturns(c, read)
                      /\ \/ /\ read.status = "hit" /\ reason'[c] = "expired"
                            /\ ~IsFresh(ProcOf[c], read.snapshot)
                         \/ read.status # "hit" /\ reason'[c] = read.status
<1>1. /\ fetch \in [Calls -> {"none", "stored", "unstored", "failed", "lost"} \cup Active]
      /\ reason \in [Calls -> MissReason \cup {"none"}]
  BY DEF StackInv, StackTypeOK, ServiceTypeOK
<1>2. \E d \in Calls : ReadDone(d)
  BY <1>1 DEF StartsFetch, Next, Request, GetRates, Discard, UpstreamAnswers, ProviderResolves,
         UpstreamFails, WriteDone, WriteSettles, ProviderRejects, FetchSettles, RedisSteps, Dies,
         ServiceDies, Tick, TimeIsUp, vars, serviceVars
<1>3. PICK d \in Calls : ReadDone(d)
  BY <1>2
<1>4. PICK read : ReadReturns(d, read) /\ ReadSettles(d, read)
  BY <1>3 DEF ReadDone
<1>5. c = d
  BY <1>1, <1>4 DEF ReadSettles, Miss, SharedFetch, ServeCached, StartsFetch
<1> QED BY <1>1, <1>3, <1>4, <1>5 DEF ReadSettles, Miss, SharedFetch, ServeCached, StartsFetch

\* Under the same assumptions the cache does its work: a call asks the upstream again on an
\* absent or expired value only once what was served before it began is older than the TTL.
THEOREM SnapshotsAreReused ==
  ASSUME Faultless
  PROVE  Spec => SnapshotReused
<1>1. ASSUME StackInv, OrderInv, [Next]_vars, NEW c \in Calls, StartsFetch(c),
             reason'[c] \in {"absent", "expired"}, newest[c] # None
      PROVE  Clock(ProcOf[c]) - newest[c] > TTL
  <2>1. PICK read : /\ ReadReturns(c, read)
                    /\ \/ /\ read.status = "hit" /\ reason'[c] = "expired"
                          /\ ~IsFresh(ProcOf[c], read.snapshot)
                       \/ read.status # "hit" /\ reason'[c] = read.status
    BY <1>1, FetchStarts
  <2>2. newest[c] \in Nat /\ now \in Nat /\ Skew[ProcOf[c]] \in Nat
    BY <1>1 DEF StackInv, StackTypeOK, ServiceTypeOK, WorldTypeOK
  <2>3. CASE read.status = "hit"
    <3>1. read.snapshot \in Snapshots /\ newest[c] <= read.snapshot.fetchedAt
      BY <1>1, <2>1, <2>3, ReadSaw DEF Failing
    <3>2. PICK s \in Snapshots : s = read.snapshot
      BY <3>1
    <3>3. s.fetchedAt \in Nat /\ newest[c] <= s.fetchedAt /\ ~IsFresh(ProcOf[c], s)
      BY <2>1, <2>3, <3>1, <3>2 DEF Snapshots
    <3> QED BY <2>2, <3>3 DEF IsFresh, Clock
  <2>4. CASE read.status # "hit"
    <3>1. read.status = "absent" /\ newest[c] + TTL < Clock(ProcOf[c])
      BY <1>1, <2>1, <2>4, ReadSaw DEF Failing
    <3> QED BY <2>2, <3>1 DEF Clock
  <2> QED BY <2>3, <2>4
<1>2. StackInv /\ OrderInv /\ [Next]_vars =>
        [\A c \in Calls : StartsFetch(c) /\ reason'[c] \in {"absent", "expired"} /\ newest[c] # None
           => Clock(ProcOf[c]) - newest[c] > TTL]_vars
  BY <1>1
<1> QED BY <1>2, StackInvariant, OrderInvariant, PTL DEF Spec, SnapshotReused

\* "one fetch per process is shared by every concurrent miss": a miss does not fetch again
\* when its process fetched a snapshot after the call began.
THEOREM NoFetchIsRedundant ==
  ASSUME Faultless
  PROVE  Spec => NoRedundantFetch
<1>1. ASSUME StackInv, OrderInv, [Next]_vars, NEW c \in Calls, StartsFetch(c),
             NEW f \in Calls, ProcOf[f] = ProcOf[c], fetched[f] # None
      PROVE  RealTime(fetched[f]) <= startedAt[c]
  <2>1. pc[c] = "reading" /\ inFlight[ProcOf[c]] = None
    BY <1>1, FetchStarts
  <2>2. fetch[f] # "writing"
    BY <1>1, <2>1, NoneAssumption DEF StackInv, ServiceInv, SingleFlightInv, Active
  <2>3. ~(RealTime(fetched[f]) > startedAt[c])
    BY <1>1, <2>1, <2>2 DEF OrderInv, ReadsComeFirst
  <2>4. RealTime(fetched[f]) \in Int /\ startedAt[c] \in Nat
    BY <1>1, <2>1, TimerTypes
  <2> QED BY <2>3, <2>4
<1>2. StackInv /\ OrderInv /\ [Next]_vars =>
        [\A c \in Calls : StartsFetch(c) =>
           \A f \in Calls : ProcOf[f] = ProcOf[c] /\ fetched[f] # None
             => RealTime(fetched[f]) <= startedAt[c]]_vars
  BY <1>1
<1> QED BY <1>2, StackInvariant, OrderInvariant, PTL DEF Spec, NoRedundantFetch

=============================================================================
