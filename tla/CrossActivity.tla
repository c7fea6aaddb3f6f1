---------------------------- MODULE CrossActivity ----------------------------
(***************************************************************************)
(* How the players of several realms get into one activity: GlobalServer   *)
(* allocates a MapServer to it (GlobalServer/crossmatch/allocator.go), a    *)
(* GameServer resolves the activity for a player with a cached answer, a   *)
(* connection made on demand and a request to make the instance            *)
(* (GameServer/game/maps/cross_service.go, connection_manager.go), and     *)
(* the MapServer makes one instance of it and reaps it when it is empty    *)
(* (MapServer/maps/map_manager.go, instance_manager.go).                   *)
(*                                                                         *)
(* The activity is one; several share nothing but connections.  What a     *)
(* player's outbox does about a message that cannot be sent is in MapLink; *)
(* here a message is sent or not.                                          *)
(***************************************************************************)
EXTENDS Integers, Sequences, FiniteSets

CONSTANTS
  Players,
  GameServers,  \* one of each realm
  Home,         \* Home[p]: the GameServer of player p
  Hosts,        \* the MapServers of all realms
  Nobody,
  MaxInstance,  \* bound: instances a MapServer makes between restarts
  MaxMove,      \* bound: changes of what discovery reports, restarts, releases
  MaxEnter,     \* bound: cross enters ever begun
  MaxRound,     \* bound: passes of the reapers of connections
  Reaping,      \* bound: the GameServers whose reaper makes them
  Moving        \* bound: the MapServers discovery loses, or that start again

ASSUME CrossAssumption ==
  /\ Home \in [Players -> GameServers]
  /\ Reaping \subseteq GameServers /\ Moving \subseteq Hosts
  /\ Nobody \notin Hosts
  /\ MaxInstance \in Nat /\ MaxMove \in Nat
  /\ MaxEnter \in Nat /\ MaxRound \in Nat

Instances == 1 .. MaxInstance

\* A goroutine that resolves the activity for a player.
Job ==
  [at: {"allocate", "candidates", "answer", "connect", "ensure", "attach"},
   attempt: {1, 2},
   seen: SUBSET Hosts,            \* the servers discovery has reported to it
   host: Hosts \union {Nobody},   \* the server it has been given
   cached: BOOLEAN,               \* fromCache
   dialled: BOOLEAN,              \* it has made the connection itself
   map: 0 .. MaxInstance]         \* the instance it has been given

NoJob == [at |-> "none"]

VARIABLES
  listed,       \* the MapServers discovery reports as healthy
  allocation,   \* the allocation of the activity
  cache,        \* cache[g]: crossAllocCache
  conn,         \* conn[g][h]: crossRealmConns, and whether it is younger than the grace
  round,        \* round[g]: the pass of reapIdleCrossConnections
  job,          \* job[p]: the cross enter in progress, crossInFlight
  binding,      \* binding[p]: crossBindings
  bound,        \* bound[h]: crossActivities, 0 is none
  alive,        \* alive[h]: the instances in the pool
  doomed,       \* doomed[h]: those found empty by the pass of ReapEmpty
  made,         \* made[h]: instances made since the last start
  inside,       \* inside[h][p]: playerMap, 0 is none
  moves,
  enters,
  rounds,
  moved,        \* history: the allocation's server was lost to discovery, or it was released
  own           \* history: p is bound over a connection dialled for him

globalVars == <<listed, allocation, moved, moves>>
linkVars   == <<conn, round, rounds, own>>
hostVars   == <<bound, alive, doomed, made, inside>>
vars == <<globalVars, cache, linkVars, enters, job, binding, hostVars>>

NoRound == [step |-> "idle", inUse |-> {}, closing |-> {}]

TypeOK ==
  /\ listed \subseteq Hosts
  /\ allocation \in Hosts \union {Nobody}
  /\ cache \in [GameServers -> Hosts \union {Nobody}]
  /\ conn \in [GameServers -> [Hosts -> {"none", "fresh", "old"}]]
  /\ round \in [GameServers -> [step: {"idle", "listing", "closing"},
                                inUse: SUBSET Hosts, closing: SUBSET Hosts]]
  /\ job \in [Players -> Job \union {NoJob}]
  /\ binding \in [Players -> Hosts \union {Nobody}]
  /\ bound \in [Hosts -> 0 .. MaxInstance]
  /\ alive \in [Hosts -> SUBSET Instances]
  /\ doomed \in [Hosts -> SUBSET Instances]
  /\ made \in [Hosts -> 0 .. MaxInstance]
  /\ inside \in [Hosts -> [Players -> 0 .. MaxInstance]]
  /\ moves \in 0 .. MaxMove /\ enters \in 0 .. MaxEnter /\ rounds \in 0 .. MaxRound
  /\ moved \in BOOLEAN
  /\ own \in [Players -> BOOLEAN]

Init ==
  /\ listed = Hosts
  /\ allocation = Nobody
  /\ cache = [g \in GameServers |-> Nobody]
  /\ conn = [g \in GameServers |-> [h \in Hosts |-> "none"]]
  /\ round = [g \in GameServers |-> NoRound]
  /\ job = [p \in Players |-> NoJob]
  /\ binding = [p \in Players |-> Nobody]
  /\ bound = [h \in Hosts |-> 0]
  /\ alive = [h \in Hosts |-> {}]
  /\ doomed = [h \in Hosts |-> {}]
  /\ made = [h \in Hosts |-> 0]
  /\ inside = [h \in Hosts |-> [p \in Players |-> 0]]
  /\ moves = 0 /\ enters = 0 /\ rounds = 0
  /\ moved = FALSE
  /\ own = [p \in Players |-> FALSE]

At(p, step) == job[p].at = step

Goto(p, step) == job' = [job EXCEPT ![p].at = step]

Return(p) == job' = [job EXCEPT ![p] = NoJob]

-----------------------------------------------------------------------------
(* ResolveCrossActivity, for player p *)

NewAttempt(n) ==
  [at |-> "allocate", attempt |-> n, seen |-> {}, host |-> Nobody, cached |-> FALSE,
   dialled |-> FALSE, map |-> 0]

\* handleCrossEnter: one at a time for a player, bound already or not
CrossEnter(p) ==
  /\ job[p] = NoJob
  /\ enters < MaxEnter /\ enters' = enters + 1
  /\ job' = [job EXCEPT ![p] = NewAttempt(1)]
  /\ UNCHANGED <<globalVars, cache, linkVars, binding, hostVars>>

\* allocateCrossActivity: an entry not yet expired
UseCache(p) ==
  LET g == Home[p] IN
  /\ At(p, "allocate")
  /\ cache[g] # Nobody
  /\ job' = [job EXCEPT ![p].at = "connect", ![p].host = cache[g], ![p].cached = TRUE]
  /\ UNCHANGED <<globalVars, cache, linkVars, enters, binding, hostVars>>

\* ... or GlobalServer asks discovery, before it takes the lock
Discover(p) ==
  /\ At(p, "allocate")
  /\ cache[Home[p]] = Nobody
  /\ job' = [job EXCEPT ![p].at = "candidates", ![p].seen = listed]
  /\ UNCHANGED <<globalVars, cache, linkVars, enters, binding, hostVars>>

\* Mutant of Candidates: the server the activity has is not preferred.
CandidatesAnew(seen) == seen

\* whom Allocate may answer: the server the activity has if discovery reports it,
\* else any, since the numbers of players it compares are what each last reported
Candidates(seen) == IF allocation \in seen THEN {allocation} ELSE seen

\* Allocate under its lock
Allocate(p) ==
  /\ At(p, "candidates")
  /\ \E h \in Candidates(job[p].seen) :
       /\ allocation' = h
       /\ moved' = (moved \/ allocation \notin job[p].seen \union {Nobody})
       /\ job' = [job EXCEPT ![p].at = "answer", ![p].host = h]
  /\ UNCHANGED <<listed, moves, cache, linkVars, enters, binding, hostVars>>

\* no candidate, or an answer that does not come back in time (when the caller has
\* given up, GlobalServer has allocated already or does not)
AllocateFails(p) ==
  /\ job[p].at \in {"candidates", "answer"}
  /\ Return(p)
  /\ UNCHANGED <<globalVars, cache, linkVars, enters, binding, hostVars>>

CacheAnswer(p) ==
  /\ At(p, "answer")
  /\ cache' = [cache EXCEPT ![Home[p]] = job[p].host]
  /\ Goto(p, "connect")
  /\ UNCHANGED <<globalVars, linkVars, enters, binding, hostVars>>

\* Mutant of Retries: another attempt however often it has failed.
RetriesForEver(p) == TRUE

\* one more attempt, when the first has used the cache
Retries(p) == job[p].cached /\ job[p].attempt = 1

\* the answer is of no use: its entry is removed, whoever has put it there
AttemptFails(p) ==
  /\ cache' = [cache EXCEPT ![Home[p]] = Nobody]
  /\ job' = [job EXCEPT ![p] = IF Retries(p) THEN NewAttempt(@.attempt + 1) ELSE NoJob]

\* ConnectToCrossRealmMapServer: the connection there is, of whatever age, or a new one
Connect(p) ==
  LET g == Home[p]
      h == job[p].host
  IN /\ At(p, "connect")
     /\ \/ /\ conn[g][h] # "none"
           /\ Goto(p, "ensure")
           /\ UNCHANGED <<cache, conn>>
        \/ /\ conn[g][h] = "none"
           /\ conn' = [conn EXCEPT ![g][h] = "fresh"]
           /\ job' = [job EXCEPT ![p].at = "ensure", ![p].dialled = TRUE]
           /\ UNCHANGED cache
        \/ /\ conn[g][h] = "none"
           /\ AttemptFails(p)
           /\ UNCHANGED conn
     /\ UNCHANGED <<globalVars, enters, round, rounds, own, binding, hostVars>>

-----------------------------------------------------------------------------
(* EnsureCrossServerInstance *)

\* the instance the activity is bound to, if it has not been reaped
HasInstance(h) == bound[h] \in alive[h]

\* Mutant of Ensure: a new instance for every realm that asks.
EnsureAnew(h) ==
  /\ made[h] < MaxInstance
  /\ made' = [made EXCEPT ![h] = @ + 1]
  /\ alive' = [alive EXCEPT ![h] = @ \union {made[h] + 1}]
  /\ bound' = [bound EXCEPT ![h] = made[h] + 1]

\* under crossActivityMu: found, or made and bound
Ensure(h) ==
  \/ /\ HasInstance(h)
     /\ UNCHANGED <<bound, alive, made>>
  \/ /\ ~ HasInstance(h)
     /\ made[h] < MaxInstance
     /\ made' = [made EXCEPT ![h] = @ + 1]
     /\ alive' = [alive EXCEPT ![h] = @ \union {made[h] + 1}]
     /\ bound' = [bound EXCEPT ![h] = made[h] + 1]

\* the request is answered in time
EnsureAnswered(p) ==
  LET h == job[p].host IN
  /\ At(p, "ensure")
  /\ conn[Home[p]][h] # "none"
  /\ Ensure(h)
  /\ job' = [job EXCEPT ![p].at = "attach", ![p].map = bound'[h]]
  /\ UNCHANGED <<globalVars, cache, linkVars, enters, binding, doomed, inside>>

\* it is not: not sent, not handled, or not answered in time
EnsureTimesOut(p) ==
  LET h == job[p].host IN
  /\ At(p, "ensure")
  /\ AttemptFails(p)
  /\ \/ UNCHANGED <<bound, alive, made>>
     \/ conn[Home[p]][h] # "none" /\ Ensure(h)
  /\ UNCHANGED <<globalVars, linkVars, enters, binding, doomed, inside>>

-----------------------------------------------------------------------------
(* AttachPlayerToCrossInstance and LeaveCrossServerMap, on the player's actor *)

\* HandlePlayerEnterMap: the instance is there, or the answer is an error
HandleEnter(h, p, i) ==
  inside' = [inside EXCEPT ![h][p] = IF i \in alive[h] THEN i ELSE @]

\* HandlePlayerLeaveMap: nothing is forgotten of a player whose map is gone
HandleLeave(h, p) ==
  inside' = [inside EXCEPT ![h][p] = IF @ \in alive[h] THEN 0 ELSE @]

\* a request over the connection of p's GameServer, handled or lost
Request(p, h, handle) ==
  IF conn[Home[p]][h] = "none" THEN UNCHANGED inside ELSE handle \/ UNCHANGED inside

\* bound before the request is sent, and unbound if it cannot be
Attach(p) ==
  LET h    == job[p].host
      sent == conn[Home[p]][h] # "none"
  IN /\ At(p, "attach")
     /\ Request(p, h, HandleEnter(h, p, job[p].map))
     /\ binding' = [binding EXCEPT ![p] = IF sent THEN h ELSE Nobody]
     /\ own' = [own EXCEPT ![p] = sent /\ job[p].dialled]
     /\ Return(p)
     /\ UNCHANGED <<globalVars, enters, cache, conn, round, rounds, bound, alive, doomed, made>>

\* unbound even if the leave cannot be sent
Leave(p) ==
  LET h == binding[p] IN
  /\ h # Nobody
  /\ Request(p, h, HandleLeave(h, p))
  /\ binding' = [binding EXCEPT ![p] = Nobody]
  /\ own' = [own EXCEPT ![p] = FALSE]
  /\ UNCHANGED <<globalVars, enters, cache, conn, round, rounds, job, bound, alive, doomed, made>>

-----------------------------------------------------------------------------
(* MapServer: the reaping of instances *)

Empty(h, i) == \A p \in Players : inside[h][p] # i

\* ReapEmpty looks at each instance and closes it a moment later; somebody may enter
\* in between
Judge(h, i) ==
  /\ i \in alive[h] \ doomed[h] /\ Empty(h, i)
  /\ doomed' = [doomed EXCEPT ![h] = @ \union {i}]
  /\ UNCHANGED <<globalVars, cache, linkVars, enters, job, binding, bound, alive, made, inside>>

Reap(h, i) ==
  /\ i \in doomed[h]
  /\ doomed' = [doomed EXCEPT ![h] = @ \ {i}]
  /\ alive' = [alive EXCEPT ![h] = @ \ {i}]
  /\ UNCHANGED <<globalVars, cache, linkVars, enters, job, binding, bound, made, inside>>

\* ReapCrossActivityBindings
ReapBinding(h) ==
  /\ bound[h] # 0 /\ ~ HasInstance(h)
  /\ bound' = [bound EXCEPT ![h] = 0]
  /\ UNCHANGED <<globalVars, cache, linkVars, enters, job, binding, alive, doomed, made, inside>>

-----------------------------------------------------------------------------
(* GameServer: the cache and the connections grow old *)

\* Mutant of Expire: an entry is good as long as its server answers.
ExpireNever(g) == FALSE /\ UNCHANGED vars

\* crossAllocCacheTTL is over
Expire(g) ==
  /\ cache[g] # Nobody
  /\ cache' = [cache EXCEPT ![g] = Nobody]
  /\ UNCHANGED <<globalVars, linkVars, enters, job, binding, hostVars>>

\* The grace (5 minutes) of a connection is over.  A resolution takes seconds, so not
\* before the one that has dialled it has ended, nor within a pass of the reaper (and
\* of no effect after the last pass of the bound).
Age(g, h) ==
  /\ conn[g][h] = "fresh" /\ g \in Reaping /\ rounds < MaxRound
  /\ round[g] = NoRound
  /\ \A p \in Players : Home[p] = g /\ job[p] # NoJob => ~ (job[p].dialled /\ job[p].host = h)
  /\ conn' = [conn EXCEPT ![g][h] = "old"]
  /\ UNCHANGED <<globalVars, enters, cache, round, rounds, own, job, binding, hostVars>>

BoundHosts(g) == {binding[p] : p \in {q \in Players : Home[q] = g}} \ {Nobody}

\* reapIdleCrossConnections: the servers players are bound to,
CollectInUse(g) ==
  /\ round[g] = NoRound
  /\ g \in Reaping /\ rounds < MaxRound /\ rounds' = rounds + 1
  /\ round' = [round EXCEPT ![g] = [step |-> "listing", inUse |-> BoundHosts(g), closing |-> {}]]
  /\ UNCHANGED <<globalVars, enters, cache, conn, own, job, binding, hostVars>>

\* Mutant of IdleCrossRealm: young connections too.
IdleCrossRealmAny(g) == {h \in Hosts : conn[g][h] # "none" /\ h \notin round[g].inUse}

\* then the old connections to other servers,
IdleCrossRealm(g) == {h \in Hosts : conn[g][h] = "old" /\ h \notin round[g].inUse}

Closing(S) == IF S = {} THEN NoRound ELSE [step |-> "closing", inUse |-> {}, closing |-> S]

ListIdle(g) ==
  /\ round[g].step = "listing"
  /\ round' = [round EXCEPT ![g] = Closing(IdleCrossRealm(g))]
  /\ UNCHANGED <<globalVars, enters, cache, conn, rounds, own, job, binding, hostVars>>

\* which are closed one by one
CloseIdle(g, h) ==
  /\ round[g].step = "closing" /\ h \in round[g].closing
  /\ round' = [round EXCEPT ![g] = Closing(@.closing \ {h})]
  /\ conn' = [conn EXCEPT ![g][h] = "none"]
  /\ UNCHANGED <<globalVars, enters, cache, rounds, own, job, binding, hostVars>>

-----------------------------------------------------------------------------
(* What goes on around *)

Moves == moves < MaxMove /\ moves' = moves + 1

\* discovery loses a MapServer, which need not be down, and finds it again
Unlist(h) ==
  /\ h \in listed \intersect Moving /\ Moves
  /\ listed' = listed \ {h}
  /\ UNCHANGED <<allocation, moved, cache, linkVars, enters, job, binding, hostVars>>

List(h) ==
  /\ h \notin listed
  /\ listed' = listed \union {h}
  /\ UNCHANGED <<allocation, moved, moves, cache, linkVars, enters, job, binding, hostVars>>

\* a MapServer starts again, and numbers its instances from the beginning
Restart(h) ==
  /\ h \in Moving /\ Moves
  /\ bound' = [bound EXCEPT ![h] = 0]
  /\ alive' = [alive EXCEPT ![h] = {}]
  /\ doomed' = [doomed EXCEPT ![h] = {}]
  /\ made' = [made EXCEPT ![h] = 0]
  /\ inside' = [inside EXCEPT ![h] = [p \in Players |-> 0]]
  /\ UNCHANGED <<listed, allocation, moved, cache, linkVars, enters, job, binding>>

\* Cleanup, when nobody has asked for the activity for long
Cleanup ==
  /\ allocation # Nobody /\ Moves
  /\ allocation' = Nobody
  /\ moved' = TRUE
  /\ UNCHANGED <<listed, cache, linkVars, enters, job, binding, hostVars>>

-----------------------------------------------------------------------------
(* Specification *)

ResolveStep(p) ==
  \/ UseCache(p) \/ Discover(p) \/ Allocate(p) \/ AllocateFails(p) \/ CacheAnswer(p)
  \/ Connect(p) \/ EnsureAnswered(p) \/ EnsureTimesOut(p) \/ Attach(p)

HostStep(h) ==
  \/ \E i \in Instances : Judge(h, i) \/ Reap(h, i)
  \/ ReapBinding(h)

ReaperStep(g) ==
  CollectInUse(g) \/ ListIdle(g) \/ \E h \in Hosts : CloseIdle(g, h)

Next ==
  \/ \E p \in Players : CrossEnter(p) \/ ResolveStep(p) \/ Leave(p)
  \/ \E h \in Hosts : HostStep(h) \/ Unlist(h) \/ List(h) \/ Restart(h)
  \/ \E g \in GameServers : Expire(g) \/ ReaperStep(g) \/ \E h \in Hosts : Age(g, h)
  \/ Cleanup

Spec == Init /\ [][Next]_vars

\* Calls return or time out, and what the clock does happens.
Fairness ==
  /\ \A p \in Players : WF_vars(ResolveStep(p))
  /\ \A g \in GameServers : WF_vars(Expire(g))

FairSpec == Spec /\ Fairness

-----------------------------------------------------------------------------
(* Properties *)

\* p is in an instance of the activity on h.
In(h, p) == inside[h][p] \in alive[h]

\* The players of all realms meet: on one MapServer they are in one instance, although
\* realms ask for it at the same time, late, and while it is reaped; and unless the
\* activity's allocation has been given up there is one MapServer.  (Allocate: every
\* realm has the same answer; EnsureCrossServerInstance: one instance for all)
Together ==
  \A h, k \in Hosts : \A p, q \in Players :
    In(h, p) /\ In(k, q) =>
      /\ ~ moved => h = k
      /\ h = k => inside[h][p] = inside[h][q]

\* The reaper closes no connection under the player it was made for: from the dial
\* to his leave it is there, although he is bound late and the pass has looked at the
\* bindings before.  (connection_manager.go, minAge)
KeptConnected ==
  \A p \in Players : own[p] => conn[Home[p]][binding[p]] # "none"

Agreed ==
  \A g \in GameServers : cache[g] \in {Nobody, allocation}

\* Once servers stay and the allocation is in use, all realms have the answer of
\* GlobalServer or none, for good: no entry outlives a change for ever.
\* (crossAllocCacheTTL, invalidateCrossAllocation)
Converges == <>[]Agreed
=============================================================================
