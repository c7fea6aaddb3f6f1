------------------------------ MODULE MapCombat -----------------------------
(***************************************************************************)
(* Attacks and pick-ups of the players of one GameServer on one map of one *)
(* MapServer, the answers, and the rewards that come back: MapService of   *)
(* GameServer/game/maps, TCPService of MapServer/net/service.              *)
(*                                                                         *)
(* A request has an id, waits in an outbox and may be sent more than once; *)
(* the MapServer drops ids it has seen.  An answer carries the id of its   *)
(* request, a reward (grant) an id of the MapServer's own, and GameServer  *)
(* keeps both in one inbox.  Rewards are sent once.  MapLink has the outbox *)
(* in detail; here a request may be sent while it is in the outbox.        *)
(***************************************************************************)
EXTENDS MapWorld, Sequences

CONSTANTS
  GameID, MapID,   \* ServerID in the configuration of the two processes
  MaxSeq,          \* bound: requests of the GameServer
  MaxGrant,        \* bound: grants of the MapServer
  MaxBreak,        \* bound: how often the connection breaks
  NoJob, NoTarget

ASSUME CombatAssumption ==
  MaxSeq \in Nat /\ MaxGrant \in Nat /\ MaxBreak \in Nat

VARIABLES
  seq, grants,  \* requestSeq of the two processes
  outbox,       \* requests in the outbox
  sending,      \* requests whose first send has not returned
  job,          \* job[p]: the goroutine in sendMapAttackRequest, if p has one
  local,        \* the players GameServer has on its own Map object
  online,       \* the players with an actor
  up, breaks,   \* the connection, and how often it broke
  link, back,   \* its two directions
  mapInbox, gameInbox,
  ran,          \* history: ran[i]: how often the map ran request i
  hits,         \* history: the attacks that hit
  told,         \* history: the successes reported to attackers
  earned, lost, \* history: rewards that were owed, rewards that were lost
  received,     \* history: received[o]: how often the reward for o was handed out
  answered,     \* history: the ids of the answers GameServer has taken
  repeated      \* history: the grants it took for repetitions

gameVars == <<seq, outbox, sending, job, local, online, gameInbox>>
wires == <<up, breaks, link, back>>
history == <<ran, hits, told, earned, lost, received, answered, repeated>>
vars == <<world, gameVars, grants, wires, mapInbox, history>>

\* ComposeRequestID: the server's id in the high bits, its sequence in the low
ComposeRequestID(server, n) == <<server, n>>

RequestID == {GameID} \X (1 .. MaxSeq)
GrantID == {MapID} \X (1 .. MaxGrant)

Targets == Players \union Objects \union {NoTarget}

Request == [id: RequestID, kind: {"attack", "pickup", "enter", "leave"},
            player: Players, target: Targets]
Answer == [type: {"answer"}, id: RequestID, player: Players, target: Targets,
           ok: BOOLEAN]
Grant == [type: {"item", "attr"}, id: GrantID, player: Players, object: Objects]

\* What waits: the request and the buffered channel of its result.
Result == {"none", "failed"} \union RequestID
Job == [id: RequestID, target: Targets, result: Result]

TypeOK ==
  /\ WorldTypeOK
  /\ seq \in 0 .. MaxSeq /\ grants \in 0 .. MaxGrant
  /\ outbox \subseteq Request /\ sending \subseteq Request
  /\ job \in [Players -> Job \union {NoJob}]
  /\ local \subseteq Players /\ online \subseteq Players
  /\ up \in BOOLEAN /\ breaks \in 0 .. MaxBreak
  /\ link \in Seq(Request) /\ back \in Seq(Answer \union Grant)
  /\ mapInbox \subseteq RequestID /\ gameInbox \subseteq RequestID \union GrantID
  /\ ran \in [RequestID -> Nat]
  /\ hits \subseteq [id: RequestID, player: Players, target: Targets]
  /\ told \subseteq [job: RequestID, answer: RequestID, player: Players, target: Targets]
  /\ earned \subseteq Objects /\ lost \subseteq Objects
  /\ received \in [Objects -> Nat]
  /\ answered \subseteq RequestID /\ repeated \subseteq Grant

\* Everybody is online and on the map; requests are counted from here.
Init ==
  /\ WorldInit
  /\ seq = 0 /\ grants = 0
  /\ outbox = {} /\ sending = {}
  /\ job = [p \in Players |-> NoJob]
  /\ local = Players /\ online = Players
  /\ up = TRUE /\ breaks = 0
  /\ link = <<>> /\ back = <<>>
  /\ mapInbox = {} /\ gameInbox = {}
  /\ ran = [i \in RequestID |-> 0]
  /\ hits = {} /\ told = {} /\ earned = {} /\ lost = {}
  /\ received = [o \in Objects |-> 0]
  /\ answered = {} /\ repeated = {}

-----------------------------------------------------------------------------
(* GameServer: requests *)

\* sendMapMessage up to the send
Submit(kind, p, t) ==
  LET m == [id |-> ComposeRequestID(GameID, seq + 1), kind |-> kind,
            player |-> p, target |-> t]
  IN  /\ seq < MaxSeq
      /\ seq' = seq + 1
      /\ outbox' = outbox \union {m}
      /\ sending' = sending \union {m}

\* HandlePlayerAttack of a player on the local Map, whatever he aims at:
\* registerPendingAttack, then the request.  His lane waits for the result, so
\* he has one attack at a time.
Attack(p, t) ==
  /\ p \in online \intersect local /\ job[p] = NoJob
  /\ t \in monsters \union here
  /\ Submit("attack", p, t)
  /\ job' = [job EXCEPT ![p] = [id |-> ComposeRequestID(GameID, seq'),
                                target |-> t, result |-> "none"]]
  /\ UNCHANGED <<local, online, gameInbox, world, grants, wires, mapInbox, history>>

\* MapService.Pickup: nobody waits.
Pickup(p) ==
  /\ p \in online
  /\ Submit("pickup", p, NoTarget)
  /\ UNCHANGED <<job, local, online, gameInbox, world, grants, wires, mapInbox, history>>

EnterMap(p) ==
  /\ p \in online \ local
  /\ local' = local \union {p}
  /\ Submit("enter", p, NoTarget)
  /\ UNCHANGED <<job, online, gameInbox, world, grants, wires, mapInbox, history>>

LeaveMap(p) ==
  /\ p \in online \intersect local
  /\ local' = local \ {p}
  /\ Submit("leave", p, NoTarget)
  /\ UNCHANGED <<job, online, gameInbox, world, grants, wires, mapInbox, history>>

\* LeaveGame of a player whose leave of the map has been sent, or was not.
LogOff(p) ==
  /\ p \in online \ local
  /\ \A m \in sending : m.kind = "leave" => m.player # p
  /\ online' = online \ {p}
  /\ UNCHANGED <<seq, outbox, sending, job, local, gameInbox, world, grants,
                 wires, mapInbox, history>>

LogIn(p) ==
  /\ p \notin online
  /\ online' = online \union {p}
  /\ UNCHANGED <<seq, outbox, sending, job, local, gameInbox, world, grants,
                 wires, mapInbox, history>>

Transmit(m) ==
  /\ up
  /\ link' = Append(link, m)
  /\ outbox' = outbox \ {m}

\* The first send returns, ...
Send(m) ==
  /\ m \in sending
  /\ Transmit(m)
  /\ sending' = sending \ {m}
  /\ UNCHANGED <<seq, job, local, online, gameInbox, world, grants, up, breaks,
                 back, mapInbox, history>>

\* ... or fails: the attacker is told so at once, the request stays in the outbox.
SendFails(m) ==
  /\ m \in sending /\ ~ up
  /\ sending' = sending \ {m}
  /\ job' = [p \in Players |-> IF job[p] # NoJob /\ job[p].id = m.id
                                 THEN NoJob ELSE job[p]]
  /\ UNCHANGED <<seq, outbox, local, online, gameInbox, world, grants, wires,
                 mapInbox, history>>

\* outboxRetryLoop sends what is in the outbox, also while its first send is on.
Resend(m) ==
  /\ m \in outbox
  /\ Transmit(m)
  /\ UNCHANGED <<seq, sending, job, local, online, gameInbox, world, grants, up,
                 breaks, back, mapInbox, history>>

\* maxOutboxRetry attempts were made.
GiveUp(m) ==
  /\ m \in outbox
  /\ outbox' = outbox \ {m}
  /\ UNCHANGED <<seq, sending, job, local, online, gameInbox, world, grants,
                 wires, mapInbox, history>>

\* sendMapAttackRequest returns the result, ...
Return(p) ==
  /\ job[p] # NoJob /\ job[p].result # "none"
  /\ told' = IF job[p].result = "failed" THEN told
             ELSE told \union {[job |-> job[p].id, answer |-> job[p].result,
                                player |-> p, target |-> job[p].target]}
  /\ job' = [job EXCEPT ![p] = NoJob]
  /\ UNCHANGED <<seq, outbox, sending, local, online, gameInbox, world, grants,
                 wires, mapInbox, ran, hits, earned, lost, received, answered,
                 repeated>>

\* ... or gives up after 1.5s.
TimeOut(p) ==
  /\ job[p] # NoJob
  /\ \A m \in sending : m.id # job[p].id
  /\ job' = [job EXCEPT ![p] = NoJob]
  /\ UNCHANGED <<seq, outbox, sending, local, online, gameInbox, world, grants,
                 wires, mapInbox, history>>

-----------------------------------------------------------------------------
(* MapServer: the handlers, one goroutine for the connection *)

Receive(m) == m = Head(link) /\ link' = Tail(link)

\* Mutant of TryAccept: nothing is taken for a repetition.
TryAcceptAll(m) == mapInbox' = mapInbox \union {m.id}

\* inbox.TryAccept
TryAccept(m) == m.id \notin mapInbox /\ mapInbox' = mapInbox \union {m.id}

\* A repetition is dropped, and not answered either.
DropRequest(m) ==
  /\ Receive(m)
  /\ m.kind # "leave" /\ m.id \in mapInbox
  /\ UNCHANGED <<world, gameVars, grants, up, breaks, back, mapInbox, history>>

AnswerTo(m, ok) == [type |-> "answer", id |-> m.id, player |-> m.player,
                    target |-> m.target, ok |-> ok]

\* Mutant of GrantTo: the number of the grant is not counted up.
GrantToFirst(p, o, type) == [type |-> type, id |-> ComposeRequestID(MapID, 1),
                             player |-> p, object |-> o]

\* notifyItemGrant, NotifyAttrGrant: every grant has a new id.
GrantTo(p, o, type) == [type |-> type, id |-> ComposeRequestID(MapID, grants + 1),
                        player |-> p, object |-> o]

Owe(o) == grants < MaxGrant /\ grants' = grants + 1 /\ earned' = earned \union {o}

Ran(m) == ran' = [ran EXCEPT ![m.id] = @ + 1]

Hit(m) == hits' = hits \union {[id |-> m.id, player |-> m.player, target |-> m.target]}

\* The attacker or the target is not on the map, or the target is out of range.
Miss(m) ==
  /\ back' = Append(back, AnswerTo(m, FALSE))
  /\ UNCHANGED <<world, grants, hits, earned>>

\* A hit leaves some health.
Wound(m) ==
  /\ m.player \in here /\ m.target \in monsters \union (here \ dead)
  /\ Hit(m)
  /\ back' = Append(back, AnswerTo(m, TRUE))
  /\ UNCHANGED <<world, grants, earned>>

\* A hit kills a monster: the reward goes out before the answer.
Slay(m, n) ==
  /\ m.player \in here
  /\ MonsterDies(m.target, n)
  /\ Hit(m)
  /\ Owe(m.target)
  /\ back' = Append(Append(back, GrantTo(m.player, m.target, "attr")), AnswerTo(m, TRUE))

\* A hit kills a player; so does every hit of a dead one.
Fell(m) ==
  /\ m.player \in here
  /\ PlayerDies(m.target)
  /\ Hit(m)
  /\ back' = Append(back, AnswerTo(m, TRUE))
  /\ UNCHANGED <<grants, earned>>

\* handleMapAttackRequest
HandleAttack(m) ==
  /\ Receive(m) /\ m.kind = "attack" /\ TryAccept(m)
  /\ Miss(m) \/ Wound(m) \/ (\E n \in 0 .. MaxDrop : Slay(m, n)) \/ Fell(m)
  /\ Ran(m)
  /\ UNCHANGED <<gameVars, up, breaks, told, lost, received,
                 answered, repeated>>

\* PickupNearest finds an item: it is taken off the map, then granted.
Find(m, o) ==
  /\ m.player \in here
  /\ Take(o)
  /\ Owe(o)
  /\ back' = Append(back, GrantTo(m.player, o, "item"))

\* handleMapPickupRequest; a pick-up that finds nothing is not answered.
HandlePickup(m) ==
  /\ Receive(m) /\ m.kind = "pickup" /\ TryAccept(m)
  /\ (\E o \in items : Find(m, o)) \/ UNCHANGED <<world, grants, earned, back>>
  /\ Ran(m)
  /\ UNCHANGED <<gameVars, up, breaks, hits, told, lost, received,
                 answered, repeated>>

HandleEnter(m) ==
  /\ Receive(m) /\ m.kind = "enter" /\ TryAccept(m)
  /\ Appear(m.player)
  /\ Ran(m)
  /\ UNCHANGED <<gameVars, grants, up, breaks, back, hits, told, earned, lost,
                 received, answered, repeated>>

\* handleMapLeaveRequest takes repetitions too.
HandleLeave(m) ==
  /\ Receive(m) /\ m.kind = "leave"
  /\ Disappear(m.player)
  /\ UNCHANGED <<gameVars, grants, up, breaks, back, mapInbox, history>>

-----------------------------------------------------------------------------
(* GameServer: what comes back, one goroutine for the connection *)

Arrive(r) == r = Head(back) /\ back' = Tail(back)

\* Answers and grants share one inbox.
Known(r) == r.id \in gameInbox

Note(r) == gameInbox' = gameInbox \union {r.id}

DropReply(r) ==
  /\ Arrive(r) /\ Known(r)
  /\ repeated' = IF r.type = "answer" THEN repeated ELSE repeated \union {r}
  /\ UNCHANGED <<world, gameVars, grants, up, breaks, link, mapInbox, ran, hits,
                 told, earned, lost, received, answered>>

\* Mutant of Waits: the key of a pending attack is its target alone.
WaitsForTarget(p, a) == job[p] # NoJob /\ (job[p].id = a.id \/ job[p].target = a.target)

\* Who gets an answer: the attack with its id, else the one of the same player
\* on the same target.  As a player has one attack at a time, it is his.
Waits(p, a) ==
  /\ p = a.player /\ job[p] # NoJob
  /\ job[p].id = a.id \/ job[p].target = a.target

\* HandleMapAttackResponse; the channel has room for one.
HandleAnswer(a) ==
  /\ Arrive(a) /\ a.type = "answer"
  /\ ~ Known(a) /\ Note(a)
  /\ job' = [p \in Players |-> IF Waits(p, a) /\ job[p].result = "none"
               THEN [job[p] EXCEPT !.result = IF a.ok THEN a.id ELSE "failed"]
               ELSE job[p]]
  /\ answered' = answered \union {a.id}
  /\ UNCHANGED <<seq, outbox, sending, local, online, world, grants, up, breaks,
                 link, mapInbox, ran, hits, told, earned, lost, received, repeated>>

\* HandleItemGrant, HandleAttrGrant and the actor's handlers: a bag may be full,
\* and RouteMessage fails for a player who is not online.
HandleGrant(g) ==
  /\ Arrive(g) /\ g.type # "answer"
  /\ ~ Known(g) /\ Note(g)
  /\ \/ /\ g.player \in online
        /\ received' = [received EXCEPT ![g.object] = @ + 1]
        /\ UNCHANGED lost
     \/ /\ g.player \in online => g.type = "item"
        /\ lost' = lost \union {g.object}
        /\ UNCHANGED received
  /\ UNCHANGED <<seq, outbox, sending, job, local, online, world, grants, up,
                 breaks, link, mapInbox, ran, hits, told, earned, answered, repeated>>

-----------------------------------------------------------------------------
(* The connection *)

InFlight == {back[i].object : i \in {j \in DOMAIN back : back[j].type # "answer"}}

Break ==
  /\ up /\ breaks < MaxBreak
  /\ up' = FALSE /\ breaks' = breaks + 1
  /\ link' = <<>> /\ back' = <<>>
  /\ lost' = lost \union InFlight
  /\ UNCHANGED <<world, gameVars, grants, mapInbox, ran, hits, told, earned, received,
                 answered, repeated>>

Reconnect ==
  /\ ~ up /\ up' = TRUE
  /\ UNCHANGED <<world, gameVars, grants, breaks, link, back, mapInbox, history>>

-----------------------------------------------------------------------------
Client(p) ==
  \/ \E t \in monsters \union here : Attack(p, t)
  \/ Pickup(p) \/ EnterMap(p) \/ LeaveMap(p) \/ LogOff(p) \/ LogIn(p)
  \/ Return(p) \/ TimeOut(p)

Sends == \/ \E m \in sending : Send(m) \/ SendFails(m)
         \/ \E m \in outbox : Resend(m) \/ GiveUp(m)

HandleRequest ==
  /\ link # <<>>
  /\ LET m == Head(link)
     IN  \/ DropRequest(m) \/ HandleAttack(m) \/ HandlePickup(m)
         \/ HandleEnter(m) \/ HandleLeave(m)

HandleReply ==
  /\ back # <<>>
  /\ LET r == Head(back) IN DropReply(r) \/ HandleAnswer(r) \/ HandleGrant(r)

MapLives == Life /\ UNCHANGED <<gameVars, grants, wires, mapInbox, history>>

Next ==
  \/ \E p \in Players : Client(p)
  \/ Sends \/ HandleRequest \/ HandleReply \/ MapLives \/ Break \/ Reconnect

Spec == Init /\ [][Next]_vars

-----------------------------------------------------------------------------
(* Requests are sent more than once, answers come late, the connection breaks *)
(* under what was granted, and attacker and target leave, die and come back.  *)

\* A request is run by the map at most once, however often it is sent: no
\* double damage, no second item (tcp_service.go:390, 446).
AppliedOnce == \A i \in RequestID : ran[i] <= 1

\* What an attacker is told is a hit of his on this target, and no other report
\* is of the same hit, although an answer may go to a later attack than the one
\* it answers (map_service.go:691).
ToldTrue ==
  /\ \A r \in told : [id |-> r.answer, player |-> r.player, target |-> r.target] \in hits
  /\ \A r, q \in told : r.answer = q.answer => r = q

\* A monster pays once and an item lands in one bag, whoever hits or grabs at
\* the same time (combat_handler.go:94, map_pickup.go:24).
RewardedOnce ==
  \A o \in Objects : /\ received[o] <= 1
                     /\ received[o] = 1 => o \notin lost \union InFlight

\* A reward that is owed is on its way, has been handed out, was lost to a
\* broken connection, a full bag or a player who has gone, or was taken for a
\* repetition; and that happens only to a grant whose id GameServer has met as
\* the id of a request of its own, never for another grant, a late answer or a
\* break (map_service.go:682, 785, 806).
RewardsAccounted ==
  /\ \A o \in earned : \/ o \in lost \union InFlight
                        \/ received[o] > 0
                        \/ \E g \in repeated : g.object = o
  /\ \A g \in repeated : g.id \in answered

\* "requestID must be unique in the whole cluster" (section 3.6 of the contract of
\* the protocols in docs; envelope.go:43): no reward is dropped as a repetition.  It
\* holds while the two ServerIDs differ, and fails for the configurations shipped
\* for a single realm, which have 101 in both.
RewardsKept == \A o \in earned : o \in lost \union InFlight \/ received[o] > 0
=============================================================================
