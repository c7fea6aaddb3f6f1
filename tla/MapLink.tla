------------------------------- MODULE MapLink -------------------------------
(***************************************************************************)
(* How a GameServer puts its players into maps that live on MapServers     *)
(* (GameServer/game/maps/map_service.go and cross_service.go, MapServer's  *)
(* tcp_service.go and map_manager.go).                                     *)
(*                                                                         *)
(* The actor of a player enters and leaves maps of its own realm, which    *)
(* are addressed by map id over the realm's connection, and the instance   *)
(* of a cross-server activity, which is addressed by server over a         *)
(* connection of its own.  Every request first goes into the outbox; a     *)
(* background loop sends again what is still there.  The MapServer drops   *)
(* an enter whose request id it has seen and applies every leave.          *)
(*                                                                         *)
(* Three goroutines act for a player: the lane of his client, which waits  *)
(* for the actor to do the map operations and runs LeaveGame itself,       *)
(* the one that resolves a cross-server enter and hands it to the actor    *)
(* when it has an answer, and the retry loop.                              *)
(***************************************************************************)
EXTENDS Naturals, Sequences, FiniteSets, Functions

CONSTANTS
  GameServers, MapServers, Players, Maps,
  Realm,        \* Realm[p]: the GameServer of player p
  Home,         \* Home[g]: the MapServer of realm g
  MapsAt,       \* MapsAt[s]: the map ids that exist on s, instances included
  Configured,   \* the map ids every GameServer has a local Map object for
  Instances,    \* <<s, m>>: m is the id of the activity instance on s
  Nobody,       \* no map, no server
  MaxSeq,       \* bound: requests one GameServer process makes
  MaxAgain,     \* bound: those of one started after a crash (which comes while the
                \* process has as many of its own left)
  MaxRetry,     \* maxOutboxRetry
  MaxRestart,   \* bound: crashes of a GameServer
  Faulty,       \* the connections a send may fail on: "home", "cross"
  Lossy,        \* TRUE: a connection may break
  Polite,       \* TRUE: clients name the map they are in and enter from none
  Racing        \* TRUE: a cross enter may be answered during a logout

ASSUME MapLinkAssumption ==
  /\ Realm \in [Players -> GameServers]
  /\ Home \in [GameServers -> MapServers]
  /\ MapsAt \in [MapServers -> SUBSET Maps]
  /\ Configured \subseteq Maps
  /\ Instances \subseteq MapServers \X Maps
  /\ Nobody \notin Maps /\ Nobody \notin MapServers
  /\ MaxSeq \in Nat /\ MaxRetry \in Nat \ {0} /\ MaxRestart \in Nat
  /\ MaxAgain \in Nat
  /\ Faulty \subseteq {"home", "cross"} /\ Lossy \in BOOLEAN /\ Polite \in BOOLEAN
  /\ Racing \in BOOLEAN

VARIABLES
  online,       \* the players that have an actor
  leaving,      \* the players LeaveGame is running for
  seq,          \* seq[g]: requestSeq of the process of g
  current,      \* current[p]: CurrentMapID of the player actor
  binding,      \* binding[p]: crossBindings
  local,        \* local[g]: who is on which Map object of g
  sending,      \* the messages in sendMapMessage between Add and the send
  outbox,       \* outbox[g]: the pending entries
  due,          \* due[g]: what is left of the retry loop's ListPending snapshot
  dead,         \* the dead letters
  link,         \* link[g, via, s]: the packets of one connection, in order
  inbox,        \* inbox[s]: the request ids MapServer s has accepted
  present,      \* present[s]: who is in which map of s
  where,        \* where[s][p]: playerMap of the MapManager of s
  asked,        \* history: who was ever to enter which map of which server
  entered,      \* history: the enters the MapServers applied
  astray,       \* history: <<p, s>>: a request of p to s was overtaken, lost or
                \* refused, or p's GameServer has crashed
  restarts

lobby == <<online, leaving>>
player == <<current, binding>>
queues == <<outbox, due, dead>>
msVars == <<inbox, present, where, entered>>
gsVars == <<lobby, player, queues, seq, local, sending, asked, astray>>
vars == <<gsVars, msVars, link, restarts>>

\* ComposeRequestID: the sender's id in the high bits, its sequence in the low
RequestID == GameServers \X (1 .. MaxSeq)

\* Mutant of ComposeRequestID: the bare sequence of the process.
BareRequestID(g, n) == <<CHOOSE h \in GameServers : TRUE, n>>

ComposeRequestID(g, n) == <<g, n>>

Vias == {"home", "cross"}

\* `by` is the goroutine the request belongs to: the client's lane or the one
\* of a cross enter.
Message == [id: RequestID, from: GameServers, by: {"lane", "attach"},
            kind: {"enter", "leave"}, player: Players, map: Maps,
            via: Vias, server: MapServers]

Entry == [msg: Message, attempts: 1 .. MaxRetry]

Connection == GameServers \X Vias \X MapServers

TypeOK ==
  /\ online \subseteq Players /\ leaving \subseteq online
  /\ seq \in [GameServers -> 0 .. MaxSeq]
  /\ current \in [Players -> Maps \union {Nobody}]
  /\ binding \in [Players -> MapServers \union {Nobody}]
  /\ local \in [GameServers -> SUBSET (Players \X Maps)]
  /\ sending \subseteq Message
  /\ outbox \in [GameServers -> SUBSET Entry]
  /\ due \in [GameServers -> SUBSET Entry]
  /\ dead \subseteq Message
  /\ link \in [Connection -> Seq(Message)]
  /\ inbox \in [MapServers -> SUBSET RequestID]
  /\ present \in [MapServers -> SUBSET (Players \X Maps)]
  /\ where \in [MapServers -> [Players -> Maps \union {Nobody}]]
  /\ asked \subseteq (Players \X MapServers \X Maps)
  /\ entered \subseteq [server: MapServers, id: RequestID, player: Players, map: Maps]
  /\ astray \subseteq (Players \X MapServers)
  /\ restarts \in 0 .. MaxRestart

Init ==
  /\ online = {} /\ leaving = {}
  /\ seq = [g \in GameServers |-> 0]
  /\ current = [p \in Players |-> Nobody]
  /\ binding = [p \in Players |-> Nobody]
  /\ local = [g \in GameServers |-> {}]
  /\ sending = {} /\ dead = {}
  /\ outbox = [g \in GameServers |-> {}]
  /\ due = [g \in GameServers |-> {}]
  /\ link = [c \in Connection |-> <<>>]
  /\ inbox = [s \in MapServers |-> {}]
  /\ present = [s \in MapServers |-> {}]
  /\ where = [s \in MapServers |-> [p \in Players |-> Nobody]]
  /\ asked = {} /\ entered = {} /\ astray = {}
  /\ restarts = 0

-----------------------------------------------------------------------------
(* GameServer: the requests of a player *)

Sending(p, by) == \E m \in sending : m.player = p /\ m.by = by

\* The actor handles one message at a time; the client's lane waits for it.
ClientMayAct(p) ==
  /\ p \in online \ leaving
  /\ ~ Sending(p, "lane") /\ ~ Sending(p, "attach")

\* the connection a message goes out on
Route(msg) == <<msg.from, msg.via, msg.server>>

\* msg is made while an earlier request of its player to that server is still
\* to be repeated, or on its way over the other connection to it: nothing
\* keeps the two in order.
Overtakes(msg) ==
  \/ \E e \in outbox[msg.from] \union due[msg.from] :
       e.msg.player = msg.player /\ e.msg.server = msg.server
  \/ \E c \in Connection \ {Route(msg)} :
       c[3] = msg.server /\ \E i \in 1 .. Len(link[c]) : link[c][i].player = msg.player

\* sendMapMessage up to the send: who is bound to a server is addressed by that
\* server, everybody else by map id; the message is in the outbox before it is
\* sent.  `bound` is the binding at that moment.
Submit(p, by, kind, m, bound) ==
  LET g   == Realm[p]
      msg == [id |-> ComposeRequestID(g, seq[g] + 1), from |-> g, by |-> by,
              kind |-> kind, player |-> p, map |-> m,
              via    |-> IF bound = Nobody THEN "home" ELSE "cross",
              server |-> IF bound = Nobody THEN Home[g] ELSE bound]
  IN  /\ seq[g] < MaxSeq /\ (restarts > 0 => seq[g] < MaxAgain)
      /\ seq' = [seq EXCEPT ![g] = @ + 1]
      /\ outbox' = [outbox EXCEPT ![g] = @ \union {[msg |-> msg, attempts |-> 1]}]
      /\ sending' = sending \union {msg}
      /\ astray' = IF Overtakes(msg) THEN astray \union {<<p, msg.server>>} ELSE astray

\* LoginService.EnterGame: a new actor.
EnterGame(p) ==
  /\ p \notin online
  /\ ~ Sending(p, "attach")
  /\ online' = online \union {p}
  /\ UNCHANGED <<leaving, player, queues, seq, local, sending, asked, astray,
                 link, restarts, msVars>>

\* HandlePlayerEnterMap: the local Map first; whether the request reaches the
\* MapServer is not waited for.
EnterMap(p, m) ==
  /\ ClientMayAct(p) /\ m \in Configured
  /\ Polite => current[p] = Nobody
  /\ local' = [local EXCEPT ![Realm[p]] = @ \union {<<p, m>>}]
  /\ asked' = asked \union {<<p, Home[Realm[p]], m>>}
  /\ Submit(p, "lane", "enter", m, binding[p])
  /\ current' = [current EXCEPT ![p] = m]
  /\ UNCHANGED <<lobby, binding, due, dead, link, restarts, msVars>>

\* AttachPlayerToCrossInstance, handed to the actor by a goroutine of its own
\* (crossInFlight: one per player) once the instance is resolved: bound first,
\* then the enter is sent.
AttachCross(p, s, m) ==
  /\ p \in online /\ <<s, m>> \in Instances
  /\ ~ Sending(p, "attach")
  /\ p \in leaving \/ ClientMayAct(p)
  /\ p \in leaving => Racing
  /\ Polite => \A i \in Instances : current[p] # i[2]
  /\ binding' = [binding EXCEPT ![p] = s]
  /\ asked' = asked \union {<<p, s, m>>}
  /\ Submit(p, "attach", "enter", m, s)
  /\ UNCHANGED <<lobby, current, local, due, dead, link, restarts, msVars>>

\* HandlePlayerLeaveMap of a player in no instance: the local Map, then the
\* request; of a map this server does not know, an error and nothing else.
LeaveHome(p, m) ==
  /\ binding[p] = Nobody
  /\ IF m \in Configured
       THEN /\ local' = [local EXCEPT ![Realm[p]] = @ \ {<<p, m>>}]
            /\ Submit(p, "lane", "leave", m, Nobody)
       ELSE UNCHANGED <<local, seq, outbox, sending, astray>>
  /\ UNCHANGED binding

\* Mutant of LeaveCross: unbound before the leave is sent.
LeaveCrossUnbound(p, m) ==
  /\ binding[p] # Nobody
  /\ Submit(p, "lane", "leave", m, Nobody)
  /\ binding' = [binding EXCEPT ![p] = Nobody]
  /\ UNCHANGED local

\* LeaveCrossServerMap: the leave goes to the server the player is bound to,
\* and only then, sent or not, is he unbound (Sent, SendFails).
LeaveCross(p, m) ==
  /\ binding[p] # Nobody
  /\ Submit(p, "lane", "leave", m, binding[p])
  /\ UNCHANGED <<binding, local>>

\* handleNetMapLeave: CurrentMapID is cleared whatever the outcome.
LeaveMap(p, m) ==
  /\ ClientMayAct(p)
  /\ Polite => m = current[p]
  /\ LeaveHome(p, m) \/ LeaveCross(p, m)
  /\ current' = [current EXCEPT ![p] = Nobody]
  /\ UNCHANGED <<lobby, due, dead, asked, link, restarts, msVars>>

\* LoginService.LeaveGame, run by the client's lane and not by the
\* actor: it leaves the current map, if there is one, ...
LeaveGame(p) ==
  /\ p \in online \ leaving
  /\ Racing \/ ClientMayAct(p)
  /\ ~ Sending(p, "lane")
  /\ leaving' = leaving \union {p}
  /\ IF current[p] = Nobody
     THEN UNCHANGED <<binding, local, seq, outbox, sending, astray>>
     ELSE LeaveHome(p, current[p]) \/ LeaveCross(p, current[p])
  /\ UNCHANGED <<online, current, due, dead, asked, link, restarts, msVars>>

\* ... and, that request sent and the player saved, removes the actor.
RemovePlayer(p) ==
  /\ p \in leaving
  /\ ~ Sending(p, "lane")
  /\ leaving' = leaving \ {p}
  /\ online' = online \ {p}
  /\ current' = [current EXCEPT ![p] = Nobody]
  /\ UNCHANGED <<binding, queues, seq, local, sending, asked, astray, link,
                 restarts, msVars>>

Unbind(msg) == binding' = [binding EXCEPT ![msg.player] = Nobody]

\* a leave over a binding: LeaveCrossServerMap
IsCrossLeave(msg) == msg.kind = "leave" /\ msg.via = "cross"

Transmit(c, msg) == link' = [link EXCEPT ![c] = Append(@, msg)]

\* outbox.MarkSent
MarkSent(g, i) == outbox' = [outbox EXCEPT ![g] = {e \in @ : e.msg.id # i}]

\* outbox.MarkAttempt of a failed send
MarkAttempt(g, i) ==
  outbox' = [outbox EXCEPT ![g] =
     {IF e.msg.id = i /\ e.attempts < MaxRetry
        THEN [e EXCEPT !.attempts = @ + 1] ELSE e : e \in @}]

\* The send succeeds, and what remains of AttachPlayerToCrossInstance or
\* LeaveCrossServerMap runs with it.
Sent(msg) ==
  /\ Transmit(Route(msg), msg)
  /\ MarkSent(msg.from, msg.id)
  /\ sending' = sending \ {msg}
  /\ IF IsCrossLeave(msg) THEN Unbind(msg) ELSE UNCHANGED binding
  /\ IF msg.by = "attach" /\ msg.player \in online
       THEN current' = [current EXCEPT ![msg.player] = msg.map]
       ELSE UNCHANGED current
  /\ UNCHANGED <<lobby, due, dead, seq, local, asked, astray, restarts, msVars>>

\* A player who could not be attached to an instance.
Refused(msg) == IF msg.by = "attach" THEN {<<msg.player, msg.server>>} ELSE {}

\* Mutant of SendFails: the message leaves the outbox with the failed send.
SendFailsForgotten(msg) ==
  /\ msg.via \in Faulty
  /\ MarkSent(msg.from, msg.id)
  /\ sending' = sending \ {msg}
  /\ IF IsCrossLeave(msg) \/ msg.by = "attach" THEN Unbind(msg) ELSE UNCHANGED binding
  /\ astray' = astray \union Refused(msg)
  /\ UNCHANGED <<lobby, current, due, dead, seq, local, asked, link, restarts, msVars>>

\* The send fails: the message stays in the outbox, a cross enter or leave
\* unbinds the player, a home one is only logged.
SendFails(msg) ==
  /\ msg.via \in Faulty
  /\ MarkAttempt(msg.from, msg.id)
  /\ sending' = sending \ {msg}
  /\ IF IsCrossLeave(msg) \/ msg.by = "attach" THEN Unbind(msg) ELSE UNCHANGED binding
  /\ astray' = astray \union Refused(msg)
  /\ UNCHANGED <<lobby, current, due, dead, seq, local, asked, link, restarts, msVars>>

-----------------------------------------------------------------------------
(* GameServer: the retry loop *)

Pending(g) == {e.msg.id : e \in outbox[g]}

\* One tick: ListPending, a snapshot, possibly with a message an actor is
\* sending just now.
Tick(g) ==
  /\ due[g] = {} /\ outbox[g] # {}
  /\ due' = [due EXCEPT ![g] = outbox[g]]
  /\ UNCHANGED <<lobby, player, outbox, dead, seq, local, sending, asked, astray,
                 link, restarts, msVars>>

Done(g, e) == due' = [due EXCEPT ![g] = @ \ {e}]

\* Attempts of the snapshot at the limit: MarkDeadLetter.
GiveUp(g, e) ==
  /\ e \in due[g] /\ e.attempts >= MaxRetry
  /\ Done(g, e)
  /\ dead' = IF e.msg.id \in Pending(g) THEN dead \union {e.msg} ELSE dead
  /\ MarkSent(g, e.msg.id)
  /\ UNCHANGED <<lobby, player, seq, local, sending, asked, astray, link, restarts,
                 msVars>>

\* Mutant of Resend: everything is sent again by map id.
ResendByMap(g, e) ==
  /\ e \in due[g] /\ e.attempts < MaxRetry
  /\ Done(g, e)
  /\ Transmit(<<g, "home", Home[g]>>, e.msg)
  /\ MarkSent(g, e.msg.id)
  /\ UNCHANGED <<lobby, player, dead, seq, local, sending, asked, astray, restarts,
                 msVars>>

\* Sent again to the recorded server or by map id, although an actor may have
\* sent it since the snapshot.
Resend(g, e) ==
  /\ e \in due[g] /\ e.attempts < MaxRetry
  /\ Done(g, e)
  /\ Transmit(Route(e.msg), e.msg)
  /\ MarkSent(g, e.msg.id)
  /\ UNCHANGED <<lobby, player, dead, seq, local, sending, asked, astray, restarts,
                 msVars>>

\* Mutant of ResendFails: a failed retry is not counted.
ResendUncounted(g, e) ==
  /\ e.msg.via \in Faulty
  /\ e \in due[g] /\ e.attempts < MaxRetry
  /\ Done(g, e)
  /\ UNCHANGED <<lobby, player, outbox, dead, seq, local, sending, asked, astray,
                 link, restarts, msVars>>

ResendFails(g, e) ==
  /\ e.msg.via \in Faulty
  /\ e \in due[g] /\ e.attempts < MaxRetry
  /\ Done(g, e)
  /\ MarkAttempt(g, e.msg.id)
  /\ UNCHANGED <<lobby, player, dead, seq, local, sending, asked, astray, link,
                 restarts, msVars>>

RetryStep(g, e) == GiveUp(g, e) \/ Resend(g, e) \/ ResendFails(g, e)

\* The process dies and comes back: memory, the outbox and requestSeq included,
\* is gone; what was on the wire still arrives.
Restart(g) ==
  LET mine == {p \in Players : Realm[p] = g}
      Cleared(f) == [p \in Players |-> IF p \in mine THEN Nobody ELSE f[p]]
  IN  /\ restarts < MaxRestart /\ seq[g] + MaxAgain <= MaxSeq
      /\ restarts' = restarts + 1
      /\ online' = online \ mine
      /\ leaving' = leaving \ mine
      /\ seq' = [seq EXCEPT ![g] = 0]
      /\ current' = Cleared(current)
      /\ binding' = Cleared(binding)
      /\ local' = [local EXCEPT ![g] = {}]
      /\ sending' = {m \in sending : m.from # g}
      /\ outbox' = [outbox EXCEPT ![g] = {}]
      /\ due' = [due EXCEPT ![g] = {}]
      /\ dead' = {m \in dead : m.from # g}
      /\ astray' = astray \union (mine \X MapServers)
      /\ UNCHANGED <<asked, link, msVars>>

-----------------------------------------------------------------------------
(* MapServer: tcp_service.go over map_manager.go *)

\* The packets of a connection are handled in order, those of different
\* connections in any order.
Take(c) == link[c] # <<>> /\ link' = [link EXCEPT ![c] = Tail(@)]

\* A connection breaks (and is made again): what Send had accepted is lost, and
\* the outbox no longer has it.
Break(c) ==
  /\ Lossy /\ link[c] # <<>>
  /\ link' = [link EXCEPT ![c] = <<>>]
  /\ astray' = astray \union {<<m.player, m.server>> : m \in Range(link[c])}
  /\ UNCHANGED <<lobby, player, queues, seq, local, sending, asked, msVars, restarts>>

\* AddPlayer and setPlayerMap of a map that exists
Land(s, msg) ==
  IF msg.map \notin MapsAt[s] THEN UNCHANGED <<present, where, entered>>
  ELSE /\ present' = [present EXCEPT ![s] = @ \union {<<msg.player, msg.map>>}]
       /\ where' = [where EXCEPT ![s][msg.player] = msg.map]
       /\ entered' = entered \union
            {[server |-> s, id |-> msg.id, player |-> msg.player, map |-> msg.map]}

\* Mutant of HandleEnter: no request deduplication.
HandleEnterAgain(c, msg) ==
  /\ msg.kind = "enter"
  /\ inbox' = [inbox EXCEPT ![c[3]] = @ \union {msg.id}]
  /\ Land(c[3], msg)

\* handleMapEnterRequest: a new request id is accepted, also when the map does
\* not exist; a known one is dropped without an answer.
HandleEnter(c, msg) ==
  /\ msg.kind = "enter"
  /\ IF msg.id \in inbox[c[3]] THEN UNCHANGED msVars
     ELSE /\ inbox' = [inbox EXCEPT ![c[3]] = @ \union {msg.id}]
          /\ Land(c[3], msg)

\* resolveMap: the map the player is recorded in, or the one he names
Resolve(s, p, m) == IF where[s][p] # Nobody THEN where[s][p] ELSE m

\* handleMapLeaveRequest, never deduplicated.
HandleLeave(c, msg) ==
  LET s == c[3]
      m == Resolve(s, msg.player, msg.map)
  IN  /\ msg.kind = "leave"
      /\ IF m \notin MapsAt[s] THEN UNCHANGED <<present, where>>
         ELSE /\ present' = [present EXCEPT ![s] = @ \ {<<msg.player, m>>}]
              /\ where' = [where EXCEPT ![s][msg.player] = Nobody]
      /\ UNCHANGED <<inbox, entered>>

Receive(c) ==
  /\ Take(c)
  /\ HandleEnter(c, Head(link[c])) \/ HandleLeave(c, Head(link[c]))
  /\ UNCHANGED <<gsVars, restarts>>

\* every message somebody may still send or receive
Outstanding ==
  sending \union (UNION {{e.msg : e \in outbox[g] \union due[g]} : g \in GameServers})
          \union (UNION {Range(link[c]) : c \in Connection})

\* inbox.Cleanup drops the ids accepted more than five minutes ago.  (Bound on
\* time: a message is retried and delivered within them.)
CleanupInbox(s) ==
  LET kept == {i \in inbox[s] : \E m \in Outstanding : m.id = i}
  IN  /\ inbox[s] # kept
      /\ inbox' = [inbox EXCEPT ![s] = kept]
      /\ UNCHANGED <<gsVars, link, restarts, present, where, entered>>

-----------------------------------------------------------------------------
ClientStep(p) ==
  \/ EnterGame(p) \/ LeaveGame(p) \/ RemovePlayer(p)
  \/ \E m \in Maps : EnterMap(p, m) \/ LeaveMap(p, m)
  \/ \E i \in Instances : AttachCross(p, i[1], i[2])

SendStep(msg) == Sent(msg) \/ SendFails(msg)

Retry(g) == Tick(g) \/ \E e \in due[g] : RetryStep(g, e)

Next ==
  \/ \E p \in Players : ClientStep(p)
  \/ \E msg \in sending : SendStep(msg)
  \/ \E g \in GameServers : Retry(g) \/ Restart(g)
  \/ \E c \in Connection : Receive(c) \/ Break(c)
  \/ \E s \in MapServers : CleanupInbox(s)

Spec == Init /\ [][Next]_vars

\* A send returns, the retry ticker fires and its loop goes on.  Nothing is
\* assumed of clients, and a send may fail every time.
Fairness ==
  /\ WF_vars(\E msg \in sending : SendStep(msg))
  /\ \A g \in GameServers : WF_vars(Retry(g))

FairSpec == Spec /\ Fairness

-----------------------------------------------------------------------------
(* Properties *)

\* A player appears in a map of a MapServer only by an enter request that was
\* never applied before: a request repeated by the retry loop, before or after
\* the player left, puts him nowhere.
AppearsByNewRequest ==
  [][\A s \in MapServers :
       ~ present'[s] \subseteq present[s] => entered' # entered]_vars

\* An enter that is on the wire and whose id the MapServer already knows, the
\* one it will drop as a repetition, has been applied: no request of another
\* server or another player is taken for a repetition of it.
EnterNotSwallowed ==
  \A c \in Connection : \A i \in 1 .. Len(link[c]) :
    LET msg == link[c][i]
    IN  (msg.kind = "enter" /\ msg.id \in inbox[c[3]] /\ msg.map \in MapsAt[c[3]])
          => [server |-> c[3], id |-> msg.id, player |-> msg.player,
              map |-> msg.map] \in entered

\* Whoever is in a map of a MapServer once asked to enter that map on that
\* server: neither a retry nor a left-over binding sends him to a map of the
\* same id elsewhere.
StaysOnTarget ==
  \A s \in MapServers : \A pm \in present[s] : <<pm[1], s, pm[2]>> \in asked

\* No request of p to s is being sent, pending, on the wire or given up.
AtRest(p, s) ==
  \A m \in Outstanding \union dead : m.player # p \/ m.server # s

\* Whenever no request of a player to his realm's MapServer is under way, none
\* was given up, overtaken by his next one, lost or refused, and his GameServer
\* has not crashed, that GameServer and the MapServer agree in which maps of the
\* realm he is, although sends fail, are repeated, and race their repetitions.
HomeAgrees ==
  \A p \in Players :
    LET s == Home[Realm[p]]
    IN  AtRest(p, s) /\ <<p, s>> \notin astray =>
          \A m \in Configured : <<p, m>> \in present[s] <=> <<p, m>> \in local[Realm[p]]

\* Under the same conditions a player is in the instance of an activity exactly
\* if he is bound to its server and it is his map: nobody stays there unbound,
\* and nobody is bound without being there.
InstanceAgrees ==
  \A p \in Players : \A i \in Instances :
    AtRest(p, i[1]) /\ <<p, i[1]>> \notin astray =>
      (<<p, i[2]>> \in present[i[1]] <=> binding[p] = i[1] /\ current[p] = i[2])

\* A player who could not be attached to an instance is not in it.  (The code
\* keeps the failed enter in the outbox and sends it later.)
NoGhost ==
  \A p \in Players : \A i \in Instances :
    AtRest(p, i[1]) /\ binding[p] = Nobody => <<p, i[2]>> \notin present[i[1]]

\* Every request is some time no longer pending: it was sent or given up.
EventuallySettled ==
  \A g \in GameServers : \A n \in 1 .. MaxSeq :
    (ComposeRequestID(g, n) \in Pending(g)) ~> (ComposeRequestID(g, n) \notin Pending(g))

=============================================================================
