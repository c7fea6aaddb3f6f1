---------------------------- MODULE MapLinkProofs ----------------------------
(***************************************************************************)
(* Type correctness of MapLink, and for any number of realms, MapServers,  *)
(* players, retries and broken connections:                                *)
(*  - no enter request is taken for the repetition of another one          *)
(*    (EnterNotSwallowed), and a repetition puts nobody anywhere           *)
(*    (AppearsByNewRequest), provided no GameServer is restarted: a        *)
(*    restarted one numbers its requests from the start again;             *)
(*  - nobody is on a server he did not ask for (StaysOnTarget), restarts   *)
(*    included, provided clients name the map they are in and no cross     *)
(*    enter is answered during a logout;                                   *)
(*  - GameServer and MapServer agree on a player of whom nothing is under  *)
(*    way (HomeAgrees, InstanceAgrees), on every server where no request   *)
(*    of his was given up, overtaken, lost or refused, provided clients    *)
(*    are ordinary, no GameServer is restarted and the ids of instances    *)
(*    differ from those of configured maps.                                *)
(***************************************************************************)
EXTENDS MapLink, TLAPS

NoRestart == MaxRestart = 0

-----------------------------------------------------------------------------
(* The inductive invariant *)

OnLink(m) == \E c \in Connection : \E i \in 1 .. Len(link[c]) : link[c][i] = m

Queued(m) == \E g \in GameServers : \E e \in outbox[g] \union due[g] : e.msg = m

\* m may still be sent or received.
Live(m) == m \in sending \/ Queued(m) \/ OnLink(m)

\* Ids are allocated in order, and each by the server it names.
Allocated ==
  /\ \A m \in Message : Live(m) => m.id[1] = m.from /\ m.id[2] <= seq[m.from]
  /\ \A s \in MapServers : \A i \in inbox[s] : i[2] <= seq[i[1]]

\* Two live messages with one id are the same message.
OneMessagePerID ==
  \A m, n \in Message : Live(m) /\ Live(n) /\ m.id = n.id => m = n

Enter(s, m) == [server |-> s, id |-> m.id, player |-> m.player, map |-> m.map]

\* A live enter whose id a MapServer knows has been applied there.
Applied ==
  \A m \in Message, s \in MapServers :
    Live(m) /\ m.kind = "enter" /\ m.id \in inbox[s] /\ m.map \in MapsAt[s]
      => Enter(s, m) \in entered

IDInv == TypeOK /\ Allocated /\ OneMessagePerID /\ Applied

-----------------------------------------------------------------------------
(* What the helpers of MapLink preserve *)

\* A request taken by sendMapMessage is well formed and numbered by its realm.
LEMMA SubmitTyped ==
  ASSUME TypeOK, NEW p \in Players, NEW by \in {"lane", "attach"},
         NEW kind \in {"enter", "leave"}, NEW m \in Maps,
         NEW bound \in MapServers \union {Nobody}, Submit(p, by, kind, m, bound)
  PROVE  /\ seq' \in [GameServers -> 0 .. MaxSeq]
         /\ outbox' \in [GameServers -> SUBSET Entry]
         /\ sending' \subseteq Message
         /\ astray' \subseteq (Players \X MapServers)
<1> USE MapLinkAssumption DEF MapLinkAssumption
<1> DEFINE g   == Realm[p]
           msg == [id |-> ComposeRequestID(g, seq[g] + 1), from |-> g, by |-> by,
                   kind |-> kind, player |-> p, map |-> m,
                   via    |-> IF bound = Nobody THEN "home" ELSE "cross",
                   server |-> IF bound = Nobody THEN Home[g] ELSE bound]
           entry == [msg |-> msg, attempts |-> 1]
<1>1. g \in GameServers /\ seq[g] \in 0 .. MaxSeq /\ seq[g] < MaxSeq
  BY DEF TypeOK, Submit
<1>2. seq[g] + 1 \in 1 .. MaxSeq /\ 1 \in 1 .. MaxRetry
  BY <1>1
<1>3. msg \in Message
  BY <1>1, <1>2 DEF Message, RequestID, ComposeRequestID, Vias
<1>4. entry \in Entry
  BY <1>2, <1>3 DEF Entry
<1>5. /\ seq' = [seq EXCEPT ![g] = @ + 1]
      /\ outbox' = [outbox EXCEPT ![g] = @ \union {entry}]
      /\ sending' = sending \union {msg}
      /\ astray' = astray \/ astray' = astray \union {<<p, msg.server>>}
  BY DEF Submit
<1>8. msg.server \in MapServers
  BY <1>1
<1>9. astray' \subseteq (Players \X MapServers)
  BY <1>5, <1>8 DEF TypeOK
<1> HIDE DEF g, msg, entry
<1>6. seq' \in [GameServers -> 0 .. MaxSeq]
  BY <1>1, <1>2, <1>5 DEF TypeOK
<1>7. outbox' \in [GameServers -> SUBSET Entry]
  BY <1>1, <1>4, <1>5 DEF TypeOK
<1> QED BY <1>3, <1>5, <1>6, <1>7, <1>9 DEF TypeOK

\* So is what HandlePlayerLeaveMap does for a player in no instance ...
LEMMA LeaveHomeTyped ==
  ASSUME TypeOK, NEW p \in Players, NEW m \in Maps, LeaveHome(p, m)
  PROVE  /\ seq' \in [GameServers -> 0 .. MaxSeq]
         /\ outbox' \in [GameServers -> SUBSET Entry]
         /\ sending' \subseteq Message
         /\ astray' \subseteq (Players \X MapServers)
         /\ local' \in [GameServers -> SUBSET (Players \X Maps)]
         /\ binding' = binding
<1>1. CASE m \in Configured
  <2>1. Submit(p, "lane", "leave", m, Nobody)
    BY <1>1 DEF LeaveHome
  <2>2. local' = [local EXCEPT ![Realm[p]] = @ \ {<<p, m>>}]
    BY <1>1 DEF LeaveHome
  <2>3. local' \in [GameServers -> SUBSET (Players \X Maps)]
    BY <2>2 DEF TypeOK
  <2> QED BY <2>1, <2>3, SubmitTyped DEF LeaveHome
<1>2. CASE m \notin Configured
  BY <1>2 DEF LeaveHome, TypeOK
<1> QED BY <1>1, <1>2

\* ... and for one in an instance.
LEMMA LeaveCrossTyped ==
  ASSUME TypeOK, NEW p \in Players, NEW m \in Maps, LeaveCross(p, m)
  PROVE  /\ seq' \in [GameServers -> 0 .. MaxSeq]
         /\ outbox' \in [GameServers -> SUBSET Entry]
         /\ sending' \subseteq Message
         /\ astray' \subseteq (Players \X MapServers)
         /\ local' = local /\ binding' = binding
<1>1. Submit(p, "lane", "leave", m, binding[p]) /\ binding[p] \in MapServers \union {Nobody}
  BY DEF LeaveCross, TypeOK
<1> QED BY <1>1, SubmitTyped DEF LeaveCross

LEMMA MarkSentTyped ==
  ASSUME TypeOK, NEW g, NEW i, MarkSent(g, i)
  PROVE  outbox' \in [GameServers -> SUBSET Entry]
BY DEF TypeOK, MarkSent

\* An attempt more is counted only below the limit.
LEMMA MarkAttemptTyped ==
  ASSUME TypeOK, NEW g, NEW i, MarkAttempt(g, i)
  PROVE  outbox' \in [GameServers -> SUBSET Entry]
<1> USE MapLinkAssumption DEF MapLinkAssumption
<1> DEFINE bump(e) == IF e.msg.id = i /\ e.attempts < MaxRetry
                        THEN [e EXCEPT !.attempts = @ + 1] ELSE e
<1>1. ASSUME NEW e \in Entry PROVE bump(e) \in Entry
  BY DEF Entry
<1>2. outbox' = [outbox EXCEPT ![g] = {bump(e) : e \in outbox[g]}]
  BY DEF MarkAttempt
<1>3. g \in GameServers => {bump(e) : e \in outbox[g]} \subseteq Entry
  BY <1>1 DEF TypeOK
<1> HIDE DEF bump
<1> QED BY <1>2, <1>3 DEF TypeOK

LEMMA TransmitTyped ==
  ASSUME TypeOK, NEW c, NEW msg \in Message, Transmit(c, msg)
  PROVE  link' \in [Connection -> Seq(Message)]
<1>1. link \in [Connection -> Seq(Message)]
  BY DEF TypeOK
<1>2. c \in Connection => Append(link[c], msg) \in Seq(Message)
  BY <1>1
<1> QED BY <1>1, <1>2 DEF Transmit

\* What a MapServer does with an enter it accepts.
LEMMA LandTyped ==
  ASSUME TypeOK, NEW s \in MapServers, NEW msg \in Message, Land(s, msg)
  PROVE  /\ present' \in [MapServers -> SUBSET (Players \X Maps)]
         /\ where' \in [MapServers -> [Players -> Maps \union {Nobody}]]
         /\ entered' \subseteq [server: MapServers, id: RequestID, player: Players, map: Maps]
<1>1. msg.player \in Players /\ msg.map \in Maps /\ msg.id \in RequestID
  BY DEF Message
<1> HIDE DEF Message
<1>2. CASE msg.map \in MapsAt[s]
  <2>1. present' = [present EXCEPT ![s] = @ \union {<<msg.player, msg.map>>}]
    BY <1>2 DEF Land
  <2>2. present' \in [MapServers -> SUBSET (Players \X Maps)]
    BY <1>1, <2>1 DEF TypeOK
  <2>3. where' = [where EXCEPT ![s] = [where[s] EXCEPT ![msg.player] = msg.map]]
    BY <1>2 DEF Land
  <2>4. where' \in [MapServers -> [Players -> Maps \union {Nobody}]]
    BY <1>1, <2>3 DEF TypeOK
  <2>5. entered' \subseteq [server: MapServers, id: RequestID, player: Players, map: Maps]
    BY <1>1, <1>2 DEF Land, TypeOK
  <2> QED BY <2>2, <2>4, <2>5
<1>3. CASE msg.map \notin MapsAt[s]
  BY <1>3 DEF Land, TypeOK
<1> QED BY <1>2, <1>3

-----------------------------------------------------------------------------
(* Type correctness *)

LEMMA TypeInit == Init => TypeOK
<1> SUFFICES ASSUME Init PROVE TypeOK
  OBVIOUS
<1> USE MapLinkAssumption DEF MapLinkAssumption
<1>1. /\ seq \in [GameServers -> 0 .. MaxSeq]
      /\ restarts \in 0 .. MaxRestart
  BY DEF Init
<1>2. link \in [Connection -> Seq(Message)]
  BY DEF Init
<1>3. /\ where \in [MapServers -> [Players -> Maps \union {Nobody}]]
      /\ present \in [MapServers -> SUBSET (Players \X Maps)]
      /\ inbox \in [MapServers -> SUBSET RequestID]
  BY DEF Init
<1>4. /\ current \in [Players -> Maps \union {Nobody}]
      /\ binding \in [Players -> MapServers \union {Nobody}]
  BY DEF Init
<1>5. /\ local \in [GameServers -> SUBSET (Players \X Maps)]
      /\ outbox \in [GameServers -> SUBSET Entry]
      /\ due \in [GameServers -> SUBSET Entry]
  BY DEF Init
<1> QED BY <1>1, <1>2, <1>3, <1>4, <1>5 DEF Init, TypeOK

\* The requests of the client and the logout.
LEMMA TypeClient ==
  ASSUME TypeOK, NEW p \in Players, ClientStep(p)
  PROVE  TypeOK'
<1> USE MapLinkAssumption DEF MapLinkAssumption
<1>1. CASE EnterGame(p)
  BY <1>1 DEF EnterGame, TypeOK, player, queues, msVars
<1>2. CASE LeaveGame(p)
  <2>1. leaving' \subseteq online' /\ online' \subseteq Players
    BY <1>2 DEF LeaveGame, TypeOK
  <2>2. CASE current[p] = Nobody
    BY <1>2, <2>1, <2>2 DEF LeaveGame, TypeOK, msVars
  <2>3. CASE LeaveHome(p, current[p]) /\ current[p] # Nobody
    <3>1. current[p] \in Maps
      BY <2>3 DEF TypeOK
    <3> QED BY <1>2, <2>1, <2>3, <3>1, LeaveHomeTyped DEF LeaveGame, TypeOK, msVars
  <2>4. CASE LeaveCross(p, current[p]) /\ current[p] # Nobody
    <3>1. current[p] \in Maps
      BY <2>4 DEF TypeOK
    <3> QED BY <1>2, <2>1, <2>4, <3>1, LeaveCrossTyped DEF LeaveGame, TypeOK, msVars
  <2> QED BY <1>2, <2>2, <2>3, <2>4 DEF LeaveGame
<1>3. CASE RemovePlayer(p)
  <2>1. current' \in [Players -> Maps \union {Nobody}]
    BY <1>3 DEF RemovePlayer, TypeOK
  <2> QED BY <1>3, <2>1 DEF RemovePlayer, TypeOK, queues, msVars
<1>4. ASSUME NEW m \in Maps, EnterMap(p, m) PROVE TypeOK'
  <2>1. Submit(p, "lane", "enter", m, binding[p]) /\ binding[p] \in MapServers \union {Nobody}
    BY <1>4 DEF EnterMap, TypeOK
  <2>2. /\ local' = [local EXCEPT ![Realm[p]] = @ \union {<<p, m>>}]
        /\ current' = [current EXCEPT ![p] = m]
        /\ asked' = asked \union {<<p, Home[Realm[p]], m>>}
    BY <1>4 DEF EnterMap
  <2>3. local' \in [GameServers -> SUBSET (Players \X Maps)]
    BY <2>2 DEF TypeOK
  <2>4. /\ current' \in [Players -> Maps \union {Nobody}]
        /\ asked' \subseteq (Players \X MapServers \X Maps)
    BY <2>2 DEF TypeOK
  <2> QED BY <1>4, <2>1, <2>3, <2>4, SubmitTyped DEF EnterMap, TypeOK, lobby, msVars
<1>5. ASSUME NEW m \in Maps, LeaveMap(p, m) PROVE TypeOK'
  <2>1. /\ seq' \in [GameServers -> 0 .. MaxSeq]
        /\ outbox' \in [GameServers -> SUBSET Entry]
        /\ sending' \subseteq Message
        /\ astray' \subseteq (Players \X MapServers)
        /\ local' \in [GameServers -> SUBSET (Players \X Maps)]
        /\ binding' = binding
    BY <1>5, LeaveHomeTyped, LeaveCrossTyped DEF LeaveMap, TypeOK
  <2>2. current' \in [Players -> Maps \union {Nobody}]
    BY <1>5 DEF LeaveMap, TypeOK
  <2> QED BY <1>5, <2>1, <2>2 DEF LeaveMap, TypeOK, lobby, msVars
<1>6. ASSUME NEW i \in Instances, AttachCross(p, i[1], i[2]) PROVE TypeOK'
  <2>1. i[1] \in MapServers /\ i[2] \in Maps
    OBVIOUS
  <2>2. Submit(p, "attach", "enter", i[2], i[1])
    BY <1>6 DEF AttachCross
  <2>3. /\ binding' \in [Players -> MapServers \union {Nobody}]
        /\ asked' \subseteq (Players \X MapServers \X Maps)
    BY <1>6, <2>1 DEF AttachCross, TypeOK
  <2> QED BY <1>6, <2>1, <2>2, <2>3, SubmitTyped DEF AttachCross, TypeOK, lobby, msVars
<1> QED BY <1>1, <1>2, <1>3, <1>4, <1>5, <1>6 DEF ClientStep

\* The end of sendMapMessage.
LEMMA TypeSend ==
  ASSUME TypeOK, NEW msg \in sending, SendStep(msg)
  PROVE  TypeOK'
<1>1. msg \in Message /\ msg.player \in Players /\ msg.map \in Maps
  BY DEF TypeOK, Message
<1>2. UNCHANGED binding \/ Unbind(msg) => binding' \in [Players -> MapServers \union {Nobody}]
  BY DEF Unbind, TypeOK
<1>3. CASE Sent(msg)
  <2>1. link' \in [Connection -> Seq(Message)]
    BY <1>1, <1>3, TransmitTyped DEF Sent
  <2>2. outbox' \in [GameServers -> SUBSET Entry]
    BY <1>3, MarkSentTyped DEF Sent
  <2>3. current' \in [Players -> Maps \union {Nobody}]
    BY <1>1, <1>3 DEF Sent, TypeOK
  <2>4. binding' \in [Players -> MapServers \union {Nobody}]
    BY <1>2, <1>3 DEF Sent
  <2> QED BY <1>3, <2>1, <2>2, <2>3, <2>4 DEF Sent, TypeOK, lobby, msVars
<1>4. CASE SendFails(msg)
  <2>1. outbox' \in [GameServers -> SUBSET Entry]
    BY <1>4, MarkAttemptTyped DEF SendFails
  <2>2. binding' \in [Players -> MapServers \union {Nobody}]
    BY <1>2, <1>4 DEF SendFails
  <2>3. Refused(msg) \subseteq (Players \X MapServers)
    BY <1>1 DEF Refused, Message
  <2>4. astray' \subseteq (Players \X MapServers)
    BY <1>4, <2>3 DEF SendFails, TypeOK
  <2> QED BY <1>4, <2>1, <2>2, <2>4 DEF SendFails, TypeOK, lobby, msVars
<1> QED BY <1>3, <1>4 DEF SendStep

\* The retry loop.
LEMMA TypeRetry ==
  ASSUME TypeOK, NEW g \in GameServers, Retry(g)
  PROVE  TypeOK'
<1>1. CASE Tick(g)
  <2>1. due' \in [GameServers -> SUBSET Entry]
    BY <1>1 DEF Tick, TypeOK
  <2> QED BY <1>1, <2>1 DEF Tick, TypeOK, lobby, player, msVars
<1>2. ASSUME NEW e \in due[g], RetryStep(g, e) PROVE TypeOK'
  <2>1. e \in Entry /\ e.msg \in Message
    BY DEF TypeOK, Entry
  <2>2. Done(g, e) => due' \in [GameServers -> SUBSET Entry]
    BY DEF Done, TypeOK
  <2>3. CASE GiveUp(g, e)
    <3>1. outbox' \in [GameServers -> SUBSET Entry]
      BY <2>3, MarkSentTyped DEF GiveUp
    <3>2. dead' \subseteq Message
      BY <2>1, <2>3 DEF GiveUp, TypeOK
    <3> QED BY <2>2, <2>3, <3>1, <3>2 DEF GiveUp, TypeOK, lobby, player, msVars
  <2>4. CASE Resend(g, e)
    <3>1. outbox' \in [GameServers -> SUBSET Entry]
      BY <2>4, MarkSentTyped DEF Resend
    <3>2. link' \in [Connection -> Seq(Message)]
      BY <2>1, <2>4, TransmitTyped DEF Resend
    <3> QED BY <2>2, <2>4, <3>1, <3>2 DEF Resend, TypeOK, lobby, player, msVars
  <2>5. CASE ResendFails(g, e)
    <3>1. outbox' \in [GameServers -> SUBSET Entry]
      BY <2>5, MarkAttemptTyped DEF ResendFails
    <3> QED BY <2>2, <2>5, <3>1 DEF ResendFails, TypeOK, lobby, player, msVars
  <2> QED BY <1>2, <2>3, <2>4, <2>5 DEF RetryStep
<1> QED BY <1>1, <1>2 DEF Retry

LEMMA TypeRestart ==
  ASSUME TypeOK, NEW g \in GameServers, Restart(g)
  PROVE  TypeOK'
<1> USE MapLinkAssumption DEF MapLinkAssumption
<1>1. restarts' \in 0 .. MaxRestart /\ 0 \in 0 .. MaxSeq
  BY DEF Restart, TypeOK
<1>2. /\ current' \in [Players -> Maps \union {Nobody}]
      /\ binding' \in [Players -> MapServers \union {Nobody}]
  BY DEF Restart, TypeOK
<1>3. /\ seq' \in [GameServers -> 0 .. MaxSeq]
      /\ local' \in [GameServers -> SUBSET (Players \X Maps)]
  BY <1>1 DEF Restart, TypeOK
<1>4. /\ outbox' \in [GameServers -> SUBSET Entry]
      /\ due' \in [GameServers -> SUBSET Entry]
  BY DEF Restart, TypeOK
<1>5. /\ online' \subseteq Players /\ leaving' \subseteq online'
      /\ sending' \subseteq Message /\ dead' \subseteq Message
  BY DEF Restart, TypeOK
<1> QED BY <1>1, <1>2, <1>3, <1>4, <1>5 DEF Restart, TypeOK, msVars

\* The MapServers.
LEMMA TypeReceive ==
  ASSUME TypeOK, NEW c \in Connection, Receive(c)
  PROVE  TypeOK'
<1> DEFINE msg == Head(link[c])
           s   == c[3]
<1>1. s \in MapServers /\ link[c] \in Seq(Message) /\ link[c] # <<>>
  BY DEF TypeOK, Connection, Receive, Take
<1>2. msg \in Message /\ Tail(link[c]) \in Seq(Message)
  BY <1>1
<1>3. msg.id \in RequestID /\ msg.player \in Players
  BY <1>2 DEF Message
<1>4. link' \in [Connection -> Seq(Message)]
  BY <1>2 DEF Receive, Take, TypeOK
<1> HIDE DEF msg, s
<1>5. /\ inbox' \in [MapServers -> SUBSET RequestID]
      /\ present' \in [MapServers -> SUBSET (Players \X Maps)]
      /\ where' \in [MapServers -> [Players -> Maps \union {Nobody}]]
      /\ entered' \subseteq [server: MapServers, id: RequestID, player: Players, map: Maps]
  <2>1. CASE HandleEnter(c, msg) /\ msg.id \in inbox[c[3]]
    BY <2>1 DEF HandleEnter, msVars, TypeOK
  <2>2. CASE HandleEnter(c, msg) /\ msg.id \notin inbox[c[3]]
    <3>1. Land(s, msg) /\ inbox' = [inbox EXCEPT ![s] = @ \union {msg.id}]
      BY <2>2 DEF HandleEnter, s
    <3>2. inbox' \in [MapServers -> SUBSET RequestID]
      BY <1>3, <3>1 DEF TypeOK
    <3> QED BY <1>1, <1>2, <3>1, <3>2, LandTyped
  <2>3. CASE HandleLeave(c, msg)
    <3>1. UNCHANGED <<inbox, entered>>
      BY <2>3 DEF HandleLeave
    <3>2. present' = present \/ \E x : present' = [present EXCEPT ![s] = @ \ {x}]
      BY <2>3, Zenon DEF HandleLeave, s
    <3>3. where' = where \/ where' = [where EXCEPT ![s] = [where[s] EXCEPT ![msg.player] = Nobody]]
      BY <2>3 DEF HandleLeave, s
    <3>4. present' \in [MapServers -> SUBSET (Players \X Maps)]
      <4>1. present[s] \in SUBSET (Players \X Maps)
        BY <1>1 DEF TypeOK
      <4>2. \A x : present[s] \ {x} \in SUBSET (Players \X Maps)
        BY <4>1
      <4>3. CASE present' = present
        BY <4>3 DEF TypeOK
      <4>4. ASSUME NEW x, present' = [present EXCEPT ![s] = @ \ {x}]
            PROVE  present' \in [MapServers -> SUBSET (Players \X Maps)]
        <5>1. present' = [present EXCEPT ![s] = present[s] \ {x}]
          BY <4>4
        <5>2. present[s] \ {x} \in SUBSET (Players \X Maps)
          BY <4>2
        <5> QED BY <5>1, <5>2 DEF TypeOK
      <4> QED BY <3>2, <4>3, <4>4
    <3>5. where' \in [MapServers -> [Players -> Maps \union {Nobody}]]
      <4>1. where[s] \in [Players -> Maps \union {Nobody}]
        BY <1>1 DEF TypeOK
      <4>2. [where[s] EXCEPT ![msg.player] = Nobody] \in [Players -> Maps \union {Nobody}]
        BY <4>1
      <4> QED BY <1>1, <3>3, <4>2 DEF TypeOK
    <3> QED BY <3>1, <3>4, <3>5 DEF TypeOK
  <2> QED BY <2>1, <2>2, <2>3 DEF Receive, msg
<1> QED BY <1>4, <1>5 DEF Receive, TypeOK, gsVars, lobby, player, queues

LEMMA TypeBreak ==
  ASSUME TypeOK, NEW c \in Connection, Break(c)
  PROVE  TypeOK'
<1>1. link' \in [Connection -> Seq(Message)]
  <2>1. <<>> \in Seq(Message)
    OBVIOUS
  <2> QED BY <2>1 DEF Break, TypeOK
<1>2. \A m \in Range(link[c]) : m \in Message
  BY DEF TypeOK, Range
<1>3. \A m \in Range(link[c]) : <<m.player, m.server>> \in Players \X MapServers
  BY <1>2 DEF Message
<1>4. astray' \subseteq (Players \X MapServers)
  BY <1>3 DEF Break, TypeOK
<1> QED BY <1>1, <1>4 DEF Break, TypeOK, msVars, lobby, player, queues

LEMMA TypeCleanup ==
  ASSUME TypeOK, NEW s \in MapServers, CleanupInbox(s)
  PROVE  TypeOK'
<1>1. inbox' \in [MapServers -> SUBSET RequestID]
  BY DEF CleanupInbox, TypeOK
<1> QED BY <1>1 DEF CleanupInbox, TypeOK, gsVars, lobby, player, queues

LEMMA TypeNext == TypeOK /\ [Next]_vars => TypeOK'
<1> SUFFICES ASSUME TypeOK, [Next]_vars PROVE TypeOK'
  OBVIOUS
<1>1. CASE Next
  BY <1>1, TypeClient, TypeSend, TypeRetry, TypeRestart, TypeReceive, TypeBreak,
     TypeCleanup DEF Next
<1>2. CASE UNCHANGED vars
  BY <1>2 DEF vars, gsVars, msVars, lobby, player, queues, TypeOK
<1> QED BY <1>1, <1>2

\* Every variable of the GameServers, the connections and the MapServers keeps
\* its type: no request is numbered beyond the sequence, no entry is retried
\* beyond the limit, and nobody is left by a logout he has not joined.
THEOREM MapLinkTypeCorrect == Spec => []TypeOK
<1> QED BY TypeInit, TypeNext, PTL DEF Spec

-----------------------------------------------------------------------------
(* No enter is taken for the repetition of another one *)

LEMMA IDInit == Init => IDInv
<1> SUFFICES ASSUME Init PROVE IDInv
  OBVIOUS
<1>1. TypeOK
  BY TypeInit
<1>2. \A m : ~ Live(m)
  BY DEF Init, Live, Queued, OnLink
<1>3. \A s \in MapServers : inbox[s] = {}
  BY DEF Init
<1> HIDE DEF Init
<1> QED BY <1>1, <1>2, <1>3 DEF IDInv, Allocated, OneMessagePerID, Applied

\* A step that brings no message to life, numbers none and accepts none.
LEMMA Quiet ==
  ASSUME IDInv, TypeOK', \A m \in Message : Live(m)' => Live(m),
         UNCHANGED <<seq, entered>>,
         \A s \in MapServers : inbox'[s] \subseteq inbox[s]
  PROVE  IDInv'
<1> HIDE DEF Live, Message
<1>1. Allocated'
  BY DEF IDInv, Allocated
<1>2. OneMessagePerID'
  BY DEF IDInv, OneMessagePerID
<1>3. Applied'
  BY DEF IDInv, Applied, Enter
<1> QED BY <1>1, <1>2, <1>3 DEF IDInv

\* What is on a link after a message was put on it.
LEMMA TransmitLive ==
  ASSUME TypeOK, NEW c, NEW msg \in Message, Transmit(c, msg), NEW m, OnLink(m)'
  PROVE  OnLink(m) \/ m = msg
<1>0. PICK d \in Connection : \E i \in 1 .. Len(link'[d]) : link'[d][i] = m
  BY DEF OnLink
<1>1. PICK i \in 1 .. Len(link'[d]) : link'[d][i] = m
  BY <1>0
<1>2. link \in [Connection -> Seq(Message)] /\ link[d] \in Seq(Message)
  BY DEF TypeOK
<1>3. CASE d = c
  <2>1. link'[d] = Append(link[d], msg)
    BY <1>2, <1>3 DEF Transmit
  <2> QED BY <1>1, <1>2, <2>1 DEF OnLink
<1>4. CASE d # c
  <2>1. link'[d] = link[d]
    BY <1>2, <1>4 DEF Transmit
  <2> QED BY <1>1, <2>1 DEF OnLink
<1> QED BY <1>3, <1>4

LEMMA TakeLive ==
  ASSUME TypeOK, NEW c \in Connection, Take(c), NEW m, OnLink(m)'
  PROVE  OnLink(m)
<1>0. PICK d \in Connection : \E i \in 1 .. Len(link'[d]) : link'[d][i] = m
  BY DEF OnLink
<1>1. PICK i \in 1 .. Len(link'[d]) : link'[d][i] = m
  BY <1>0
<1>2. link \in [Connection -> Seq(Message)] /\ link[d] \in Seq(Message)
  BY DEF TypeOK
<1>3. CASE d = c
  <2>1. link'[d] = Tail(link[d]) /\ link[d] # <<>>
    BY <1>2, <1>3 DEF Take
  <2>2. i + 1 \in 1 .. Len(link[d]) /\ link[d][i + 1] = m
    BY <1>1, <1>2, <2>1
  <2> QED BY <2>2 DEF OnLink
<1>4. CASE d # c
  <2>1. link'[d] = link[d]
    BY <1>2, <1>4 DEF Take
  <2> QED BY <1>1, <2>1 DEF OnLink
<1> QED BY <1>3, <1>4

\* What is queued when an entry leaves the outbox or is counted.
LEMMA MarkLive ==
  ASSUME TypeOK, NEW g \in GameServers, NEW i, MarkSent(g, i) \/ MarkAttempt(g, i)
  PROVE  \A h \in GameServers : \A e \in outbox'[h] :
           \E d \in outbox[h] : d.msg = e.msg
<1> SUFFICES ASSUME NEW h \in GameServers, NEW e \in outbox'[h]
             PROVE  \E d \in outbox[h] : d.msg = e.msg
  OBVIOUS
<1>1. outbox \in [GameServers -> SUBSET Entry]
  BY DEF TypeOK
<1>2. CASE h # g
  BY <1>1, <1>2 DEF MarkSent, MarkAttempt
<1>3. CASE h = g /\ MarkSent(g, i)
  BY <1>1, <1>3 DEF MarkSent
<1>4. CASE h = g /\ MarkAttempt(g, i)
  <2>1. PICK d \in outbox[g] :
         e = IF d.msg.id = i /\ d.attempts < MaxRetry
               THEN [d EXCEPT !.attempts = d.attempts + 1] ELSE d
    BY <1>1, <1>4 DEF MarkAttempt
  <2>2. d \in Entry
    BY <1>1
  <2>3. d.msg = e.msg
    BY <2>1, <2>2 DEF Entry
  <2> QED BY <1>4, <2>3
<1> QED BY <1>2, <1>3, <1>4

\* A request gets an id that nothing live has and no MapServer knows.
LEMMA SubmitKeeps ==
  ASSUME IDInv, TypeOK', NEW p \in Players, NEW by \in {"lane", "attach"},
         NEW kind \in {"enter", "leave"}, NEW k \in Maps,
         NEW bound \in MapServers \union {Nobody}, Submit(p, by, kind, k, bound),
         UNCHANGED <<due, link, inbox, entered>>
  PROVE  IDInv'
<1> USE MapLinkAssumption DEF MapLinkAssumption
<1> DEFINE g   == Realm[p]
           msg == [id |-> ComposeRequestID(g, seq[g] + 1), from |-> g, by |-> by,
                   kind |-> kind, player |-> p, map |-> k,
                   via    |-> IF bound = Nobody THEN "home" ELSE "cross",
                   server |-> IF bound = Nobody THEN Home[g] ELSE bound]
           entry == [msg |-> msg, attempts |-> 1]
<1>1. g \in GameServers /\ seq \in [GameServers -> 0 .. MaxSeq]
  BY DEF IDInv, TypeOK
<1>2. msg.from = g /\ msg.id[1] = g /\ msg.id[2] = seq[g] + 1
  BY DEF ComposeRequestID
<1>3. entry.msg = msg
  OBVIOUS
<1>4. /\ seq' = [seq EXCEPT ![g] = @ + 1]
      /\ outbox' = [outbox EXCEPT ![g] = @ \union {entry}]
      /\ sending' = sending \union {msg}
  BY DEF Submit
<1> HIDE DEF g, msg, entry
<1>5. \A h \in GameServers : seq[h] <= seq'[h] /\ seq'[g] = seq[g] + 1
  BY <1>1, <1>4
<1>6. ASSUME NEW m \in Message, Live(m)' PROVE Live(m) \/ m = msg
  <2>1. Queued(m)' => Queued(m) \/ m = msg
    BY <1>3, <1>4 DEF Queued, IDInv, TypeOK
  <2>2. OnLink(m)' => OnLink(m)
    BY DEF OnLink
  <2> QED BY <1>4, <1>6, <2>1, <2>2 DEF Live
<1>7. \A m \in Message : m.id \in RequestID /\ m.from \in GameServers
  BY DEF Message
<1> HIDE DEF Message, Live
<1>8. \A i \in RequestID : i[1] \in GameServers /\ i[2] \in Nat
  BY DEF RequestID
<1>9. ASSUME NEW m \in Message, Live(m) PROVE m.id # msg.id
  <2>1. m.id[1] = m.from /\ m.id[2] <= seq[m.from]
    BY <1>9 DEF IDInv, Allocated
  <2> QED BY <1>1, <1>2, <1>7, <1>8, <2>1
<1>10. \A s \in MapServers : msg.id \notin inbox[s]
  <2> SUFFICES ASSUME NEW s \in MapServers, msg.id \in inbox[s] PROVE FALSE
    OBVIOUS
  <2>1. msg.id[2] <= seq[msg.id[1]]
    BY DEF IDInv, Allocated
  <2> QED BY <1>1, <1>2, <2>1
<1>11. Allocated'
  <2>1. ASSUME NEW m \in Message, Live(m)' PROVE m.id[1] = m.from /\ m.id[2] <= seq'[m.from]
    <3>1. CASE Live(m)
      <4>1. m.id[1] = m.from /\ m.id[2] <= seq[m.from]
        BY <3>1 DEF IDInv, Allocated
      <4>2. seq[m.from] <= seq'[m.from] /\ seq[m.from] \in Nat /\ seq'[m.from] \in Nat
        BY <1>1, <1>4, <1>5, <1>7
      <4> QED BY <1>7, <1>8, <4>1, <4>2
    <3>2. CASE m = msg
      BY <1>1, <1>2, <1>5, <3>2
    <3> QED BY <1>6, <2>1, <3>1, <3>2
  <2>2. ASSUME NEW s \in MapServers, NEW i \in inbox'[s] PROVE i[2] <= seq'[i[1]]
    <3>1. i \in RequestID /\ i[2] <= seq[i[1]]
      BY DEF IDInv, TypeOK, Allocated
    <3>2. seq[i[1]] <= seq'[i[1]] /\ seq[i[1]] \in Nat /\ seq'[i[1]] \in Nat
      BY <1>1, <1>4, <1>5, <1>8, <3>1
    <3> QED BY <1>8, <3>1, <3>2
  <2> QED BY <2>1, <2>2 DEF Allocated
<1>12. OneMessagePerID'
  BY <1>6, <1>9 DEF IDInv, OneMessagePerID
<1>13. Applied'
  BY <1>6, <1>10 DEF IDInv, Applied, Enter
<1> QED BY <1>11, <1>12, <1>13 DEF IDInv

LEMMA ClientKeeps ==
  ASSUME IDInv, TypeOK', NEW p \in Players, ClientStep(p)
  PROVE  IDInv'
<1>1. TypeOK
  BY DEF IDInv
<1>2. CASE UNCHANGED <<seq, sending, outbox, due, link, inbox, entered>>
  <2>1. \A m \in Message : Live(m)' => Live(m)
    BY <1>2 DEF Live, Queued, OnLink
  <2> QED BY <1>2, <2>1, Quiet
<1>3. ASSUME NEW m \in Maps, LeaveHome(p, m) \/ LeaveCross(p, m),
             UNCHANGED <<due, link, inbox, entered>>
      PROVE  IDInv'
  <2>1. CASE LeaveHome(p, m) /\ m \in Configured
    BY <1>3, <2>1, SubmitKeeps DEF LeaveHome
  <2>2. CASE LeaveHome(p, m) /\ m \notin Configured
    BY <1>2, <1>3, <2>2 DEF LeaveHome
  <2>3. CASE LeaveCross(p, m)
    <3>1. binding[p] \in MapServers \union {Nobody}
      BY <1>1 DEF TypeOK
    <3> QED BY <1>3, <2>3, <3>1, SubmitKeeps DEF LeaveCross
  <2> QED BY <1>3, <2>1, <2>2, <2>3
<1>4. CASE EnterGame(p)
  BY <1>2, <1>4 DEF EnterGame, queues, msVars
<1>5. CASE LeaveGame(p)
  <2>1. current[p] \in Maps \union {Nobody}
    BY <1>1 DEF TypeOK
  <2> QED BY <1>2, <1>3, <1>5, <2>1 DEF LeaveGame, msVars
<1>6. CASE RemovePlayer(p)
  BY <1>2, <1>6 DEF RemovePlayer, queues, msVars
<1>7. ASSUME NEW m \in Maps, EnterMap(p, m) PROVE IDInv'
  <2>1. binding[p] \in MapServers \union {Nobody}
    BY <1>1 DEF TypeOK
  <2> QED BY <1>7, <2>1, SubmitKeeps DEF EnterMap, msVars
<1>8. ASSUME NEW m \in Maps, LeaveMap(p, m) PROVE IDInv'
  BY <1>3, <1>8 DEF LeaveMap, msVars
<1>9. ASSUME NEW i \in Instances, AttachCross(p, i[1], i[2]) PROVE IDInv'
  <2>1. i[1] \in MapServers /\ i[2] \in Maps
    BY MapLinkAssumption DEF MapLinkAssumption
  <2> QED BY <1>9, <2>1, SubmitKeeps DEF AttachCross, msVars
<1> QED BY <1>4, <1>5, <1>6, <1>7, <1>8, <1>9 DEF ClientStep

\* Only a client brings a message to life: sending it and retrying an entry move it
\* to a link, and links are read and broken.
LEMMA LiveKept ==
  ASSUME TypeOK,
         \/ \E msg \in sending : SendStep(msg)
         \/ \E g \in GameServers : Retry(g)
         \/ \E c \in Connection : Receive(c) \/ Break(c)
         \/ \E s \in MapServers : CleanupInbox(s)
         \/ UNCHANGED vars
  PROVE  \A m \in Message : Live(m)' => Live(m)
<1>1. ASSUME NEW msg \in sending, SendStep(msg), NEW m \in Message, Live(m)' PROVE Live(m)
  <2>1. msg \in Message /\ msg.from \in GameServers
    BY DEF TypeOK, Message
  <2>2. /\ MarkSent(msg.from, msg.id) \/ MarkAttempt(msg.from, msg.id)
        /\ sending' \subseteq sending
        /\ Transmit(Route(msg), msg) \/ UNCHANGED link
        /\ UNCHANGED due
    BY <1>1 DEF SendStep, Sent, SendFails, msVars
  <2>3. Queued(m)' => Queued(m)
    BY <2>1, <2>2, MarkLive DEF Queued
  <2>4. OnLink(m)' => OnLink(m) \/ m = msg
    <3>1. CASE Transmit(Route(msg), msg)
      BY <2>1, <3>1, TransmitLive
    <3>2. CASE UNCHANGED link
      BY <3>2 DEF OnLink
    <3> QED BY <2>2, <3>1, <3>2
  <2> QED BY <1>1, <2>2, <2>3, <2>4 DEF Live
<1>2. ASSUME NEW g \in GameServers, Tick(g), NEW m \in Message, Live(m)' PROVE Live(m)
  <2>1. due' = [due EXCEPT ![g] = outbox[g]] /\ UNCHANGED <<sending, outbox, link>>
    BY <1>2 DEF Tick, msVars
  <2> QED BY <1>2, <2>1 DEF Live, Queued, OnLink, TypeOK
<1>3. ASSUME NEW g \in GameServers, NEW e \in due[g], RetryStep(g, e),
             NEW m \in Message, Live(m)'
      PROVE  Live(m)
  <2>1. e.msg \in Message /\ Live(e.msg)
    BY DEF TypeOK, Entry, Live, Queued
  <2>2. /\ MarkSent(g, e.msg.id) \/ MarkAttempt(g, e.msg.id)
        /\ due' = [due EXCEPT ![g] = @ \ {e}]
        /\ Transmit(Route(e.msg), e.msg) \/ UNCHANGED link
        /\ UNCHANGED sending
    BY <1>3 DEF RetryStep, GiveUp, Resend, ResendFails, Done, msVars
  <2>3. \A h \in GameServers : due'[h] \subseteq due[h]
    BY <2>2 DEF TypeOK
  <2>4. Queued(m)' => Queued(m)
    BY <2>2, <2>3, MarkLive DEF Queued
  <2>5. OnLink(m)' => OnLink(m) \/ m = e.msg
    <3>1. CASE Transmit(Route(e.msg), e.msg)
      BY <2>1, <3>1, TransmitLive
    <3>2. CASE UNCHANGED link
      BY <3>2 DEF OnLink
    <3> QED BY <2>2, <3>1, <3>2
  <2> QED BY <1>3, <2>1, <2>2, <2>4, <2>5 DEF Live
<1>4. ASSUME NEW c \in Connection, Receive(c), NEW m \in Message, Live(m)' PROVE Live(m)
  BY <1>4, TakeLive DEF Receive, gsVars, queues, Live, Queued
<1>5. ASSUME NEW c \in Connection, Break(c), NEW m \in Message, Live(m)' PROVE Live(m)
  <2>1. \A d \in Connection : link'[d] = link[d] \/ link'[d] = <<>>
    BY <1>5 DEF Break, TypeOK
  <2>2. OnLink(m)' => OnLink(m)
    BY <2>1 DEF OnLink
  <2> QED BY <1>5, <2>2 DEF Break, gsVars, queues, Live, Queued
<1>6. ASSUME NEW s \in MapServers, CleanupInbox(s), NEW m \in Message, Live(m)' PROVE Live(m)
  BY <1>6 DEF CleanupInbox, gsVars, queues, Live, Queued, OnLink
<1>7. ASSUME UNCHANGED vars, NEW m \in Message, Live(m)' PROVE Live(m)
  BY <1>7 DEF vars, gsVars, queues, Live, Queued, OnLink
<1> QED BY <1>1, <1>2, <1>3, <1>4, <1>5, <1>6, <1>7 DEF Retry

\* A MapServer that accepts an enter applies it, and whoever is live under the
\* id it accepted is that enter.
LEMMA ReceiveKeeps ==
  ASSUME IDInv, TypeOK', NEW c \in Connection, Receive(c)
  PROVE  IDInv'
<1> DEFINE msg == Head(link[c])
           s   == c[3]
<1>1. TypeOK /\ Take(c)
  BY DEF IDInv, Receive
<1>2. /\ s \in MapServers /\ link[c] \in Seq(Message) /\ link[c] # <<>>
      /\ UNCHANGED <<seq, sending, outbox, due>>
  BY <1>1 DEF TypeOK, Connection, Receive, Take, gsVars, queues
<1>3. msg \in Message /\ link[c][1] = msg /\ 1 \in 1 .. Len(link[c])
  BY <1>2
<1>4. Live(msg)
  BY <1>3 DEF Live, OnLink
<1>5. \A m \in Message : Live(m)' => Live(m)
  BY <1>1, LiveKept
<1> HIDE DEF msg, s
<1>6. CASE UNCHANGED <<inbox, entered>>
  BY <1>2, <1>5, <1>6, Quiet
<1>7. CASE HandleEnter(c, msg) /\ msg.id \notin inbox[s]
  <2>1. Land(s, msg) /\ inbox' = [inbox EXCEPT ![s] = @ \union {msg.id}]
    BY <1>7 DEF HandleEnter, s
  <2>2. \A t \in MapServers : inbox'[t] \subseteq inbox[t] \union (IF t = s THEN {msg.id} ELSE {})
    BY <1>1, <2>1 DEF TypeOK
  <2>3. entered \subseteq entered' /\ (msg.map \in MapsAt[s] => Enter(s, msg) \in entered')
    BY <2>1 DEF Land, Enter
  <2> HIDE DEF Message, Live
  <2>4. Allocated'
    <3>1. msg.id[2] <= seq[msg.id[1]]
      BY <1>3, <1>4 DEF IDInv, Allocated
    <3> QED BY <1>2, <1>5, <2>2, <3>1 DEF IDInv, Allocated
  <2>5. OneMessagePerID'
    BY <1>5 DEF IDInv, OneMessagePerID
  <2>6. Applied'
    <3> SUFFICES ASSUME NEW m \in Message, NEW t \in MapServers, Live(m)',
                        m.kind = "enter", m.id \in inbox'[t], m.map \in MapsAt[t]
                 PROVE  Enter(t, m) \in entered'
      BY DEF Applied, Enter
    <3>1. CASE m.id \in inbox[t]
      BY <1>5, <2>3, <3>1 DEF IDInv, Applied
    <3>2. CASE t = s /\ m.id = msg.id
      <4>1. m = msg
        BY <1>3, <1>4, <1>5, <3>2 DEF IDInv, OneMessagePerID
      <4> QED BY <2>3, <3>2, <4>1
    <3> QED BY <2>2, <3>1, <3>2
  <2> QED BY <2>4, <2>5, <2>6 DEF IDInv
<1>8. CASE HandleEnter(c, msg) /\ msg.id \in inbox[s]
  BY <1>6, <1>8 DEF HandleEnter, msVars, s
<1>9. CASE HandleLeave(c, msg)
  BY <1>6, <1>9 DEF HandleLeave
<1> QED BY <1>7, <1>8, <1>9 DEF Receive, msg

LEMMA IDNext == NoRestart /\ IDInv /\ [Next]_vars => IDInv'
<1> SUFFICES ASSUME NoRestart, IDInv, [Next]_vars PROVE IDInv'
  OBVIOUS
<1>1. TypeOK /\ TypeOK'
  BY TypeNext DEF IDInv
<1>2. ASSUME NEW p \in Players, ClientStep(p) PROVE IDInv'
  BY <1>1, <1>2, ClientKeeps
<1>3. ASSUME NEW msg \in sending, SendStep(msg) PROVE IDInv'
  <2>1. UNCHANGED <<seq, inbox, entered>>
    BY <1>3 DEF SendStep, Sent, SendFails, msVars
  <2> QED BY <1>1, <1>3, <2>1, LiveKept, Quiet
<1>4. ASSUME NEW g \in GameServers, Retry(g) PROVE IDInv'
  <2>1. UNCHANGED <<seq, inbox, entered>>
    BY <1>4 DEF Retry, Tick, RetryStep, GiveUp, Resend, ResendFails, msVars
  <2> QED BY <1>1, <1>4, <2>1, LiveKept, Quiet
<1>5. ASSUME NEW g \in GameServers, Restart(g) PROVE IDInv'
  BY <1>1, <1>5 DEF Restart, TypeOK, NoRestart
<1>6. ASSUME NEW c \in Connection, Receive(c) PROVE IDInv'
  BY <1>1, <1>6, ReceiveKeeps
<1>7. ASSUME NEW s \in MapServers, CleanupInbox(s) PROVE IDInv'
  <2>1. \A t \in MapServers : inbox'[t] \subseteq inbox[t]
    BY <1>1, <1>7 DEF CleanupInbox, TypeOK
  <2> QED BY <1>1, <1>7, <2>1, LiveKept, Quiet DEF CleanupInbox, gsVars
<1>8. ASSUME NEW c \in Connection, Break(c) PROVE IDInv'
  BY <1>1, <1>8, LiveKept, Quiet DEF Break, gsVars, msVars
<1>9. CASE UNCHANGED vars
  BY <1>1, <1>9, LiveKept, Quiet DEF vars, gsVars, msVars
<1> QED BY <1>2, <1>3, <1>4, <1>5, <1>6, <1>7, <1>8, <1>9 DEF Next

LEMMA IDImplies == IDInv => EnterNotSwallowed
<1> SUFFICES ASSUME IDInv, NEW c \in Connection, NEW i \in 1 .. Len(link[c]),
                    link[c][i].kind = "enter", link[c][i].id \in inbox[c[3]],
                    link[c][i].map \in MapsAt[c[3]]
             PROVE  Enter(c[3], link[c][i]) \in entered
  BY DEF EnterNotSwallowed, Enter
<1>1. c[3] \in MapServers /\ link[c] \in Seq(Message)
  BY DEF Connection, IDInv, TypeOK
<1>2. link[c][i] \in Message
  BY <1>1
<1>3. Live(link[c][i])
  BY DEF Live, OnLink
<1> QED BY <1>1, <1>2, <1>3 DEF IDInv, Applied

\* ComposeRequestID keeps its promise while no process is restarted: whatever
\* the retries, races and failed sends, a MapServer that drops an enter because
\* it knows the id has applied that very enter.
THEOREM MapLinkEnterNotSwallowed == NoRestart /\ Spec => []EnterNotSwallowed
<1> SUFFICES ASSUME NoRestart PROVE Spec => []EnterNotSwallowed
  OBVIOUS
<1>1. IDInv /\ [Next]_vars => IDInv'
  BY IDNext
<1> QED BY <1>1, IDInit, IDImplies, PTL DEF Spec

-----------------------------------------------------------------------------
(* A repeated request puts nobody anywhere *)

\* Whoever may still be sent or received under the id of an applied enter finds
\* that id in the inbox it was applied from, although the inbox is cleaned up.
Recorded ==
  \A x \in entered :
    /\ x.id[2] <= seq[x.id[1]]
    /\ \A m \in Message : Live(m) /\ m.id = x.id => m.id \in inbox[x.server]

NewInv == IDInv /\ Recorded

\* The clean-up of an inbox looks for exactly the live messages.
LEMMA LiveOutstanding ==
  ASSUME TypeOK, NEW m, Live(m)
  PROVE  m \in Outstanding
<1>1. CASE OnLink(m)
  <2>1. PICK c \in Connection : \E i \in 1 .. Len(link[c]) : link[c][i] = m
    BY <1>1 DEF OnLink
  <2>2. PICK i \in 1 .. Len(link[c]) : link[c][i] = m
    BY <2>1
  <2>3. link[c] \in Seq(Message)
    BY DEF TypeOK
  <2>4. m \in Range(link[c])
    BY <2>2, <2>3 DEF Range
  <2>5. m \in UNION {Range(link[d]) : d \in Connection}
    BY <2>4
  <2> QED BY <2>5 DEF Outstanding
<1>2. CASE Queued(m)
  <2>1. PICK g \in GameServers : \E e \in outbox[g] \union due[g] : e.msg = m
    BY <1>2 DEF Queued
  <2>2. m \in {e.msg : e \in outbox[g] \union due[g]}
    BY <2>1
  <2>3. m \in UNION {{e.msg : e \in outbox[h] \union due[h]} : h \in GameServers}
    BY <2>2
  <2> QED BY <2>3 DEF Outstanding
<1> QED BY <1>1, <1>2 DEF Live, Outstanding

\* A step that numbers no message, brings none to life and applies none keeps
\* what is recorded, if no inbox forgets the id of a live message.
LEMMA QuietRecorded ==
  ASSUME NewInv, \A m \in Message : Live(m)' => Live(m), UNCHANGED <<seq, entered>>,
         \A m \in Message, s \in MapServers :
           Live(m)' /\ m.id \in inbox[s] => m.id \in inbox'[s]
  PROVE  Recorded'
<1>1. \A x \in entered : x.server \in MapServers
  BY DEF NewInv, IDInv, TypeOK
<1> HIDE DEF Live, Message
<1> QED BY <1>1 DEF NewInv, Recorded

\* A new request has an id nothing was applied under.
LEMMA SubmitRecorded ==
  ASSUME NewInv, NEW p \in Players, NEW by, NEW kind, NEW k, NEW bound,
         Submit(p, by, kind, k, bound), UNCHANGED <<due, link, inbox, entered>>
  PROVE  Recorded'
<1> USE MapLinkAssumption DEF MapLinkAssumption
<1> DEFINE g   == Realm[p]
           msg == [id |-> ComposeRequestID(g, seq[g] + 1), from |-> g, by |-> by,
                   kind |-> kind, player |-> p, map |-> k,
                   via    |-> IF bound = Nobody THEN "home" ELSE "cross",
                   server |-> IF bound = Nobody THEN Home[g] ELSE bound]
           entry == [msg |-> msg, attempts |-> 1]
<1>1. g \in GameServers /\ seq \in [GameServers -> 0 .. MaxSeq]
  BY DEF NewInv, IDInv, TypeOK
<1>2. msg.id[1] = g /\ msg.id[2] = seq[g] + 1 /\ entry.msg = msg
  BY DEF ComposeRequestID
<1>3. /\ seq' = [seq EXCEPT ![g] = @ + 1]
      /\ outbox' = [outbox EXCEPT ![g] = @ \union {entry}]
      /\ sending' = sending \union {msg}
  BY DEF Submit
<1> HIDE DEF g, msg, entry
<1>4. ASSUME NEW m \in Message, Live(m)' PROVE Live(m) \/ m = msg
  <2>1. Queued(m)' => Queued(m) \/ m = msg
    BY <1>2, <1>3 DEF Queued, NewInv, IDInv, TypeOK
  <2>2. OnLink(m)' => OnLink(m)
    BY DEF OnLink
  <2> QED BY <1>3, <1>4, <2>1, <2>2 DEF Live
<1>5. ASSUME NEW x \in entered
      PROVE  x.id[1] \in GameServers /\ x.id[2] \in Nat /\ x.id[2] <= seq[x.id[1]]
  BY DEF NewInv, IDInv, TypeOK, RequestID, Recorded
<1> HIDE DEF Live, Message
<1>6. ASSUME NEW x \in entered PROVE x.id # msg.id /\ x.id[2] <= seq'[x.id[1]]
  BY <1>1, <1>2, <1>3, <1>5
<1> QED BY <1>4, <1>6 DEF NewInv, Recorded

LEMMA ClientRecorded ==
  ASSUME NewInv, NEW p \in Players, ClientStep(p)
  PROVE  Recorded'
<1>1. CASE UNCHANGED <<seq, sending, outbox, due, link, inbox, entered>>
  <2>1. \A m \in Message : Live(m)' => Live(m)
    BY <1>1 DEF Live, Queued, OnLink
  <2> QED BY <1>1, <2>1, QuietRecorded
<1>2. ASSUME NEW m, LeaveHome(p, m) \/ LeaveCross(p, m),
             UNCHANGED <<due, link, inbox, entered>>
      PROVE  Recorded'
  BY <1>1, <1>2, SubmitRecorded DEF LeaveHome, LeaveCross
<1>3. CASE EnterGame(p) \/ RemovePlayer(p)
  BY <1>1, <1>3 DEF EnterGame, RemovePlayer, queues, msVars
<1>4. CASE LeaveGame(p)
  BY <1>1, <1>2, <1>4 DEF LeaveGame, msVars
<1>5. ASSUME NEW m \in Maps, EnterMap(p, m) PROVE Recorded'
  BY <1>5, SubmitRecorded DEF EnterMap, msVars
<1>6. ASSUME NEW m \in Maps, LeaveMap(p, m) PROVE Recorded'
  BY <1>2, <1>6 DEF LeaveMap, msVars
<1>7. ASSUME NEW i \in Instances, AttachCross(p, i[1], i[2]) PROVE Recorded'
  BY <1>7, SubmitRecorded DEF AttachCross, msVars
<1> QED BY <1>3, <1>4, <1>5, <1>6, <1>7 DEF ClientStep

\* What is accepted is recorded, and whoever is live under its id is that enter.
LEMMA ReceiveRecorded ==
  ASSUME NewInv, NEW c \in Connection, Receive(c)
  PROVE  Recorded'
<1> DEFINE msg == Head(link[c])
           s   == c[3]
<1>1. TypeOK /\ s \in MapServers /\ link[c] \in Seq(Message) /\ link[c] # <<>> /\ UNCHANGED seq
  BY DEF NewInv, IDInv, TypeOK, Connection, Receive, Take, gsVars
<1>2. msg \in Message /\ link[c][1] = msg /\ 1 \in 1 .. Len(link[c])
  BY <1>1
<1>3. Live(msg)
  BY <1>2 DEF Live, OnLink
<1>4. \A m \in Message : Live(m)' => Live(m)
  BY <1>1, LiveKept
<1> HIDE DEF msg, s
<1>5. CASE UNCHANGED <<inbox, entered>>
  BY <1>1, <1>4, <1>5, QuietRecorded
<1>6. CASE HandleEnter(c, msg) /\ msg.id \notin inbox[s]
  <2>1. Land(s, msg) /\ inbox' = [inbox EXCEPT ![s] = @ \union {msg.id}]
    BY <1>6 DEF HandleEnter, s
  <2>2. inbox'[s] = inbox[s] \union {msg.id} /\ \A t \in MapServers : inbox[t] \subseteq inbox'[t]
    BY <1>1, <2>1 DEF TypeOK
  <2>3. entered' \subseteq entered \union {Enter(s, msg)}
    BY <2>1 DEF Land, Enter
  <2>4. msg.id[2] <= seq[msg.id[1]]
    BY <1>2, <1>3 DEF NewInv, IDInv, Allocated
  <2>5. Enter(s, msg).id = msg.id /\ Enter(s, msg).server = s
    BY DEF Enter
  <2>6. \A x \in entered : x.server \in MapServers
    BY <1>1 DEF TypeOK
  <2> HIDE DEF Message, Live
  <2> QED BY <1>1, <1>4, <2>2, <2>3, <2>4, <2>5, <2>6 DEF NewInv, Recorded
<1>7. CASE HandleEnter(c, msg) /\ msg.id \in inbox[s]
  BY <1>5, <1>7 DEF HandleEnter, msVars, s
<1>8. CASE HandleLeave(c, msg)
  BY <1>5, <1>8 DEF HandleLeave
<1> QED BY <1>6, <1>7, <1>8 DEF Receive, msg

LEMMA NewNext == NoRestart /\ NewInv /\ [Next]_vars => NewInv'
<1> SUFFICES ASSUME NoRestart, NewInv, [Next]_vars PROVE Recorded'
  BY IDNext DEF NewInv
<1>1. TypeOK
  BY DEF NewInv, IDInv
<1>2. ASSUME NEW p \in Players, ClientStep(p) PROVE Recorded'
  BY <1>2, ClientRecorded
<1>3. ASSUME NEW msg \in sending, SendStep(msg) PROVE Recorded'
  <2>1. UNCHANGED <<seq, inbox, entered>>
    BY <1>3 DEF SendStep, Sent, SendFails, msVars
  <2> QED BY <1>1, <1>3, <2>1, LiveKept, QuietRecorded
<1>4. ASSUME NEW g \in GameServers, Retry(g) PROVE Recorded'
  <2>1. UNCHANGED <<seq, inbox, entered>>
    BY <1>4 DEF Retry, Tick, RetryStep, GiveUp, Resend, ResendFails, msVars
  <2> QED BY <1>1, <1>4, <2>1, LiveKept, QuietRecorded
<1>5. ASSUME NEW g \in GameServers, Restart(g) PROVE Recorded'
  BY <1>1, <1>5, MapLinkAssumption DEF Restart, TypeOK, NoRestart, MapLinkAssumption
<1>6. ASSUME NEW c \in Connection, Receive(c) PROVE Recorded'
  BY <1>6, ReceiveRecorded
<1>7. ASSUME NEW s \in MapServers, CleanupInbox(s) PROVE Recorded'
  <2>1. \A m \in Message : Live(m)' => Live(m)
    BY <1>1, <1>7, LiveKept
  <2>2. ASSUME NEW m \in Message, NEW t \in MapServers, Live(m)', m.id \in inbox[t]
        PROVE  m.id \in inbox'[t]
    BY <1>1, <1>7, <2>1, <2>2, LiveOutstanding DEF CleanupInbox, TypeOK
  <2> QED BY <1>7, <2>1, <2>2, QuietRecorded DEF CleanupInbox, gsVars
<1>8. ASSUME NEW c \in Connection, Break(c) PROVE Recorded'
  BY <1>1, <1>8, LiveKept, QuietRecorded DEF Break, gsVars, msVars
<1>9. CASE UNCHANGED vars
  BY <1>1, <1>9, LiveKept, QuietRecorded DEF vars, gsVars, msVars
<1> QED BY <1>2, <1>3, <1>4, <1>5, <1>6, <1>7, <1>8, <1>9 DEF Next

\* Only an enter that is no repetition adds a player to a map.
LEMMA NewStep ==
  NewInv /\ [Next]_vars
    => [\A s \in MapServers : ~ present'[s] \subseteq present[s] => entered' # entered]_vars
<1> SUFFICES ASSUME NewInv, [Next]_vars, NEW s \in MapServers, ~ present'[s] \subseteq present[s]
             PROVE  entered' # entered
  OBVIOUS
<1>1. TypeOK
  BY DEF NewInv, IDInv
<1>2. \/ present' = present
      \/ \E c \in Connection : Receive(c)
  BY ZenonT(30) DEF Next, ClientStep, EnterGame, LeaveGame, RemovePlayer, EnterMap, LeaveMap,
         AttachCross, SendStep, Sent, SendFails, Retry, Tick, RetryStep, GiveUp, Resend,
         ResendFails, Restart, Break, CleanupInbox, vars, msVars
<1>3. PICK c \in Connection : Receive(c)
  BY <1>2
<1> DEFINE msg == Head(link[c])
           t   == c[3]
<1>4. t \in MapServers /\ link[c] \in Seq(Message) /\ link[c] # <<>>
  BY <1>1, <1>3 DEF TypeOK, Connection, Receive, Take
<1>5. msg \in Message /\ Live(msg)
  BY <1>4 DEF Live, OnLink
<1> HIDE DEF msg, t
<1>6. ~ HandleLeave(c, msg)
  <2> SUFFICES ASSUME HandleLeave(c, msg) PROVE present'[s] \subseteq present[s]
    OBVIOUS
  <2>1. present' = present \/ \E q : present' = [present EXCEPT ![t] = @ \ {q}]
    BY DEF HandleLeave, t
  <2> QED BY <1>1, <2>1 DEF TypeOK
<1>7. HandleEnter(c, msg)
  BY <1>3, <1>6 DEF Receive, msg
<1>8. msg.id \notin inbox[t] /\ Land(t, msg) /\ msg.map \in MapsAt[t]
  BY <1>7 DEF HandleEnter, Land, msVars, t
<1>9. Enter(t, msg) \in entered'
  BY <1>8 DEF Land, Enter
<1>10. Enter(t, msg) \notin entered
  BY <1>5, <1>8 DEF Enter, NewInv, Recorded
<1> QED BY <1>9, <1>10

\* handleMapEnterRequest drops every repetition while no process is restarted,
\* whatever the retries, breaks and clean-ups of its inbox: a player appears in a
\* map only by a request the MapServer had not applied before.
THEOREM MapLinkAppearsByNewRequest == NoRestart /\ Spec => AppearsByNewRequest
<1> SUFFICES ASSUME NoRestart PROVE Spec => AppearsByNewRequest
  OBVIOUS
<1>1. Init => NewInv
  BY IDInit DEF NewInv, Recorded, Init
<1>2. NewInv /\ [Next]_vars => NewInv'
  BY NewNext
<1> QED BY <1>1, <1>2, NewStep, PTL DEF Spec, AppearsByNewRequest

-----------------------------------------------------------------------------
(* Nobody is in a map he did not ask for *)

\* The client names the map he is in, and no cross enter is answered during a
\* logout.
Ordinary == Polite /\ ~ Racing

\* A live enter goes where the player was to go.
Called ==
  \A m \in Message : Live(m) /\ m.kind = "enter" => <<m.player, m.server, m.map>> \in asked

\* A packet is on a connection of the server it names.
Addressed == \A c \in Connection : \A i \in 1 .. Len(link[c]) : link[c][i].server = c[3]

\* Requests are sent by the realm of their player, an attachment only while he
\* is logged in.
Ours ==
  \A m \in sending :
    m.from = Realm[m.player] /\ (m.by = "attach" => m.player \in online \ leaving)

Attaching(p) == \E m \in sending : m.player = p /\ m.by = "attach"

Departing(p) == \E m \in sending : m.player = p /\ m.by = "lane" /\ IsCrossLeave(m)

\* A bound player is in a map, on his way into the instance or on his way out:
\* one who is in no map and waits for nothing is bound to no server.
Bound ==
  \A p \in Players : binding[p] # Nobody =>
    \/ p \in online \ leaving /\ (current[p] # Nobody \/ Attaching(p))
    \/ Departing(p)

TargetInv == TypeOK /\ Called /\ Addressed /\ Ours /\ Bound /\ StaysOnTarget

\* Steps that bring no enter to life and put nobody anywhere.
LEMMA QuietCalled ==
  ASSUME TypeOK, Called, asked \subseteq asked',
         \A m \in Message : Live(m)' /\ m.kind = "enter" =>
           Live(m) \/ <<m.player, m.server, m.map>> \in asked'
  PROVE  Called'
<1> HIDE DEF Live, Message
<1> QED BY DEF Called

LEMMA QuietAddressed ==
  ASSUME Addressed, UNCHANGED link
  PROVE  Addressed'
BY DEF Addressed

LEMMA QuietStays ==
  ASSUME StaysOnTarget, UNCHANGED present, asked \subseteq asked'
  PROVE  StaysOnTarget'
BY DEF StaysOnTarget

\* A request sends its player where he is bound, or to his realm.
LEMMA SubmitCalled ==
  ASSUME TargetInv, NEW p \in Players, NEW by \in {"lane", "attach"},
         NEW kind \in {"enter", "leave"}, NEW k \in Maps,
         NEW bound \in MapServers \union {Nobody}, Submit(p, by, kind, k, bound),
         UNCHANGED <<due, link>>, asked \subseteq asked',
         kind = "enter" => <<p, IF bound = Nobody THEN Home[Realm[p]] ELSE bound, k>> \in asked'
  PROVE  /\ Called'
         /\ \E msg : /\ sending' = sending \union {msg}
                     /\ msg.player = p /\ msg.from = Realm[p] /\ msg.by = by
                     /\ IsCrossLeave(msg) <=> kind = "leave" /\ bound # Nobody
<1> DEFINE g   == Realm[p]
           msg == [id |-> ComposeRequestID(g, seq[g] + 1), from |-> g, by |-> by,
                   kind |-> kind, player |-> p, map |-> k,
                   via    |-> IF bound = Nobody THEN "home" ELSE "cross",
                   server |-> IF bound = Nobody THEN Home[g] ELSE bound]
           entry == [msg |-> msg, attempts |-> 1]
<1>1. /\ msg.player = p /\ msg.from = Realm[p] /\ msg.by = by /\ msg.kind = kind
      /\ msg.map = k /\ entry.msg = msg
      /\ msg.server = IF bound = Nobody THEN Home[Realm[p]] ELSE bound
      /\ IsCrossLeave(msg) <=> kind = "leave" /\ bound # Nobody
  BY DEF IsCrossLeave
<1>2. /\ outbox' = [outbox EXCEPT ![g] = @ \union {entry}]
      /\ sending' = sending \union {msg}
  BY DEF Submit
<1> HIDE DEF g, msg, entry
<1>3. ASSUME NEW m \in Message, Live(m)' PROVE Live(m) \/ m = msg
  <2>1. Queued(m)' => Queued(m) \/ m = msg
    BY <1>1, <1>2 DEF Queued, TargetInv, TypeOK
  <2>2. OnLink(m)' => OnLink(m)
    BY DEF OnLink
  <2> QED BY <1>2, <1>3, <2>1, <2>2 DEF Live
<1>4. Called'
  BY <1>1, <1>3, QuietCalled DEF TargetInv
<1> QED BY <1>1, <1>2, <1>4

\* A player who may act and is in no map is bound to nobody.
LEMMA FreeUnbound ==
  ASSUME TargetInv, NEW p \in Players, current[p] = Nobody, ~ Attaching(p), ~ Sending(p, "lane")
  PROVE  binding[p] = Nobody
BY DEF TargetInv, Bound, Departing, Sending

LEMMA LeaveTarget ==
  ASSUME TargetInv, NEW p \in Players, NEW m \in Maps, LeaveHome(p, m) \/ LeaveCross(p, m),
         ClientMayAct(p), UNCHANGED <<due, asked, link, present, online>>,
         leaving' \subseteq leaving \union {p},
         \A q \in Players : q = p \/ current'[q] = current[q]
  PROVE  Called' /\ Addressed' /\ Ours' /\ Bound' /\ StaysOnTarget'
<1>1. TypeOK /\ binding[p] \in MapServers \union {Nobody}
  BY DEF TargetInv, TypeOK
<1>2. Addressed' /\ StaysOnTarget' /\ binding' = binding
  BY QuietAddressed, QuietStays DEF TargetInv, LeaveHome, LeaveCross
<1>3. \A n \in sending : n.player = p => n.by # "attach"
  BY DEF ClientMayAct, Sending
<1>4. CASE UNCHANGED <<seq, outbox, sending>> /\ binding[p] = Nobody
  <2>1. Called'
    BY <1>1, <1>4, QuietCalled DEF TargetInv, Live, Queued, OnLink
  <2>2. Ours'
    BY <1>3, <1>4 DEF TargetInv, Ours
  <2>3. Bound'
    BY <1>2, <1>4 DEF TargetInv, Bound, Attaching, Departing
  <2> QED BY <1>2, <2>1, <2>2, <2>3
<1>5. ASSUME NEW bound \in MapServers \union {Nobody}, Submit(p, "lane", "leave", m, bound),
             binding[p] = bound
      PROVE  Called' /\ Ours' /\ Bound'
  <2>1. Called'
    BY <1>5, SubmitCalled
  <2>2. PICK msg : /\ sending' = sending \union {msg}
                   /\ msg.player = p /\ msg.from = Realm[p] /\ msg.by = "lane"
                   /\ IsCrossLeave(msg) <=> bound # Nobody
    BY <1>5, SubmitCalled
  <2>3. Ours'
    BY <1>3, <2>2 DEF TargetInv, Ours
  <2>4. Bound'
    <3>1. \A q \in Players : /\ Attaching(q) => Attaching(q)'
                             /\ Departing(q) => Departing(q)'
      BY <2>2 DEF Attaching, Departing
    <3>2. binding[p] # Nobody => Departing(p)'
      BY <1>5, <2>2 DEF Departing
    <3> QED BY <1>2, <3>1, <3>2 DEF TargetInv, Bound
  <2> QED BY <2>1, <2>3, <2>4
<1>6. CASE LeaveCross(p, m)
  BY <1>1, <1>2, <1>5, <1>6 DEF LeaveCross
<1>7. CASE LeaveHome(p, m) /\ m \in Configured
  BY <1>2, <1>5, <1>7 DEF LeaveHome
<1>8. CASE LeaveHome(p, m) /\ m \notin Configured
  BY <1>4, <1>8 DEF LeaveHome
<1> QED BY <1>6, <1>7, <1>8

LEMMA ClientTarget ==
  ASSUME Ordinary, TargetInv, NEW p \in Players, ClientStep(p)
  PROVE  Called' /\ Addressed' /\ Ours' /\ Bound' /\ StaysOnTarget'
<1>1. TypeOK
  BY DEF TargetInv
<1>2. CASE EnterGame(p)
  <2>1. /\ online' = online \union {p}
        /\ UNCHANGED <<leaving, current, binding, sending, outbox, due, asked, link, present>>
    BY <1>2 DEF EnterGame, player, queues, msVars
  <2>2. Called' /\ Addressed' /\ StaysOnTarget'
    BY <1>1, <2>1, QuietCalled, QuietAddressed, QuietStays
       DEF TargetInv, Live, Queued, OnLink
  <2>3. Ours' /\ Bound'
    BY <2>1 DEF TargetInv, Ours, Bound, Attaching, Departing
  <2> QED BY <2>2, <2>3
<1>3. CASE RemovePlayer(p)
  <2>1. /\ online' = online \ {p} /\ leaving' = leaving \ {p}
        /\ current' = [current EXCEPT ![p] = Nobody] /\ p \in leaving /\ ~ Sending(p, "lane")
        /\ UNCHANGED <<binding, sending, outbox, due, asked, link, present>>
    BY <1>3 DEF RemovePlayer, queues, msVars
  <2>2. Called' /\ Addressed' /\ StaysOnTarget'
    BY <1>1, <2>1, QuietCalled, QuietAddressed, QuietStays
       DEF TargetInv, Live, Queued, OnLink
  <2>3. Ours'
    BY <2>1 DEF TargetInv, Ours
  <2>4. binding[p] = Nobody
    BY <2>1 DEF TargetInv, Bound, Departing, Sending
  <2>5. Bound'
    BY <1>1, <2>1, <2>4 DEF TargetInv, Bound, Attaching, Departing, TypeOK
  <2> QED BY <2>2, <2>3, <2>5
<1>4. CASE LeaveGame(p)
  <2>1. /\ ClientMayAct(p) /\ leaving' = leaving \union {p}
        /\ UNCHANGED <<online, current, due, asked, link, present>>
    BY <1>4 DEF LeaveGame, msVars, Ordinary
  <2>2. CASE current[p] # Nobody
    <3>1. current[p] \in Maps
      BY <1>1, <2>2 DEF TypeOK
    <3> QED BY <1>4, <2>1, <2>2, <3>1, LeaveTarget DEF LeaveGame
  <2>3. CASE current[p] = Nobody
    <3>1. UNCHANGED <<binding, sending, outbox>>
      BY <1>4, <2>3 DEF LeaveGame
    <3>2. \A m \in sending : m.player = p => m.by # "attach"
      BY <2>1 DEF ClientMayAct, Sending
    <3>3. binding[p] = Nobody
      BY <2>1, <2>3, <3>2, FreeUnbound DEF ClientMayAct, Attaching
    <3>4. Called' /\ Addressed' /\ StaysOnTarget'
      BY <1>1, <2>1, <3>1, QuietCalled, QuietAddressed, QuietStays
         DEF TargetInv, Live, Queued, OnLink
    <3>5. Ours'
      BY <2>1, <3>1, <3>2 DEF TargetInv, Ours
    <3>6. Bound'
      BY <2>1, <3>1, <3>3 DEF TargetInv, Bound, Attaching, Departing
    <3> QED BY <3>4, <3>5, <3>6
  <2> QED BY <2>2, <2>3
<1>5. ASSUME NEW m \in Maps, EnterMap(p, m)
      PROVE  Called' /\ Addressed' /\ Ours' /\ Bound' /\ StaysOnTarget'
  <2>1. /\ ClientMayAct(p) /\ current[p] = Nobody
        /\ asked' = asked \union {<<p, Home[Realm[p]], m>>}
        /\ Submit(p, "lane", "enter", m, binding[p])
        /\ current' = [current EXCEPT ![p] = m]
        /\ UNCHANGED <<online, leaving, binding, due, link, present>>
    BY <1>5 DEF EnterMap, lobby, msVars, Ordinary
  <2>2. binding[p] = Nobody
    BY <2>1, FreeUnbound DEF ClientMayAct, Attaching, Sending
  <2>3. Submit(p, "lane", "enter", m, Nobody)
    BY <2>1, <2>2
  <2>4. /\ Called'
        /\ \E msg : /\ sending' = sending \union {msg}
                    /\ msg.player = p /\ msg.from = Realm[p] /\ msg.by = "lane"
    <3>1. asked \subseteq asked' /\ <<p, Home[Realm[p]], m>> \in asked'
      BY <2>1
    <3>2. Nobody \in MapServers \union {Nobody} /\ "lane" \in {"lane", "attach"}
          /\ "enter" \in {"enter", "leave"}
      OBVIOUS
    <3>3. "enter" = "enter" => <<p, IF Nobody = Nobody THEN Home[Realm[p]] ELSE Nobody, m>>
            \in asked'
      BY <3>1
    <3>4. UNCHANGED <<due, link>>
      BY <2>1
    <3> QED BY <2>3, <3>1, <3>2, <3>3, <3>4, SubmitCalled
  <2>5. PICK msg : /\ sending' = sending \union {msg}
                   /\ msg.player = p /\ msg.from = Realm[p] /\ msg.by = "lane"
    BY <2>4
  <2>6. Addressed' /\ StaysOnTarget'
    BY <2>1, QuietAddressed, QuietStays DEF TargetInv
  <2>7. Ours'
    BY <2>1, <2>5 DEF TargetInv, Ours
  <2>8. Bound'
    <3>1. \A q \in Players : /\ Attaching(q) => Attaching(q)'
                             /\ Departing(q) => Departing(q)'
                             /\ q # p => current'[q] = current[q]
      BY <1>1, <2>1, <2>5 DEF Attaching, Departing, TypeOK
    <3> QED BY <2>1, <2>2, <3>1 DEF TargetInv, Bound
  <2> QED BY <2>4, <2>6, <2>7, <2>8
<1>6. ASSUME NEW m \in Maps, LeaveMap(p, m)
      PROVE  Called' /\ Addressed' /\ Ours' /\ Bound' /\ StaysOnTarget'
  <2>1. /\ ClientMayAct(p) /\ (LeaveHome(p, m) \/ LeaveCross(p, m))
        /\ current' = [current EXCEPT ![p] = Nobody]
        /\ UNCHANGED <<online, leaving, due, asked, link, present>>
    BY <1>6 DEF LeaveMap, lobby, msVars
  <2>2. \A q \in Players : q = p \/ current'[q] = current[q]
    BY <1>1, <2>1 DEF TypeOK
  <2> QED BY <2>1, <2>2, LeaveTarget
<1>7. ASSUME NEW s \in MapServers, NEW m \in Maps, AttachCross(p, s, m)
      PROVE  Called' /\ Addressed' /\ Ours' /\ Bound' /\ StaysOnTarget'
  <2>1. s # Nobody
    BY MapLinkAssumption DEF MapLinkAssumption
  <2>2. /\ p \in online \ leaving
        /\ binding' = [binding EXCEPT ![p] = s]
        /\ asked' = asked \union {<<p, s, m>>}
        /\ Submit(p, "attach", "enter", m, s)
        /\ UNCHANGED <<online, leaving, current, due, link, present>>
    BY <1>7 DEF AttachCross, ClientMayAct, lobby, msVars, Ordinary
  <2>3. /\ Called'
        /\ \E msg : /\ sending' = sending \union {msg}
                    /\ msg.player = p /\ msg.from = Realm[p] /\ msg.by = "attach"
    <3>1. asked \subseteq asked' /\ <<p, s, m>> \in asked'
      BY <2>2
    <3>2. s \in MapServers \union {Nobody} /\ "attach" \in {"lane", "attach"}
          /\ "enter" \in {"enter", "leave"}
      BY <2>1
    <3>3. "enter" = "enter" => <<p, IF s = Nobody THEN Home[Realm[p]] ELSE s, m>> \in asked'
      BY <2>1, <3>1
    <3>4. UNCHANGED <<due, link>>
      BY <2>2
    <3>5. Submit(p, "attach", "enter", m, s)
      BY <2>2
    <3> QED BY <3>1, <3>2, <3>3, <3>4, <3>5, SubmitCalled
  <2>4. PICK msg : /\ sending' = sending \union {msg}
                   /\ msg.player = p /\ msg.from = Realm[p] /\ msg.by = "attach"
    BY <2>3
  <2>5. Addressed' /\ StaysOnTarget'
    BY <2>2, QuietAddressed, QuietStays DEF TargetInv
  <2>6. Ours'
    BY <2>2, <2>4 DEF TargetInv, Ours
  <2>7. Bound'
    <3>1. \A q \in Players : /\ Attaching(q) => Attaching(q)'
                             /\ Departing(q) => Departing(q)'
                             /\ q # p => binding'[q] = binding[q]
      BY <1>1, <2>2, <2>4 DEF Attaching, Departing, TypeOK
    <3>2. Attaching(p)'
      BY <2>4 DEF Attaching
    <3> QED BY <2>2, <3>1, <3>2 DEF TargetInv, Bound
  <2> QED BY <2>3, <2>5, <2>6, <2>7
<1>8. \A i \in Instances : i[1] \in MapServers /\ i[2] \in Maps
  BY MapLinkAssumption DEF MapLinkAssumption
<1> QED BY <1>2, <1>3, <1>4, <1>5, <1>6, <1>7, <1>8 DEF ClientStep

\* A message put on its own connection is on one of the server it names.
LEMMA TransmitAddressed ==
  ASSUME TypeOK, Addressed, NEW msg \in Message, Transmit(Route(msg), msg)
  PROVE  Addressed'
<1> SUFFICES ASSUME NEW d \in Connection, NEW i \in 1 .. Len(link'[d])
             PROVE  link'[d][i].server = d[3]
  BY DEF Addressed
<1>1. link \in [Connection -> Seq(Message)] /\ link[d] \in Seq(Message)
  BY DEF TypeOK
<1>2. CASE d = Route(msg)
  <2>1. link'[d] = Append(link[d], msg) /\ d[3] = msg.server
    BY <1>1, <1>2 DEF Transmit, Route
  <2> QED BY <1>1, <2>1 DEF Addressed
<1>3. CASE d # Route(msg)
  <2>1. link'[d] = link[d]
    BY <1>1, <1>3 DEF Transmit
  <2> QED BY <2>1 DEF Addressed
<1> QED BY <1>2, <1>3

\* Whoever is attached is in the instance afterwards, and whoever could not be or
\* has left is unbound.
LEMMA SendTarget ==
  ASSUME TargetInv, NEW msg \in sending, SendStep(msg)
  PROVE  Called' /\ Addressed' /\ Ours' /\ Bound' /\ StaysOnTarget'
<1>1. TypeOK /\ msg \in Message /\ msg.player \in Players /\ msg.map \in Maps
      /\ (msg.kind = "leave" \/ msg.kind = "enter") /\ (msg.by = "lane" \/ msg.by = "attach")
  BY DEF TargetInv, TypeOK, Message
<1>2. /\ sending' = sending \ {msg}
      /\ UNCHANGED <<online, leaving, asked, present>>
      /\ Transmit(Route(msg), msg) \/ UNCHANGED link
  BY DEF SendStep, Sent, SendFails, lobby, msVars
<1>3. Called'
  BY <1>1, <1>2, LiveKept, QuietCalled DEF TargetInv
<1>4. Addressed' /\ StaysOnTarget'
  BY <1>1, <1>2, TransmitAddressed, QuietAddressed, QuietStays DEF TargetInv
<1>5. Ours'
  BY <1>2 DEF TargetInv, Ours
<1>6. Bound'
  <2> DEFINE q == msg.player
  <2>1. q \in Players
    BY <1>1
  <2>2. \A p \in Players : p # q => /\ Attaching(p) <=> Attaching(p)'
                                    /\ Departing(p) <=> Departing(p)'
                                    /\ current'[p] = current[p] /\ binding'[p] = binding[p]
    BY <1>1, <1>2 DEF Attaching, Departing, SendStep, Sent, SendFails, Unbind, TypeOK
  <2>3. CASE binding'[q] = Nobody
    BY <1>2, <2>2, <2>3 DEF TargetInv, Bound
  <2>4. CASE binding'[q] # Nobody
    <3>1. binding'[q] = binding[q] /\ ~ IsCrossLeave(msg)
      BY <1>1, <2>4 DEF SendStep, Sent, SendFails, Unbind, TypeOK
    <3>2. Departing(q) => Departing(q)'
      BY <1>2, <3>1 DEF Departing
    <3>3. CASE msg.by = "lane"
      <4>1. current' = current
        BY <3>3 DEF SendStep, Sent, SendFails
      <4>2. Attaching(q) => Attaching(q)'
        BY <1>2, <3>3 DEF Attaching
      <4> QED BY <1>2, <2>2, <3>1, <3>2, <4>1, <4>2 DEF TargetInv, Bound
    <3>4. CASE msg.by = "attach"
      <4>1. q \in online \ leaving
        BY <3>4 DEF TargetInv, Ours
      <4>2. Sent(msg)
        BY <1>1, <2>4, <3>4 DEF SendStep, SendFails, Unbind, TypeOK
      <4>3. current'[q] = msg.map /\ msg.map # Nobody
        BY <1>1, <3>4, <4>1, <4>2, MapLinkAssumption DEF Sent, TypeOK, MapLinkAssumption
      <4> QED BY <1>2, <2>2, <4>1, <4>3 DEF TargetInv, Bound
    <3> QED BY <1>1, <3>3, <3>4
  <2> QED BY <2>3, <2>4
<1> QED BY <1>3, <1>4, <1>5, <1>6

LEMMA RetryTarget ==
  ASSUME TargetInv, NEW g \in GameServers, Retry(g)
  PROVE  Called' /\ Addressed' /\ Ours' /\ Bound' /\ StaysOnTarget'
<1>1. TypeOK
  BY DEF TargetInv
<1>2. /\ UNCHANGED <<online, leaving, asked, present, sending, current, binding>>
      /\ UNCHANGED link \/ \E e \in due[g] : Transmit(Route(e.msg), e.msg)
  BY DEF Retry, Tick, RetryStep, GiveUp, Resend, ResendFails, lobby, player, msVars
<1>3. Called' /\ StaysOnTarget'
  BY <1>1, <1>2, LiveKept, QuietCalled, QuietStays DEF TargetInv
<1>4. \A e \in due[g] : e.msg \in Message
  BY <1>1 DEF TypeOK, Entry
<1>5. Addressed'
  BY <1>1, <1>2, <1>4, TransmitAddressed, QuietAddressed DEF TargetInv
<1>6. Ours' /\ Bound'
  BY <1>2 DEF TargetInv, Ours, Bound, Attaching, Departing
<1> QED BY <1>3, <1>5, <1>6

\* A crash takes the players of the realm and their requests with it.
LEMMA RestartTarget ==
  ASSUME TargetInv, NEW g \in GameServers, Restart(g)
  PROVE  Called' /\ Addressed' /\ Ours' /\ Bound' /\ StaysOnTarget'
<1> DEFINE mine == {p \in Players : Realm[p] = g}
<1>1. TypeOK
  BY DEF TargetInv
<1>2. /\ online' = online \ mine /\ leaving' = leaving \ mine
      /\ current' = [p \in Players |-> IF p \in mine THEN Nobody ELSE current[p]]
      /\ binding' = [p \in Players |-> IF p \in mine THEN Nobody ELSE binding[p]]
      /\ sending' = {m \in sending : m.from # g}
      /\ outbox' = [outbox EXCEPT ![g] = {}] /\ due' = [due EXCEPT ![g] = {}]
      /\ UNCHANGED <<asked, link, present>>
  BY DEF Restart, msVars
<1>3. \A m \in Message : Live(m)' => Live(m)
  BY <1>1, <1>2 DEF Live, Queued, OnLink, TypeOK
<1>4. Called' /\ Addressed' /\ StaysOnTarget'
  BY <1>1, <1>2, <1>3, QuietCalled, QuietAddressed, QuietStays DEF TargetInv
<1>5. \A m \in sending : m.player \in Players /\ m.from = Realm[m.player]
  BY <1>1 DEF TargetInv, Ours, TypeOK, Message
<1>6. Ours'
  BY <1>2, <1>5 DEF TargetInv, Ours
<1>7. Bound'
  <2>1. \A p \in Players : p \notin mine => /\ Attaching(p) => Attaching(p)'
                                            /\ Departing(p) => Departing(p)'
    BY <1>2, <1>5 DEF Attaching, Departing
  <2> QED BY <1>2, <2>1 DEF TargetInv, Bound
<1> QED BY <1>4, <1>6, <1>7

\* An enter puts its player where it was sent.
LEMMA ReceiveTarget ==
  ASSUME TargetInv, NEW c \in Connection, Receive(c)
  PROVE  Called' /\ Addressed' /\ Ours' /\ Bound' /\ StaysOnTarget'
<1> DEFINE msg == Head(link[c])
           s   == c[3]
<1>1. /\ TypeOK /\ s \in MapServers /\ link[c] \in Seq(Message) /\ link[c] # <<>>
      /\ link \in [Connection -> Seq(Message)]
      /\ link' = [link EXCEPT ![c] = Tail(@)]
      /\ UNCHANGED <<online, leaving, asked, sending, current, binding>>
  BY DEF TargetInv, TypeOK, Connection, Receive, Take, gsVars, lobby, player
<1>2. msg \in Message /\ link[c][1] = msg /\ 1 \in 1 .. Len(link[c])
  BY <1>1
<1>3. Live(msg) /\ msg.server = s
  BY <1>2 DEF Live, OnLink, TargetInv, Addressed
<1>4. Called'
  BY <1>1, LiveKept, QuietCalled DEF TargetInv
<1>5. Addressed'
  <2> SUFFICES ASSUME NEW d \in Connection, NEW i \in 1 .. Len(link'[d])
               PROVE  link'[d][i].server = d[3]
    BY DEF Addressed
  <2>1. CASE d = c
    <3>1. link'[c] = Tail(link[c])
      BY <1>1
    <3>2. i + 1 \in 1 .. Len(link[c]) /\ link'[c][i] = link[c][i + 1]
      BY <1>1, <2>1, <3>1
    <3> QED BY <2>1, <3>2 DEF TargetInv, Addressed
  <2>2. CASE d # c
    <3>1. link'[d] = link[d]
      BY <1>1, <2>2
    <3> QED BY <3>1 DEF TargetInv, Addressed
  <2> QED BY <2>1, <2>2
<1>6. Ours' /\ Bound'
  BY <1>1 DEF TargetInv, Ours, Bound, Attaching, Departing
<1> HIDE DEF msg, s
<1>7. \/ \A t \in MapServers : present'[t] \subseteq present[t]
      \/ /\ msg.kind = "enter"
         /\ present' = [present EXCEPT ![s] = @ \union {<<msg.player, msg.map>>}]
  <2>1. CASE HandleEnter(c, msg)
    BY <2>1 DEF HandleEnter, Land, msVars, s
  <2>2. CASE HandleLeave(c, msg)
    <3>1. present' = present \/ \E q : present' = [present EXCEPT ![s] = @ \ {q}]
      BY <2>2 DEF HandleLeave, s
    <3> QED BY <1>1, <3>1 DEF TypeOK
  <2> QED BY <2>1, <2>2 DEF Receive, msg
<1>8. StaysOnTarget'
  <2>1. CASE \A t \in MapServers : present'[t] \subseteq present[t]
    BY <1>1, <2>1 DEF TargetInv, StaysOnTarget
  <2>2. CASE /\ msg.kind = "enter"
             /\ present' = [present EXCEPT ![s] = @ \union {<<msg.player, msg.map>>}]
    <3>1. <<msg.player, s, msg.map>> \in asked
      BY <1>2, <1>3, <2>2 DEF TargetInv, Called
    <3>2. \A t \in MapServers : \A q \in present'[t] :
            q \in present[t] \/ (t = s /\ q = <<msg.player, msg.map>>)
      BY <1>1, <2>2 DEF TypeOK
    <3>3. ASSUME NEW t \in MapServers, NEW q \in present'[t]
          PROVE  <<q[1], t, q[2]>> \in asked
      <4>1. CASE q \in present[t]
        BY <4>1 DEF TargetInv, StaysOnTarget
      <4>2. CASE t = s /\ q = <<msg.player, msg.map>>
        BY <3>1, <4>2
      <4> QED BY <3>2, <4>1, <4>2
    <3> QED BY <1>1, <3>3 DEF StaysOnTarget
  <2> QED BY <1>7, <2>1, <2>2
<1> QED BY <1>4, <1>5, <1>6, <1>8

LEMMA TargetInit == Init => TargetInv
<1> SUFFICES ASSUME Init PROVE TargetInv
  OBVIOUS
<1>1. \A m : ~ Live(m)
  BY DEF Init, Live, Queued, OnLink
<1>2. Addressed
  BY DEF Init, Addressed
<1>3. Called /\ Ours /\ Bound /\ StaysOnTarget
  BY <1>1 DEF Init, Called, Ours, Bound, StaysOnTarget
<1> QED BY <1>2, <1>3, TypeInit DEF TargetInv

LEMMA TargetNext == Ordinary /\ TargetInv /\ [Next]_vars => TargetInv'
<1> SUFFICES ASSUME Ordinary, TargetInv, [Next]_vars
             PROVE  Called' /\ Addressed' /\ Ours' /\ Bound' /\ StaysOnTarget'
  BY TypeNext DEF TargetInv
<1>1. TypeOK
  BY DEF TargetInv
<1>2. ASSUME NEW s \in MapServers, CleanupInbox(s)
      PROVE  Called' /\ Addressed' /\ Ours' /\ Bound' /\ StaysOnTarget'
  <2>1. UNCHANGED <<gsVars, link, present>>
    BY <1>2 DEF CleanupInbox
  <2> QED BY <1>1, <1>2, <2>1, LiveKept, QuietCalled, QuietAddressed, QuietStays
          DEF TargetInv, Ours, Bound, Attaching, Departing, gsVars, lobby, player
<1>3. ASSUME NEW c \in Connection, Break(c)
      PROVE  Called' /\ Addressed' /\ Ours' /\ Bound' /\ StaysOnTarget'
  <2>1. /\ UNCHANGED <<lobby, player, queues, seq, local, sending, asked, msVars>>
        /\ link' = [link EXCEPT ![c] = <<>>]
    BY <1>3 DEF Break
  <2>2. Addressed'
    <3>1. \A d \in Connection : link'[d] = link[d] \/ link'[d] = <<>>
      BY <1>1, <2>1 DEF TypeOK
    <3> QED BY <3>1 DEF TargetInv, Addressed
  <2>3. Called' /\ StaysOnTarget'
    BY <1>1, <1>3, <2>1, LiveKept, QuietCalled, QuietStays DEF TargetInv, msVars
  <2>4. Ours' /\ Bound'
    BY <2>1 DEF TargetInv, Ours, Bound, Attaching, Departing, lobby, player
  <2> QED BY <2>2, <2>3, <2>4
<1>4. CASE UNCHANGED vars
  <2>1. UNCHANGED <<gsVars, msVars, link>>
    BY <1>4 DEF vars
  <2>2. Called' /\ Addressed' /\ StaysOnTarget'
    BY <1>1, <1>4, <2>1, LiveKept, QuietCalled, QuietAddressed, QuietStays
       DEF TargetInv, gsVars, msVars
  <2>3. Ours' /\ Bound'
    BY <2>1 DEF TargetInv, Ours, Bound, Attaching, Departing, gsVars, lobby, player
  <2> QED BY <2>2, <2>3
<1> QED BY <1>2, <1>3, <1>4, ClientTarget, SendTarget, RetryTarget, RestartTarget,
          ReceiveTarget DEF Next

\* Neither the retries nor the crashes of a GameServer, broken connections or a
\* binding that a failed attachment or an unsent leave left over send a player to
\* a map of the same id elsewhere, as long as clients name the map they are in
\* and no cross enter is answered during a logout.
THEOREM MapLinkStaysOnTarget == Ordinary /\ Spec => []StaysOnTarget
<1> SUFFICES ASSUME Ordinary PROVE Spec => []StaysOnTarget
  OBVIOUS
<1>1. Init => TargetInv
  BY TargetInit
<1>2. TargetInv /\ [Next]_vars => TargetInv'
  BY TargetNext
<1>3. TargetInv => StaysOnTarget
  BY DEF TargetInv
<1> QED BY <1>1, <1>2, <1>3, PTL DEF Spec

-----------------------------------------------------------------------------
(* GameServer and MapServer agree at rest *)

\* Clients are ordinary and no GameServer restarts.
Steady == Ordinary /\ NoRestart

\* The maps exist where they are looked for, and an instance has an id of its own:
\* the pool of NewMapManager counts from 100000.
Sited ==
  /\ \A p \in Players : Configured \subseteq MapsAt[Home[Realm[p]]]
  /\ \A i \in Instances : i[2] \in MapsAt[i[1]] \ Configured

InOutbox(m) == \E g \in GameServers : \E e \in outbox[g] : e.msg = m

\* m may still be sent.
Held(m) == m \in sending \/ Queued(m)

\* The live requests of p to s.
To(p, s) == {m \in Message : Live(m) /\ m.player = p /\ m.server = s}

Number(m) == m.id[2]

\* A request of p to s was given up, overtaken, lost or refused.
Lost(p, s) == <<p, s>> \in astray \/ \E m \in dead : m.player = p /\ m.server = s

\* Two requests of one player to one server, where none went astray.
Akin(x, y) == x.player = y.player /\ x.server = y.server /\ ~ Lost(x.player, x.server)

\* Every request goes to the one server and over the one connection its map is behind.
Posted ==
  /\ \A m \in Message : Live(m) =>
       /\ m.from = Realm[m.player]
       /\ \/ m.via = "home" /\ m.server = Home[m.from] /\ m.map \in Configured
          \/ m.via = "cross" /\ <<m.server, m.map>> \in Instances
  /\ \A g \in GameServers : \A e \in outbox[g] \union due[g] : e.msg.from = g
  /\ \A c \in Connection : \A i \in 1 .. Len(link[c]) : Route(link[c][i]) = c

\* Where a binding comes from and what becomes of it.
Placed ==
  /\ \A p \in Players : binding[p] # Nobody =>
       /\ \E i \in Instances : i[1] = binding[p]
       /\ ~ Attaching(p) /\ current[p] # Nobody => <<binding[p], current[p]>> \in Instances
  /\ \A m \in sending :
       /\ m.by = "attach" => m.kind = "enter" /\ m.via = "cross"
       /\ m.by = "attach" \/ IsCrossLeave(m) => m.server = binding[m.player]
       /\ IsCrossLeave(m) => current[m.player] = Nobody \/ m.player \in leaving
  /\ \A m, n \in sending : m.player = n.player => m = n

\* A player's requests to a server go one way and in order: a pending one is his latest,
\* and so on every connection.
InOrder ==
  /\ \A x, y \in Message : Held(x) /\ Live(y) /\ Akin(x, y) => Number(y) <= Number(x)
  /\ \A x, y \in Message : Live(x) /\ Live(y) /\ Akin(x, y) => Route(x) = Route(y)
  /\ \A c \in Connection : \A i, j \in 1 .. Len(link[c]) :
       i < j /\ Akin(link[c][i], link[c][j]) => Number(link[c][i]) <= Number(link[c][j])

\* Nothing of an earlier request is left on the way to x's server.
First(x) == \A y \in To(x.player, x.server) : Number(x) <= Number(y)

\* The player of x is where x has put him.
After(x) ==
  LET s == x.server
      p == x.player
  IN  IF x.kind = "enter" THEN where[s][p] = x.map /\ <<p, x.map>> \in present[s]
      ELSE where[s][p] = Nobody /\ <<p, x.map>> \notin present[s]

\* A repetition finds the player where the request has put him.
Repeated ==
  \A x \in Message, s \in MapServers :
    Live(x) /\ x.server = s /\ ~ Lost(x.player, s) /\ x.kind = "enter" /\ x.id \in inbox[s] =>
      First(x) /\ After(x)

\* What has left the outbox, and was not given up, is on its way or there.
Delivered ==
  \A x \in Message : Held(x) /\ ~ InOutbox(x) /\ ~ Lost(x.player, x.server) =>
    OnLink(x) \/ (First(x) /\ After(x))

\* When the requests of p to s before number n have been handled, p is in map m there,
\* or in none.
Before(p, s, n, m) ==
  LET earlier == {y \in To(p, s) : Number(y) < n}
  IN  /\ earlier = {} => where[s][p] \in {m, Nobody}
      /\ \A y \in earlier : (\A z \in earlier : Number(z) <= Number(y)) => y.map = m

\* A leave finds the player in the map it names.
LeavesOwnMap ==
  \A x \in Message :
    Live(x) /\ x.kind = "leave" /\ ~ Lost(x.player, x.server) =>
      Before(x.player, x.server, Number(x), x.map)

\* The server p's next leave goes to.
Here(p) == IF binding[p] = Nobody \/ Attaching(p) THEN Home[Realm[p]] ELSE binding[p]

\* p is being attached to an instance on his realm's MapServer.
AttachingHome(p) == Attaching(p) /\ binding[p] = Home[Realm[p]]

KnowsMap ==
  \A p \in Players :
    current[p] # Nobody /\ p \notin leaving /\ ~ Lost(p, Here(p)) /\ ~ AttachingHome(p) =>
      Before(p, Here(p), MaxSeq + 1, current[p])

\* When all has been handled p is in map m of s exactly if `in`.
Comes(p, s, m, in) ==
  LET about == {y \in To(p, s) : y.map = m}
  IN  /\ about = {} => (<<p, m>> \in present[s] <=> in)
      /\ \A y \in about : (\A z \in about : Number(z) <= Number(y)) => (y.kind = "enter" <=> in)

HomeComes ==
  \A p \in Players : ~ Lost(p, Home[Realm[p]]) =>
    \A m \in Configured : Comes(p, Home[Realm[p]], m, <<p, m>> \in local[Realm[p]])

\* p is in instance i, or being attached to it.
In(p, i) ==
  \/ ~ Attaching(p) /\ ~ Departing(p) /\ binding[p] = i[1] /\ current[p] = i[2]
  \/ \E m \in sending : m.player = p /\ m.by = "attach" /\ m.server = i[1] /\ m.map = i[2]

InstanceComes ==
  \A p \in Players : \A i \in Instances :
    ~ Lost(p, i[1]) => Comes(p, i[1], i[2], In(p, i))

Ordered ==
  Posted /\ Placed /\ InOrder /\ Repeated /\ Delivered /\ LeavesOwnMap /\ KnowsMap

AgreeInv == IDInv /\ TargetInv /\ Ordered

LEMMA NumberType ==
  /\ \A x \in Message : Number(x) \in Nat
  /\ \A p, s : To(p, s) \subseteq Message
<1>1. \A x \in Message : x.id \in RequestID
  BY DEF Message
<1> QED BY <1>1 DEF Number, To, RequestID

\* What holds of a player on a server depends on what is live and where he is.
LEMMA NothingMoves ==
  ASSUME NEW p \in Players, NEW s \in MapServers, To(p, s)' = To(p, s),
         where'[s][p] = where[s][p],
         \A m \in Maps : <<p, m>> \in present'[s] <=> <<p, m>> \in present[s]
  PROVE  /\ \A n \in Nat, m \in Maps : Before(p, s, n, m) => Before(p, s, n, m)'
         /\ \A m \in Maps, in \in BOOLEAN : Comes(p, s, m, in) => Comes(p, s, m, in)'
BY DEF Before, Comes, Number

\* The first live request is handled, and is live no more or to be repeated.
LEMMA FirstHandled ==
  ASSUME NEW p \in Players, NEW s \in MapServers, NEW x \in To(p, s),
         \A y \in To(p, s) : Number(x) <= Number(y),
         \A y \in To(p, s) : Number(x) = Number(y) => y = x,
         To(p, s)' = To(p, s) \/ To(p, s)' = To(p, s) \ {x},
         where'[s][p] = IF x.kind = "enter" THEN x.map ELSE Nobody,
         <<p, x.map>> \in present'[s] <=> x.kind = "enter",
         \A m \in Maps : m # x.map => (<<p, m>> \in present'[s] <=> <<p, m>> \in present[s])
  PROVE  /\ \A n \in Nat, m \in Maps :
              Before(p, s, n, m) /\ (Number(x) < n \/ x.kind = "leave") => Before(p, s, n, m)'
         /\ \A m \in Maps, in \in BOOLEAN : Comes(p, s, m, in) => Comes(p, s, m, in)'
<1> DEFINE T == To(p, s)
           U == To(p, s)'
<1>1. /\ \A y \in T : Number(y) \in Nat
      /\ U \subseteq T /\ x \in T
      /\ \A y \in T : y # x => y \in U
      /\ \A y \in T : y # x => Number(x) < Number(y)
  BY NumberType
<1>2. ASSUME NEW n \in Nat, NEW m \in Maps, Before(p, s, n, m),
             Number(x) < n \/ x.kind = "leave"
      PROVE  Before(p, s, n, m)'
  <2> DEFINE E == {y \in T : Number(y) < n}
             F == {y \in U : Number(y) < n}
  <2>1. /\ E = {} => where[s][p] \in {m, Nobody}
        /\ \A y \in E : (\A z \in E : Number(z) <= Number(y)) => y.map = m
    BY <1>2 DEF Before
  <2>2. SUFFICES /\ F = {} => where'[s][p] \in {m, Nobody}
                 /\ \A y \in F : (\A z \in F : Number(z) <= Number(y)) => y.map = m
    BY DEF Before, Number
  <2>3. CASE x \notin E
    BY <1>1, <1>2, <2>3
  <2>4. CASE x \in E /\ F = {}
    <3>1. \A z \in E : z = x
      BY <1>1, <2>4
    <3>2. x.map = m
      BY <1>1, <2>1, <2>4, <3>1
    <3> QED BY <2>4, <3>2
  <2>5. CASE x \in E /\ F # {}
    <3> SUFFICES ASSUME NEW y \in F, \A z \in F : Number(z) <= Number(y) PROVE y.map = m
      BY <2>5
    <3>1. y \in E /\ Number(x) <= Number(y)
      BY <1>1
    <3>2. \A z \in E : z \in F \/ z = x
      BY <1>1
    <3> QED BY <2>1, <3>1, <3>2
  <2> QED BY <2>3, <2>4, <2>5
<1>3. ASSUME NEW m \in Maps, NEW in \in BOOLEAN, Comes(p, s, m, in) PROVE Comes(p, s, m, in)'
  <2> DEFINE E == {y \in T : y.map = m}
             F == {y \in U : y.map = m}
  <2>1. /\ E = {} => (<<p, m>> \in present[s] <=> in)
        /\ \A y \in E : (\A z \in E : Number(z) <= Number(y)) => (y.kind = "enter" <=> in)
    BY <1>3 DEF Comes
  <2>2. SUFFICES /\ F = {} => (<<p, m>> \in present'[s] <=> in)
                 /\ \A y \in F : (\A z \in F : Number(z) <= Number(y)) => (y.kind = "enter" <=> in)
    BY DEF Comes, Number
  <2>3. CASE x \notin E
    <3>1. x.map # m
      BY <1>1, <2>3
    <3>2. E = F
      BY <1>1, <2>3
    <3> QED BY <2>1, <3>1, <3>2
  <2>4. CASE x \in E /\ F = {}
    <3>1. \A z \in E : z = x
      BY <1>1, <2>4
    <3>2. x.map = m /\ (x.kind = "enter" <=> in)
      BY <1>1, <2>1, <2>4, <3>1
    <3> QED BY <2>4, <3>2
  <2>5. CASE x \in E /\ F # {}
    <3> SUFFICES ASSUME NEW y \in F, \A z \in F : Number(z) <= Number(y)
                 PROVE  y.kind = "enter" <=> in
      BY <2>5
    <3>1. y \in E /\ Number(x) <= Number(y)
      BY <1>1
    <3>2. \A z \in E : z \in F \/ z = x
      BY <1>1
    <3> QED BY <2>1, <3>1, <3>2
  <2> QED BY <2>3, <2>4, <2>5
<1> QED BY <1>2, <1>3

\* A new request is the last.
LEMMA LastAdded ==
  ASSUME NEW p \in Players, NEW s \in MapServers, NEW x \in Message,
         \A y \in To(p, s) : Number(y) < Number(x),
         To(p, s)' = To(p, s) \union {x},
         where'[s][p] = where[s][p],
         \A m \in Maps : <<p, m>> \in present'[s] <=> <<p, m>> \in present[s]
  PROVE  /\ \A n \in Nat, m \in Maps :
              n <= Number(x) /\ Before(p, s, n, m) => Before(p, s, n, m)'
         /\ \A n \in Nat : Number(x) < n => Before(p, s, n, x.map)'
         /\ \A m \in Maps, in \in BOOLEAN :
              Comes(p, s, m, in) /\ m # x.map => Comes(p, s, m, in)'
         /\ Comes(p, s, x.map, x.kind = "enter")'
<1> DEFINE T == To(p, s)
           U == To(p, s)'
<1>1. /\ \A y \in T : Number(y) \in Nat
      /\ Number(x) \in Nat /\ x \in U /\ x \notin T /\ U = T \union {x}
      /\ \A y \in U : Number(y) <= Number(x)
  BY NumberType
<1>2. ASSUME NEW n \in Nat, NEW m \in Maps, n <= Number(x), Before(p, s, n, m)
      PROVE  Before(p, s, n, m)'
  <2>1. {y \in U : Number(y) < n} = {y \in T : Number(y) < n}
    BY <1>1, <1>2
  <2> QED BY <1>2, <2>1 DEF Before, Number
<1>3. ASSUME NEW n \in Nat, Number(x) < n
      PROVE  Before(p, s, n, x.map)'
  <2>1. \A y \in U : (\A z \in U : Number(z) < n => Number(z) <= Number(y)) => y = x
    BY <1>1, <1>3
  <2> QED BY <1>1, <1>3, <2>1 DEF Before, Number
<1>4. ASSUME NEW m \in Maps, NEW in \in BOOLEAN, Comes(p, s, m, in), m # x.map
      PROVE  Comes(p, s, m, in)'
  <2>1. {y \in U : y.map = m} = {y \in T : y.map = m}
    BY <1>1, <1>4
  <2> QED BY <1>4, <2>1 DEF Comes, Number
<1>5. Comes(p, s, x.map, x.kind = "enter")'
  <2>1. \A y \in U : (\A z \in U : z.map = x.map => Number(z) <= Number(y)) => y = x
    BY <1>1
  <2> QED BY <1>1, <2>1 DEF Comes, Number
<1> QED BY <1>2, <1>3, <1>4, <1>5

\* A player's live requests differ in their numbers.
LEMMA NumbersDiffer ==
  ASSUME IDInv, Posted, NEW x \in Message, NEW y \in Message, Live(x), Live(y),
         x.player = y.player, Number(x) = Number(y)
  PROVE  x = y
<1>1. x.from = y.from
  BY DEF Posted
<1>2. x.id[1] = y.id[1] /\ x.id[2] = y.id[2]
  BY <1>1 DEF IDInv, Allocated, Number
<1>3. x.id \in RequestID /\ y.id \in RequestID
  BY DEF Message
<1>4. x.id = y.id
  BY <1>2, <1>3 DEF RequestID
<1> HIDE DEF Message, Live
<1> QED BY <1>4 DEF IDInv, OneMessagePerID

\* What Submit makes of a request.
LEMMA Submitted ==
  ASSUME IDInv, NEW p \in Players, NEW by \in {"lane", "attach"},
         NEW kind \in {"enter", "leave"}, NEW k \in Maps,
         NEW bound \in MapServers \union {Nobody}, Submit(p, by, kind, k, bound),
         UNCHANGED <<due, link>>
  PROVE  \E x \in Message :
           /\ x.player = p /\ x.from = Realm[p] /\ x.by = by /\ x.kind = kind /\ x.map = k
           /\ x.via = IF bound = Nobody THEN "home" ELSE "cross"
           /\ x.server = IF bound = Nobody THEN Home[Realm[p]] ELSE bound
           /\ Number(x) \in 1 .. MaxSeq
           /\ \A m \in Message : Live(m) /\ m.from = Realm[p] => Number(m) < Number(x)
           /\ \A s \in MapServers : x.id \notin inbox[s]
           /\ sending' = sending \union {x}
           /\ astray' = IF Overtakes(x) THEN astray \union {<<p, x.server>>} ELSE astray
           /\ outbox' = [outbox EXCEPT ![Realm[p]] = @ \union {[msg |-> x, attempts |-> 1]}]
<1> USE MapLinkAssumption DEF MapLinkAssumption
<1> DEFINE g == Realm[p]
           x == [id |-> ComposeRequestID(g, seq[g] + 1), from |-> g, by |-> by,
                 kind |-> kind, player |-> p, map |-> k,
                 via    |-> IF bound = Nobody THEN "home" ELSE "cross",
                 server |-> IF bound = Nobody THEN Home[g] ELSE bound]
<1>1. g \in GameServers /\ seq[g] \in 0 .. MaxSeq /\ seq[g] < MaxSeq
  BY DEF IDInv, TypeOK, Submit
<1>2. seq[g] + 1 \in 1 .. MaxSeq
  BY <1>1
<1>3. /\ x.player = p /\ x.from = g /\ x.by = by /\ x.kind = kind /\ x.map = k
      /\ x.via = IF bound = Nobody THEN "home" ELSE "cross"
      /\ x.server = IF bound = Nobody THEN Home[g] ELSE bound
      /\ x.id = <<g, seq[g] + 1>> /\ Number(x) = seq[g] + 1
  BY DEF ComposeRequestID, Number
<1>4. x \in Message
  <2>1. x.id \in RequestID /\ x.server \in MapServers /\ x.via \in Vias
    BY <1>1, <1>2, <1>3 DEF RequestID, Vias
  <2> QED BY <1>1, <2>1 DEF Message, ComposeRequestID
<1>5. /\ sending' = sending \union {x}
      /\ astray' = IF Overtakes(x) THEN astray \union {<<p, x.server>>} ELSE astray
      /\ outbox' = [outbox EXCEPT ![g] = @ \union {[msg |-> x, attempts |-> 1]}]
  BY DEF Submit
<1> HIDE DEF x, g
<1>6. ASSUME NEW m \in Message, Live(m), m.from = g PROVE Number(m) < Number(x)
  <2>1. m.id[2] <= seq[g]
    BY <1>6 DEF IDInv, Allocated
  <2>2. Number(m) \in Nat
    BY NumberType
  <2> QED BY <1>1, <1>3, <2>1, <2>2 DEF Number
<1>7. ASSUME NEW s \in MapServers PROVE x.id \notin inbox[s]
  <2>1. SUFFICES ASSUME x.id \in inbox[s] PROVE FALSE
    OBVIOUS
  <2>2. x.id[2] <= seq[x.id[1]]
    BY <2>1 DEF IDInv, Allocated
  <2> QED BY <1>1, <1>3, <2>2
<1> QED BY <1>2, <1>3, <1>4, <1>5, <1>6, <1>7 DEF g

\* ... and what is live and held with it.
LEMMA SubmittedLive ==
  ASSUME TypeOK, NEW g \in GameServers, NEW x \in Message, UNCHANGED <<due, link>>,
         sending' = sending \union {x},
         outbox' = [outbox EXCEPT ![g] = @ \union {[msg |-> x, attempts |-> 1]}]
  PROVE  \A m \in Message : /\ Live(m)' <=> Live(m) \/ m = x
                            /\ Held(m)' <=> Held(m) \/ m = x
                            /\ InOutbox(m)' <=> InOutbox(m) \/ m = x
                            /\ OnLink(m)' <=> OnLink(m)
<1> DEFINE entry == [msg |-> x, attempts |-> 1]
<1>1. entry.msg = x
  OBVIOUS
<1> HIDE DEF entry
<1>2. /\ outbox'[g] = outbox[g] \union {entry}
      /\ \A h \in GameServers : h # g => outbox'[h] = outbox[h]
  BY DEF TypeOK, entry
<1>3. \A m : InOutbox(m)' <=> InOutbox(m) \/ m = x
  BY <1>1, <1>2 DEF InOutbox
<1>4. \A m : Queued(m)' <=> Queued(m) \/ m = x
  BY <1>1, <1>2 DEF Queued
<1>5. \A m : OnLink(m)' <=> OnLink(m)
  BY DEF OnLink
<1> QED BY <1>3, <1>4, <1>5 DEF Live, Held

\* Which entries MarkSent and MarkAttempt touch.
LEMMA Marked ==
  ASSUME IDInv, Posted, NEW x \in Message, Live(x), NEW m \in Message
  PROVE  /\ MarkSent(x.from, x.id) => (InOutbox(m)' <=> InOutbox(m) /\ m # x)
         /\ MarkAttempt(x.from, x.id) => (InOutbox(m)' <=> InOutbox(m))
<1>1. outbox \in [GameServers -> SUBSET Entry] /\ x.from \in GameServers
  BY DEF IDInv, TypeOK, Message
<1>2. \A g \in GameServers : \A e \in outbox[g] :
        /\ e \in Entry /\ e.msg \in Message /\ Live(e.msg) /\ e.msg.from = g
        /\ e.msg.id = x.id => e.msg = x
  <2> SUFFICES ASSUME NEW g \in GameServers, NEW e \in outbox[g]
               PROVE  /\ e \in Entry /\ e.msg \in Message /\ Live(e.msg) /\ e.msg.from = g
                      /\ e.msg.id = x.id => e.msg = x
    OBVIOUS
  <2>1. e \in Entry /\ e.msg \in Message
    BY <1>1 DEF Entry
  <2>2. Live(e.msg) /\ e.msg.from = g
    BY DEF Live, Queued, Posted
  <2> HIDE DEF Message, Live
  <2> QED BY <2>1, <2>2 DEF IDInv, OneMessagePerID
<1>3. ASSUME MarkSent(x.from, x.id) PROVE InOutbox(m)' <=> InOutbox(m) /\ m # x
  <2>1. /\ outbox'[x.from] = {e \in outbox[x.from] : e.msg.id # x.id}
        /\ \A g \in GameServers : g # x.from => outbox'[g] = outbox[g]
    BY <1>1, <1>3 DEF MarkSent
  <2>2. \A g \in GameServers : \A e \in outbox[g] : e \in outbox'[g] <=> e.msg # x
    BY <1>2, <2>1
  <2>3. \A g \in GameServers : outbox'[g] \subseteq outbox[g]
    BY <2>1
  <2> HIDE DEF Message, Live
  <2> QED BY <2>2, <2>3 DEF InOutbox
<1>4. ASSUME MarkAttempt(x.from, x.id) PROVE InOutbox(m)' <=> InOutbox(m)
  <2> DEFINE f(e) == IF e.msg.id = x.id /\ e.attempts < MaxRetry
                       THEN [e EXCEPT !.attempts = @ + 1] ELSE e
  <2>1. /\ outbox'[x.from] = {f(e) : e \in outbox[x.from]}
        /\ \A g \in GameServers : g # x.from => outbox'[g] = outbox[g]
    BY <1>1, <1>4 DEF MarkAttempt
  <2>2. \A g \in GameServers : \A e \in outbox[g] : f(e).msg = e.msg
    BY <1>2 DEF Entry
  <2> HIDE DEF f, Message, Live
  <2>3. \A g \in GameServers : \A e \in outbox[g] : \E d \in outbox'[g] : d.msg = e.msg
    BY <2>1, <2>2
  <2>4. \A g \in GameServers : \A d \in outbox'[g] : \E e \in outbox[g] : d.msg = e.msg
    BY <2>1, <2>2
  <2> QED BY <2>3, <2>4 DEF InOutbox
<1> QED BY <1>3, <1>4

LEMMA TransmitOn ==
  ASSUME TypeOK, NEW x \in Message, Transmit(Route(x), x), NEW m \in Message
  PROVE  OnLink(m)' <=> OnLink(m) \/ m = x
<1> DEFINE c == Route(x)
<1>1. link \in [Connection -> Seq(Message)] /\ c \in Connection
  BY DEF TypeOK, Route, Connection, Message
<1>2. /\ link'[c] = Append(link[c], x) /\ link[c] \in Seq(Message)
      /\ \A d \in Connection : d # c => link'[d] = link[d]
  BY <1>1 DEF Transmit
<1> HIDE DEF c
<1>3. /\ Len(link'[c]) = Len(link[c]) + 1 /\ link'[c][Len(link[c]) + 1] = x
      /\ \A i \in 1 .. Len(link[c]) : link'[c][i] = link[c][i]
      /\ Len(link[c]) \in Nat
  BY <1>2
<1>4. OnLink(x)'
  BY <1>1, <1>3 DEF OnLink
<1>5. OnLink(m) => OnLink(m)'
  <2> SUFFICES ASSUME NEW d \in Connection, NEW i \in 1 .. Len(link[d]), link[d][i] = m
               PROVE  \E j \in 1 .. Len(link'[d]) : link'[d][j] = m
    BY DEF OnLink
  <2>1. CASE d = c
    BY <1>3, <2>1
  <2>2. CASE d # c
    BY <1>2, <2>2
  <2> QED BY <2>1, <2>2
<1>6. OnLink(m)' => OnLink(m) \/ m = x
  BY TransmitLive DEF Route
<1> QED BY <1>4, <1>5, <1>6

\* A step that moves at most the request x: it is still live, or it was handled first.
LEMMA Advance ==
  ASSUME IDInv, Posted, NEW x \in Message, Live(x),
         \A m \in Message : Live(m)' => Live(m),
         \A m \in Message : Live(m) /\ m # x => Live(m)',
         \A q \in Players, t \in MapServers : q # x.player \/ t # x.server =>
           /\ where'[t][q] = where[t][q]
           /\ \A m \in Maps : <<q, m>> \in present'[t] <=> <<q, m>> \in present[t],
         \/ Live(x)' /\ UNCHANGED <<where, present>>
         \/ /\ First(x) /\ After(x)'
            /\ \A m \in Maps : m # x.map =>
                 (<<x.player, m>> \in present'[x.server] <=> <<x.player, m>> \in present[x.server])
  PROVE  \A q \in Players, t \in MapServers :
           /\ \A y \in Message : /\ Live(y)' /\ y.kind = "leave" /\ y.player = q /\ y.server = t
                                 /\ Before(q, t, Number(y), y.map)
                => Before(q, t, Number(y), y.map)'
           /\ \A m \in Maps : Before(q, t, MaxSeq + 1, m) => Before(q, t, MaxSeq + 1, m)'
           /\ \A m \in Maps, in \in BOOLEAN : Comes(q, t, m, in) => Comes(q, t, m, in)'
<1> USE MapLinkAssumption DEF MapLinkAssumption
<1> DEFINE p == x.player
           s == x.server
<1>1. /\ p \in Players /\ s \in MapServers /\ x.map \in Maps /\ Number(x) \in 1 .. MaxSeq
      /\ x.kind \in {"enter", "leave"}
  BY DEF Message, Number, RequestID
<1>2. \A y \in Message : Number(y) \in Nat /\ y.map \in Maps
  BY NumberType DEF Message
<1> HIDE DEF Message, Live
<1>3. ASSUME NEW q \in Players, NEW t \in MapServers, To(q, t)' = To(q, t),
             where'[t][q] = where[t][q],
             \A m \in Maps : <<q, m>> \in present'[t] <=> <<q, m>> \in present[t]
      PROVE  /\ \A n \in Nat, m \in Maps : Before(q, t, n, m) => Before(q, t, n, m)'
             /\ \A m \in Maps, in \in BOOLEAN : Comes(q, t, m, in) => Comes(q, t, m, in)'
  BY <1>3, NothingMoves
<1>4. ASSUME NEW q \in Players, NEW t \in MapServers, To(q, t)' = To(q, t),
             where'[t][q] = where[t][q],
             \A m \in Maps : <<q, m>> \in present'[t] <=> <<q, m>> \in present[t]
      PROVE  /\ \A y \in Message : Before(q, t, Number(y), y.map) => Before(q, t, Number(y), y.map)'
             /\ \A m \in Maps : Before(q, t, MaxSeq + 1, m) => Before(q, t, MaxSeq + 1, m)'
             /\ \A m \in Maps, in \in BOOLEAN : Comes(q, t, m, in) => Comes(q, t, m, in)'
  <2>1. MaxSeq + 1 \in Nat
    OBVIOUS
  <2> QED BY <1>2, <1>3, <1>4, <2>1
<1>5. ASSUME NEW q \in Players, NEW t \in MapServers, q # p \/ t # s
      PROVE  To(q, t)' = To(q, t)
  BY <1>5 DEF To
<1>6. CASE Live(x)' /\ UNCHANGED <<where, present>>
  <2>1. \A q \in Players, t \in MapServers : To(q, t)' = To(q, t)
    BY <1>6 DEF To
  <2> QED BY <1>4, <1>6, <2>1
<1>7. CASE /\ First(x) /\ After(x)'
           /\ \A m \in Maps : m # x.map => (<<p, m>> \in present'[s] <=> <<p, m>> \in present[s])
  <2>1. x \in To(p, s) /\ \A y \in To(p, s) : Number(x) <= Number(y)
    BY <1>7 DEF To, First
  <2>2. \A y \in To(p, s) : Number(x) = Number(y) => y = x
    BY <1>1, NumbersDiffer DEF To
  <2>3. To(p, s)' = To(p, s) \/ To(p, s)' = To(p, s) \ {x}
    BY DEF To
  <2>4. /\ where'[s][p] = IF x.kind = "enter" THEN x.map ELSE Nobody
        /\ <<p, x.map>> \in present'[s] <=> x.kind = "enter"
    BY <1>7 DEF After
  <2>5. /\ \A n \in Nat, m \in Maps :
             Before(p, s, n, m) /\ (Number(x) < n \/ x.kind = "leave") => Before(p, s, n, m)'
        /\ \A m \in Maps, in \in BOOLEAN : Comes(p, s, m, in) => Comes(p, s, m, in)'
    <3> HIDE DEF p, s
    <3> QED BY <1>1, <1>7, <2>1, <2>2, <2>3, <2>4, FirstHandled
  <2>6. \A m \in Maps : Before(p, s, MaxSeq + 1, m) => Before(p, s, MaxSeq + 1, m)'
    <3>1. MaxSeq + 1 \in Nat /\ Number(x) < MaxSeq + 1
      BY <1>1
    <3> QED BY <2>5, <3>1
  <2>7. ASSUME NEW y \in Message, Live(y)', y.kind = "leave", y.player = p, y.server = s,
               Before(p, s, Number(y), y.map)
        PROVE  Before(p, s, Number(y), y.map)'
    <3>1. Number(x) < Number(y) \/ y = x
      <4>1. y \in To(p, s)
        BY <2>7 DEF To
      <4>2. Number(x) <= Number(y) /\ (Number(x) = Number(y) => y = x)
        BY <2>1, <2>2, <4>1
      <4>3. Number(x) \in Nat /\ Number(y) \in Nat
        BY <1>2
      <4> QED BY <4>2, <4>3, SMTT(30)
    <3> QED BY <1>2, <2>5, <2>7, <3>1
  <2>8. ASSUME NEW q \in Players, NEW t \in MapServers, q # p \/ t # s
        PROVE  /\ \A y \in Message : Before(q, t, Number(y), y.map) => Before(q, t, Number(y), y.map)'
               /\ \A m \in Maps : Before(q, t, MaxSeq + 1, m) => Before(q, t, MaxSeq + 1, m)'
               /\ \A m \in Maps, in \in BOOLEAN : Comes(q, t, m, in) => Comes(q, t, m, in)'
    BY <1>4, <1>5, <2>8
  <2> HIDE DEF p, s
  <2>9. ASSUME NEW q \in Players, NEW t \in MapServers
        PROVE  /\ \A y \in Message : /\ Live(y)' /\ y.kind = "leave" /\ y.player = q /\ y.server = t
                                     /\ Before(q, t, Number(y), y.map)
                    => Before(q, t, Number(y), y.map)'
               /\ \A m \in Maps : Before(q, t, MaxSeq + 1, m) => Before(q, t, MaxSeq + 1, m)'
               /\ \A m \in Maps, in \in BOOLEAN : Comes(q, t, m, in) => Comes(q, t, m, in)'
    BY <2>5, <2>6, <2>7, <2>8
  <2> QED BY <2>9
<1> QED BY <1>6, <1>7

\* What sendMapMessage and the retry loop do with a request: it goes out, stays pending
\* or is given up.
HandOver(x) ==
  /\ \/ Transmit(Route(x), x) /\ MarkSent(x.from, x.id) /\ UNCHANGED dead
     \/ UNCHANGED link /\ MarkAttempt(x.from, x.id) /\ UNCHANGED dead
     \/ /\ UNCHANGED link /\ MarkSent(x.from, x.id)
        /\ dead' = IF x.id \in Pending(x.from) THEN dead \union {x} ELSE dead
  /\ sending \ {x} \subseteq sending' /\ sending' \subseteq sending
  /\ \A g \in GameServers : due'[g] \subseteq due[g] /\ {e \in due[g] : e.msg # x} \subseteq due'[g]
  /\ astray \subseteq astray' /\ UNCHANGED <<present, where, inbox>>

\* No other request is touched, and this one is still under way, lost, or was applied.
LEMMA HandsOver ==
  ASSUME IDInv, Posted, Delivered, NEW x \in Message, Held(x), HandOver(x)
  PROVE  /\ \A m \in Message : /\ Live(m)' => Live(m)
                               /\ Live(m) /\ m # x => Live(m)'
                               /\ Held(m)' => Held(m)
                               /\ ~ InOutbox(m)' /\ InOutbox(m) => m = x
                               /\ OnLink(m) => OnLink(m)'
                               /\ OnLink(m)' => OnLink(m) \/ m = x
         /\ \A q, r : Lost(q, r) => Lost(q, r)'
         /\ ~ InOutbox(x)' => OnLink(x)' \/ Lost(x.player, x.server)' \/ (First(x) /\ After(x))
         /\ Live(x)' \/ Lost(x.player, x.server)' \/ (First(x) /\ After(x))
<1> USE DEF HandOver
<1>1. TypeOK /\ Live(x)
  BY DEF IDInv, Held, Live
<1>2. \A m \in Message : /\ MarkSent(x.from, x.id) => (InOutbox(m)' <=> InOutbox(m) /\ m # x)
                         /\ MarkAttempt(x.from, x.id) => (InOutbox(m)' <=> InOutbox(m))
  BY <1>1, Marked
<1>3. \A m \in Message : /\ OnLink(m)' <=> OnLink(m) \/ (m = x /\ Transmit(Route(x), x))
  <2>1. \A m \in Message : Transmit(Route(x), x) => (OnLink(m)' <=> OnLink(m) \/ m = x)
    BY <1>1, TransmitOn
  <2>2. UNCHANGED link => \A m \in Message : OnLink(m)' <=> OnLink(m)
    BY DEF OnLink
  <2>3. UNCHANGED link \/ Transmit(Route(x), x)
    OBVIOUS
  <2>4. UNCHANGED link /\ Transmit(Route(x), x) => OnLink(x)' <=> OnLink(x)
    BY <2>2
  <2> HIDE DEF HandOver, Message
  <2> QED BY <2>1, <2>2, <2>3
<1>4. \A q, r : Lost(q, r) => Lost(q, r)'
  BY DEF Lost
<1>5. \A m \in Message : Queued(m) <=> InOutbox(m) \/ \E g \in GameServers : \E e \in due[g] : e.msg = m
  BY DEF Queued, InOutbox
<1>6. \A m \in Message : Queued(m)' <=> InOutbox(m)' \/ \E g \in GameServers : \E e \in due'[g] : e.msg = m
  BY DEF Queued, InOutbox
<1>7. ASSUME NEW m \in Message
      PROVE  /\ Held(m)' => Held(m)
             /\ Held(m) /\ m # x => Held(m)'
             /\ ~ InOutbox(m)' /\ InOutbox(m) => m = x
  <2> HIDE DEF Message
  <2>1. /\ (\E g \in GameServers : \E e \in due'[g] : e.msg = m)
             => \E g \in GameServers : \E e \in due[g] : e.msg = m
        /\ m # x /\ (\E g \in GameServers : \E e \in due[g] : e.msg = m)
             => \E g \in GameServers : \E e \in due'[g] : e.msg = m
    BY <1>7
  <2>2. m \in sending' => m \in sending
    OBVIOUS
  <2>3. m # x /\ m \in sending => m \in sending'
    OBVIOUS
  <2>4. MarkSent(x.from, x.id) \/ MarkAttempt(x.from, x.id)
    OBVIOUS
  <2> HIDE DEF HandOver
  <2> QED BY <1>2, <1>5, <1>6, <1>7, <2>1, <2>2, <2>3, <2>4 DEF Held
<1>8. ~ InOutbox(x)' => OnLink(x)' \/ Lost(x.player, x.server)' \/ (First(x) /\ After(x))
  <2>1. CASE Transmit(Route(x), x)
    BY <1>3, <2>1
  <2>2. CASE ~ InOutbox(x)
    <3>1. Lost(x.player, x.server) \/ OnLink(x) \/ (First(x) /\ After(x))
      BY <2>2 DEF Delivered
    <3> HIDE DEF Message, HandOver
    <3> QED BY <1>3, <1>4, <3>1
  <2>3. CASE MarkAttempt(x.from, x.id) /\ InOutbox(x)
    BY <1>2, <2>3
  <2>4. CASE /\ InOutbox(x) /\ dead' = IF x.id \in Pending(x.from) THEN dead \union {x} ELSE dead
    <3>1. PICK g \in GameServers : \E e \in outbox[g] : e.msg = x
      BY <2>4 DEF InOutbox
    <3>2. g = x.from
      BY <3>1 DEF Posted
    <3>3. x.id \in Pending(x.from)
      BY <3>1, <3>2 DEF Pending
    <3> QED BY <2>4, <3>3 DEF Lost
  <2> QED BY <2>1, <2>2, <2>3, <2>4
<1>9. Live(x)' \/ Lost(x.player, x.server)' \/ (First(x) /\ After(x))
  BY <1>6, <1>8 DEF Live
<1> HIDE DEF HandOver, Message
<1> QED BY <1>3, <1>4, <1>7, <1>8, <1>9 DEF Live, Held

\* What holds of the places of all players after a step in which no request is made.
Carried ==
  \A q \in Players, t \in MapServers : ~ Lost(q, t)' =>
    /\ ~ Lost(q, t)
    /\ \A y \in Message : /\ Live(y)' /\ y.kind = "leave" /\ y.player = q /\ y.server = t
                          /\ Before(q, t, Number(y), y.map)
         => Before(q, t, Number(y), y.map)'
    /\ \A m \in Maps : Before(q, t, MaxSeq + 1, m) => Before(q, t, MaxSeq + 1, m)'
    /\ \A m \in Maps, in \in BOOLEAN : Comes(q, t, m, in) => Comes(q, t, m, in)'

LEMMA CarriedLeaves ==
  ASSUME LeavesOwnMap, Carried, \A m \in Message : Live(m)' => Live(m)
  PROVE  LeavesOwnMap'
<1>1. \A y \in Message : y.player \in Players /\ y.server \in MapServers
  BY DEF Message
<1> HIDE DEF Message, Live
<1> SUFFICES ASSUME NEW y \in Message, Live(y)', y.kind = "leave",
                    ~ Lost(y.player, y.server)'
             PROVE  Before(y.player, y.server, Number(y), y.map)'
  BY DEF LeavesOwnMap, Number
<1>2. Before(y.player, y.server, Number(y), y.map)
  BY <1>1 DEF LeavesOwnMap, Carried
<1> QED BY <1>1, <1>2 DEF Carried

\* First and After stay as they are where nothing arrives and nobody moves.
LEMMA StillFirst ==
  ASSUME NEW x \in Message, \A m \in Message : Live(m)' => Live(m), First(x)
  PROVE  First(x)'
BY DEF First, To, Number

LEMMA HandOverKeeps ==
  ASSUME IDInv, Posted, InOrder, Repeated, Delivered, LeavesOwnMap,
         NEW x \in Message, Held(x), HandOver(x)
  PROVE  Posted' /\ InOrder' /\ Repeated' /\ Delivered' /\ LeavesOwnMap' /\ Carried
<1>0. TypeOK /\ Live(x) /\ x.player \in Players /\ UNCHANGED <<present, where, inbox>>
  BY DEF IDInv, Held, Live, HandOver, Message
<1>1. /\ \A m \in Message : /\ Live(m)' => Live(m)
                            /\ Live(m) /\ m # x => Live(m)'
                            /\ Held(m)' => Held(m)
                            /\ ~ InOutbox(m)' /\ InOutbox(m) => m = x
                            /\ OnLink(m) => OnLink(m)'
      /\ \A q, r : Lost(q, r) => Lost(q, r)'
      /\ ~ InOutbox(x)' => OnLink(x)' \/ Lost(x.player, x.server)' \/ (First(x) /\ After(x))
      /\ Live(x)' \/ Lost(x.player, x.server)' \/ (First(x) /\ After(x))
  BY HandsOver
<1>2. link' = link \/ Transmit(Route(x), x)
  BY DEF HandOver
<1>3. /\ link \in [Connection -> Seq(Message)] /\ Route(x) \in Connection
      /\ \A d \in Connection : link[d] \in Seq(Message) /\ Len(link[d]) \in Nat
  <2>1. link \in [Connection -> Seq(Message)]
    BY <1>0 DEF TypeOK
  <2>2. Route(x) \in Connection
    BY DEF Route, Connection, Message
  <2> HIDE DEF Message
  <2> QED BY <2>1, <2>2
<1>4. \A d \in Connection : link'[d] = link[d] \/ (d = Route(x) /\ link'[d] = Append(link[d], x))
  BY <1>2, <1>3 DEF Transmit
<1>5. \A m \in Message : m.player \in Players /\ m.server \in MapServers
  BY DEF Message
<1>6. Posted'
  <2>1. \A g \in GameServers : \A e \in outbox'[g] \union due'[g] :
          \E d \in outbox[g] \union due[g] : d.msg = e.msg
    <3>1. x.from \in GameServers
      BY DEF Message
    <3>2. \A g \in GameServers : \A e \in outbox'[g] : \E d \in outbox[g] : d.msg = e.msg
      BY <1>0, <3>1, MarkLive DEF HandOver
    <3> QED BY <3>2 DEF HandOver
  <2>2. \A g \in GameServers : \A e \in outbox'[g] \union due'[g] : e.msg.from = g
    BY <2>1 DEF Posted
  <2>3. ASSUME NEW d \in Connection, NEW i \in 1 .. Len(link'[d]) PROVE Route(link'[d][i]) = d
    BY <1>3, <1>4 DEF Posted
  <2>4. \A m \in Message : Live(m)' =>
       /\ m.from = Realm[m.player]
       /\ \/ m.via = "home" /\ m.server = Home[m.from] /\ m.map \in Configured
          \/ m.via = "cross" /\ <<m.server, m.map>> \in Instances
    <3> HIDE DEF Message, Live
    <3> QED BY <1>1 DEF Posted
  <2> HIDE DEF Message, Live
  <2> QED BY <2>2, <2>3, <2>4 DEF Posted, Route
<1>7. InOrder'
  <2>1. ASSUME NEW d \in Connection, NEW i \in 1 .. Len(link'[d]), NEW j \in 1 .. Len(link'[d]),
               i < j, Akin(link[d][i], link[d][j])'
        PROVE  Number(link'[d][i]) <= Number(link'[d][j])
    <3>0. Akin(link'[d][i], link'[d][j])
      BY <1>1, <2>1 DEF Akin
    <3>1. CASE link'[d] = link[d]
      BY <2>1, <3>0, <3>1 DEF InOrder
    <3>2. CASE d = Route(x) /\ link'[d] = Append(link[d], x)
      <4>1. CASE j = Len(link[d]) + 1
        <5>1. link'[d][j] = x /\ link'[d][i] = link[d][i] /\ i \in 1 .. Len(link[d])
          BY <1>3, <2>1, <3>2, <4>1
        <5>2. link[d][i] \in Message /\ Live(link[d][i])
          BY <1>3, <5>1 DEF Live, OnLink
        <5>3. Akin(x, link[d][i])
          BY <3>0, <5>1 DEF Akin
        <5> HIDE DEF Message, Live
        <5> QED BY <5>1, <5>2, <5>3 DEF InOrder
      <4>2. CASE j # Len(link[d]) + 1
        <5>1. /\ link'[d][j] = link[d][j] /\ link'[d][i] = link[d][i]
              /\ i \in 1 .. Len(link[d]) /\ j \in 1 .. Len(link[d])
          BY <1>3, <2>1, <3>2, <4>2
        <5> QED BY <2>1, <3>0, <5>1 DEF InOrder
      <4> QED BY <4>1, <4>2
    <3> QED BY <1>4, <3>1, <3>2
  <2>2. \A y, z \in Message : Akin(y, z)' => Akin(y, z)
    BY <1>1 DEF Akin
  <2>3. \A y, z \in Message : Held(y)' /\ Live(z)' /\ Akin(y, z)' => Number(z) <= Number(y)
    <3> HIDE DEF Message, Live, Akin
    <3> QED BY <1>1, <2>2 DEF InOrder
  <2>4. \A y, z \in Message : Live(y)' /\ Live(z)' /\ Akin(y, z)' => Route(y) = Route(z)
    <3> HIDE DEF Message, Live, Akin
    <3> QED BY <1>1, <2>2 DEF InOrder
  <2>5. \A d \in Connection : \A i, j \in 1 .. Len(link'[d]) :
          i < j /\ Akin(link[d][i], link[d][j])' => Number(link'[d][i]) <= Number(link'[d][j])
    <3> HIDE DEF Akin, Message
    <3> QED BY <2>1
  <2> HIDE DEF Message, Live
  <2> QED BY <2>3, <2>4, <2>5 DEF InOrder, Akin, Number, Route
<1> HIDE DEF Message, Live
<1>8. \A y \in Message : First(y) /\ After(y) => First(y)' /\ After(y)'
  <2>1. \A y \in Message : After(y) => After(y)'
    BY <1>0 DEF After
  <2> QED BY <1>1, <2>1, StillFirst
<1>9. Repeated'
  BY <1>0, <1>1, <1>8 DEF Repeated
<1>10. Delivered'
  <2> SUFFICES ASSUME NEW y \in Message, Held(y)', ~ InOutbox(y)',
                      ~ Lost(y.player, y.server)'
               PROVE  OnLink(y)' \/ (First(y)' /\ After(y)')
    BY DEF Delivered
  <2>1. CASE y = x
    BY <1>1, <1>8, <2>1
  <2>2. CASE y # x
    <3>1. OnLink(y) \/ (First(y) /\ After(y))
      BY <1>1, <1>5, <2>2 DEF Delivered
    <3> QED BY <1>1, <1>8, <3>1
  <2> QED BY <2>1, <2>2
<1>11. Carried
  <2> SUFFICES ASSUME NEW q \in Players, NEW t \in MapServers, ~ Lost(q, t)'
               PROVE  /\ ~ Lost(q, t)
                      /\ \A y \in Message : /\ Live(y)' /\ y.kind = "leave" /\ y.player = q
                                            /\ y.server = t /\ Before(q, t, Number(y), y.map)
                           => Before(q, t, Number(y), y.map)'
                      /\ \A m \in Maps : Before(q, t, MaxSeq + 1, m) => Before(q, t, MaxSeq + 1, m)'
                      /\ \A m \in Maps, in \in BOOLEAN : Comes(q, t, m, in) => Comes(q, t, m, in)'
    BY DEF Carried
  <2>1. ~ Lost(q, t)
    BY <1>1
  <2>2. CASE Live(x)' \/ (First(x) /\ After(x))
    <3>1. After(x) => After(x)'
      BY <1>8, <1>0 DEF After
    <3>2. \/ Live(x)' /\ UNCHANGED <<where, present>>
          \/ /\ First(x) /\ After(x)'
             /\ \A m \in Maps : m # x.map =>
                 (<<x.player, m>> \in present'[x.server] <=> <<x.player, m>> \in present[x.server])
      BY <1>0, <2>2, <3>1
    <3>3. \A r \in Players, u \in MapServers : r # x.player \/ u # x.server =>
           /\ where'[u][r] = where[u][r]
           /\ \A m \in Maps : <<r, m>> \in present'[u] <=> <<r, m>> \in present[u]
      BY <1>0
    <3> QED BY <1>0, <1>1, <2>1, <3>2, <3>3, Advance
  <2>3. CASE Lost(x.player, x.server)' /\ ~ Live(x)'
    <3>1. q # x.player \/ t # x.server
      BY <2>3
    <3>2. To(q, t)' = To(q, t)
      BY <1>1, <3>1 DEF To
    <3>3. /\ \A n \in Nat, m \in Maps : Before(q, t, n, m) => Before(q, t, n, m)'
          /\ \A m \in Maps, in \in BOOLEAN : Comes(q, t, m, in) => Comes(q, t, m, in)'
      BY <1>0, <3>2, NothingMoves
    <3>4. MaxSeq + 1 \in Nat /\ \A y \in Message : Number(y) \in Nat /\ y.map \in Maps
      BY MapLinkAssumption, NumberType DEF MapLinkAssumption, Message
    <3> QED BY <2>1, <3>3, <3>4
  <2> QED BY <1>1, <2>2, <2>3
<1>12. LeavesOwnMap'
  BY <1>1, <1>11, CarriedLeaves
<1> QED BY <1>6, <1>7, <1>9, <1>10, <1>11, <1>12

\* The packet a MapServer takes is the first of its player's requests to it, if none of
\* them went astray.
LEMMA HeadFirst ==
  ASSUME IDInv, Posted, InOrder, NEW c \in Connection, link[c] # <<>>
  PROVE  /\ Head(link[c]) \in Message /\ Live(Head(link[c]))
         /\ Route(Head(link[c])) = c /\ Head(link[c]).server = c[3]
         /\ ~ Lost(Head(link[c]).player, c[3]) => First(Head(link[c]))
<1>1. PICK x : x = Head(link[c])
  OBVIOUS
<1>2. \A d \in Connection : link[d] \in Seq(Message) /\ Len(link[d]) \in Nat
  BY DEF IDInv, TypeOK
<1>3. x \in Message /\ link[c][1] = x /\ 1 \in 1 .. Len(link[c])
  BY <1>1, <1>2
<1>4. Live(x)
  BY <1>3 DEF Live, OnLink
<1>5. Route(x) = c /\ x.server = c[3]
  BY <1>3 DEF Posted, Route
<1>6. ASSUME ~ Lost(x.player, x.server), NEW y \in To(x.player, x.server)
      PROVE  Number(x) <= Number(y)
  <2>1. y \in Message /\ Live(y) /\ y.player = x.player /\ y.server = x.server
        /\ Akin(x, y) /\ Akin(y, x)
    BY <1>6 DEF To, Akin
  <2>2. CASE Held(y)
    <3> HIDE DEF Message, Live
    <3> QED BY <1>3, <1>4, <2>1, <2>2 DEF InOrder
  <2>3. CASE OnLink(y)
    <3>1. PICK d \in Connection : \E j \in 1 .. Len(link[d]) : link[d][j] = y
      BY <2>3 DEF OnLink
    <3>2. PICK j \in 1 .. Len(link[d]) : link[d][j] = y
      BY <3>1
    <3>3. Route(y) = d
      BY <3>2 DEF Posted
    <3>4. Route(x) = Route(y)
      <4> HIDE DEF Message, Live
      <4> QED BY <1>3, <1>4, <2>1 DEF InOrder
    <3>5. d = c
      BY <1>5, <3>3, <3>4
    <3>6. CASE j = 1
      <4>1. x = y
        BY <1>3, <3>2, <3>5, <3>6
      <4>2. Number(x) \in Nat
        BY <1>3, NumberType
      <4> QED BY <4>1, <4>2
    <3>7. CASE j # 1
      <4>1. 1 < j /\ j \in 1 .. Len(link[c]) /\ Akin(link[c][1], link[c][j])
        BY <1>2, <1>3, <2>1, <3>2, <3>5, <3>7
      <4>2. Number(link[c][1]) <= Number(link[c][j])
        BY <1>3, <4>1 DEF InOrder
      <4> QED BY <1>3, <3>2, <3>5, <4>2
    <3> QED BY <3>6, <3>7
  <2> QED BY <2>1, <2>2, <2>3 DEF Live, Held
<1>7. ~ Lost(x.player, x.server) => First(x)
  BY <1>6 DEF First
<1> HIDE DEF Message, Live, First
<1> QED BY <1>1, <1>3, <1>4, <1>5, <1>7

\* A MapServer that handles the first of a player's requests leaves him where that
\* request puts him.
LEMMA HandledWell ==
  ASSUME IDInv, Posted, Repeated, LeavesOwnMap, Sited, NEW c \in Connection,
         NEW x \in Message, Live(x), x.server = c[3],
         ~ Lost(x.player, x.server) => First(x),
         HandleEnter(c, x) \/ HandleLeave(c, x)
  PROVE  /\ \A q \in Players, t \in MapServers : q # x.player \/ t # x.server =>
              /\ where'[t][q] = where[t][q]
              /\ \A m \in Maps : <<q, m>> \in present'[t] <=> <<q, m>> \in present[t]
         /\ ~ Lost(x.player, x.server) =>
              /\ After(x)'
              /\ \A m \in Maps : m # x.map =>
                   (<<x.player, m>> \in present'[x.server] <=> <<x.player, m>> \in present[x.server])
         /\ \A t \in MapServers : \A i \in inbox'[t] : i \in inbox[t] \/ (t = x.server /\ i = x.id /\ x.kind = "enter")
<1> USE MapLinkAssumption DEF MapLinkAssumption
<1> DEFINE p == x.player
           s == x.server
<1>1. /\ s \in MapServers /\ p \in Players /\ x.map \in Maps /\ x.id \in RequestID
      /\ Number(x) \in Nat
  BY NumberType DEF Message
<1>2. /\ present \in [MapServers -> SUBSET (Players \X Maps)]
      /\ where \in [MapServers -> [Players -> Maps \union {Nobody}]]
      /\ inbox \in [MapServers -> SUBSET RequestID]
  BY DEF IDInv, TypeOK
<1>3. x.map \in MapsAt[s]
  <2>1. \/ x.server = Home[Realm[p]] /\ x.map \in Configured
        \/ <<x.server, x.map>> \in Instances
    BY DEF Posted
  <2> QED BY <1>1, <2>1 DEF Sited
<1> HIDE DEF p, s, Message, Live
<1>4. CASE HandleEnter(c, x) /\ x.id \notin inbox[s]
  <2>1. /\ inbox' = [inbox EXCEPT ![s] = @ \union {x.id}]
        /\ present' = [present EXCEPT ![s] = @ \union {<<p, x.map>>}]
        /\ where' = [where EXCEPT ![s] = [where[s] EXCEPT ![p] = x.map]]
        /\ x.kind = "enter"
    BY <1>3, <1>4 DEF HandleEnter, Land, p, s
  <2>2. /\ inbox'[s] = inbox[s] \union {x.id} /\ \A t \in MapServers : t # s => inbox'[t] = inbox[t]
    BY <1>1, <1>2, <2>1
  <2>3. /\ present'[s] = present[s] \union {<<p, x.map>>}
        /\ \A t \in MapServers : t # s => present'[t] = present[t]
    BY <1>1, <1>2, <2>1
  <2>4. /\ where'[s][p] = x.map
        /\ \A q \in Players, t \in MapServers : q # p \/ t # s => where'[t][q] = where[t][q]
    BY <1>1, <1>2, <2>1
  <2>5. \A t \in MapServers : \A i \in inbox'[t] : i \in inbox[t] \/ (t = s /\ i = x.id)
    BY <2>2
  <2>6. \A q \in Players, t \in MapServers, m \in Maps : q # p \/ t # s \/ m # x.map =>
          (<<q, m>> \in present'[t] <=> <<q, m>> \in present[t])
    BY <2>3
  <2>7. After(x)'
    BY <2>1, <2>3, <2>4 DEF After, p, s
  <2> QED BY <1>1, <2>1, <2>4, <2>5, <2>6, <2>7 DEF p, s
<1>5. CASE HandleEnter(c, x) /\ x.id \in inbox[s]
  <2>1. UNCHANGED <<present, where, inbox>> /\ x.kind = "enter"
    BY <1>5 DEF HandleEnter, msVars, s
  <2>2. ~ Lost(x.player, x.server) => After(x)
    BY <1>1, <1>5, <2>1 DEF Repeated, s
  <2>3. ~ Lost(x.player, x.server) => After(x)'
    BY <2>1, <2>2 DEF After
  <2> QED BY <2>1, <2>3
<1>6. CASE HandleLeave(c, x)
  <2> DEFINE m == Resolve(s, p, x.map)
  <2>1. /\ x.kind = "leave" /\ UNCHANGED inbox
        /\ \/ m \notin MapsAt[s] /\ UNCHANGED <<present, where>>
           \/ /\ m \in MapsAt[s]
              /\ present' = [present EXCEPT ![s] = @ \ {<<p, m>>}]
              /\ where' = [where EXCEPT ![s] = [where[s] EXCEPT ![p] = Nobody]]
    BY <1>6 DEF HandleLeave, p, s
  <2>2. ~ Lost(p, s) => m = x.map
    <3> SUFFICES ASSUME ~ Lost(p, s) PROVE m = x.map
      OBVIOUS
    <3>1. Before(p, s, Number(x), x.map)
      BY <2>1 DEF LeavesOwnMap, p, s
    <3>2. \A y \in To(p, s) : Number(y) \in Nat /\ Number(x) <= Number(y)
      BY NumberType DEF First, p, s
    <3>3. {y \in To(p, s) : Number(y) < Number(x)} = {}
      BY <1>1, <3>2
    <3>4. where[s][p] \in {x.map, Nobody}
      BY <3>1, <3>3 DEF Before
    <3> QED BY <3>4 DEF Resolve
  <2> HIDE DEF m
  <2>3. \A q \in Players, t \in MapServers : q # p \/ t # s =>
           /\ where'[t][q] = where[t][q]
           /\ \A k \in Maps : <<q, k>> \in present'[t] <=> <<q, k>> \in present[t]
    <3>1. CASE UNCHANGED <<present, where>>
      BY <3>1
    <3>2. CASE /\ present' = [present EXCEPT ![s] = @ \ {<<p, m>>}]
               /\ where' = [where EXCEPT ![s] = [where[s] EXCEPT ![p] = Nobody]]
      <4>1. \A q \in Players, t \in MapServers : q # p \/ t # s => where'[t][q] = where[t][q]
        BY <1>1, <1>2, <3>2
      <4>2. /\ present'[s] = present[s] \ {<<p, m>>}
            /\ \A t \in MapServers : t # s => present'[t] = present[t]
        BY <1>1, <1>2, <3>2
      <4> QED BY <4>1, <4>2
    <3> QED BY <2>1, <3>1, <3>2
  <2>4. ASSUME ~ Lost(p, s)
        PROVE  /\ After(x)'
               /\ \A k \in Maps : k # x.map => (<<p, k>> \in present'[s] <=> <<p, k>> \in present[s])
    <3>1. /\ present' = [present EXCEPT ![s] = @ \ {<<p, x.map>>}]
          /\ where' = [where EXCEPT ![s] = [where[s] EXCEPT ![p] = Nobody]]
      BY <1>3, <2>1, <2>2, <2>4
    <3>2. present'[s] = present[s] \ {<<p, x.map>>}
      BY <1>1, <1>2, <3>1
    <3>3. where'[s][p] = Nobody
      BY <1>1, <1>2, <3>1
    <3> QED BY <2>1, <3>2, <3>3 DEF After, p, s
  <2> QED BY <2>1, <2>3, <2>4 DEF p, s
<1> QED BY <1>4, <1>5, <1>6

LEMMA TakenFrom ==
  ASSUME TypeOK, NEW c \in Connection, Take(c), NEW m, m # Head(link[c])
  PROVE  OnLink(m) => OnLink(m)'
<1>1. /\ link \in [Connection -> Seq(Message)]
      /\ link[c] \in Seq(Message) /\ link[c] # <<>>
      /\ link'[c] = Tail(link[c])
      /\ \A d \in Connection : d # c => link'[d] = link[d]
  BY DEF TypeOK, Take
<1> SUFFICES ASSUME NEW d \in Connection, NEW i \in 1 .. Len(link[d]), link[d][i] = m
             PROVE  \E j \in 1 .. Len(link'[d]) : link'[d][j] = m
  BY DEF OnLink
<1>2. CASE d = c
  <2>1. i # 1
    BY <1>1, <1>2
  <2>2. i - 1 \in 1 .. Len(link'[c]) /\ link'[c][i - 1] = link[c][i]
    BY <1>1, <1>2, <2>1
  <2> QED BY <1>2, <2>2
<1>3. CASE d # c
  BY <1>1, <1>3
<1> QED BY <1>2, <1>3

LEMMA TakenOrder ==
  ASSUME TypeOK, NEW c \in Connection, Take(c)
  PROVE  \A d \in Connection : \A i \in 1 .. Len(link'[d]) :
           \/ link'[d] = link[d]
           \/ d = c /\ i + 1 \in 1 .. Len(link[c]) /\ link'[c][i] = link[c][i + 1]
<1>1. /\ link \in [Connection -> Seq(Message)]
      /\ link[c] \in Seq(Message) /\ link[c] # <<>>
      /\ link'[c] = Tail(link[c])
      /\ \A d \in Connection : d # c => link'[d] = link[d]
  BY DEF TypeOK, Take
<1> SUFFICES ASSUME NEW i \in 1 .. Len(link'[c])
             PROVE  i + 1 \in 1 .. Len(link[c]) /\ link'[c][i] = link[c][i + 1]
  BY <1>1
<1> QED BY <1>1

LEMMA ReceiveAgrees ==
  ASSUME IDInv, Posted, InOrder, Repeated, Delivered, LeavesOwnMap, Sited,
         NEW c \in Connection, Receive(c)
  PROVE  Posted' /\ InOrder' /\ Repeated' /\ Delivered' /\ LeavesOwnMap' /\ Carried
<1>1. PICK x : x = Head(link[c])
  OBVIOUS
<1>2. /\ TypeOK /\ Take(c) /\ link[c] # <<>>
      /\ HandleEnter(c, x) \/ HandleLeave(c, x)
      /\ UNCHANGED <<sending, outbox, due, dead, astray>>
  BY <1>1 DEF IDInv, Receive, Take, gsVars, queues
<1>3. /\ x \in Message /\ Live(x) /\ Route(x) = c /\ x.server = c[3]
      /\ ~ Lost(x.player, x.server) => First(x)
  BY <1>1, <1>2, HeadFirst
<1>4. /\ \A q \in Players, t \in MapServers : q # x.player \/ t # x.server =>
              /\ where'[t][q] = where[t][q]
              /\ \A m \in Maps : <<q, m>> \in present'[t] <=> <<q, m>> \in present[t]
      /\ ~ Lost(x.player, x.server) =>
              /\ After(x)'
              /\ \A m \in Maps : m # x.map =>
                   (<<x.player, m>> \in present'[x.server] <=> <<x.player, m>> \in present[x.server])
      /\ \A t \in MapServers : \A i \in inbox'[t] :
           i \in inbox[t] \/ (t = x.server /\ i = x.id /\ x.kind = "enter")
  BY <1>2, <1>3, HandledWell
<1>5. \A m \in Message : /\ Live(m)' => Live(m)
                         /\ Live(m) /\ m # x => Live(m)'
                         /\ Held(m)' <=> Held(m)
                         /\ InOutbox(m)' <=> InOutbox(m)
                         /\ m # x => (OnLink(m) => OnLink(m)')
  <2>1. \A m \in Message : Live(m)' => Live(m)
    BY <1>2, LiveKept
  <2>2. \A m : m # x => (OnLink(m) => OnLink(m)')
    BY <1>1, <1>2, TakenFrom
  <2>3. \A m : Queued(m)' <=> Queued(m)
    BY <1>2 DEF Queued
  <2>4. \A m : InOutbox(m)' <=> InOutbox(m)
    BY <1>2 DEF InOutbox
  <2> QED BY <1>2, <2>1, <2>2, <2>3, <2>4 DEF Live, Held
<1>6. \A q, r : Lost(q, r)' <=> Lost(q, r)
  BY <1>2 DEF Lost
<1>7. \A m \in Message : m.player \in Players /\ m.server \in MapServers /\ m.map \in Maps
  BY DEF Message
<1>8. \A d \in Connection : \A i \in 1 .. Len(link'[d]) :
           \/ link'[d] = link[d]
           \/ d = c /\ i + 1 \in 1 .. Len(link[c]) /\ link'[c][i] = link[c][i + 1]
  BY <1>2, TakenOrder
<1> HIDE DEF Message, Live
<1>9. Posted'
  <2>1. \A d \in Connection : \A i \in 1 .. Len(link'[d]) : Route(link'[d][i]) = d
    BY <1>8 DEF Posted
  <2> QED BY <1>2, <1>5, <2>1 DEF Posted, Route
<1>10. InOrder'
  <2>1. ASSUME NEW d \in Connection, NEW i \in 1 .. Len(link'[d]), NEW j \in 1 .. Len(link'[d]),
               i < j, Akin(link[d][i], link[d][j])'
        PROVE  Number(link'[d][i]) <= Number(link'[d][j])
    <3>0. Akin(link'[d][i], link'[d][j])
      BY <1>6, <2>1 DEF Akin
    <3>1. CASE link'[d] = link[d]
      BY <2>1, <3>0, <3>1 DEF InOrder
    <3>2. CASE /\ d = c /\ i + 1 \in 1 .. Len(link[c]) /\ link'[c][i] = link[c][i + 1]
               /\ j + 1 \in 1 .. Len(link[c]) /\ link'[c][j] = link[c][j + 1]
      <4>1. i + 1 < j + 1
        BY <2>1
      <4>2. Akin(link[c][i + 1], link[c][j + 1])
        BY <3>0, <3>2
      <4>3. Number(link[c][i + 1]) <= Number(link[c][j + 1])
        BY <3>2, <4>1, <4>2 DEF InOrder
      <4> QED BY <3>2, <4>3
    <3> QED BY <1>8, <3>1, <3>2
  <2>2. \A y, z \in Message : Akin(y, z)' => Akin(y, z)
    BY <1>6 DEF Akin
  <2>3. \A y, z \in Message : Held(y)' /\ Live(z)' /\ Akin(y, z)' => Number(z) <= Number(y)
    <3> HIDE DEF Akin
    <3> QED BY <1>5, <2>2 DEF InOrder
  <2>4. \A y, z \in Message : Live(y)' /\ Live(z)' /\ Akin(y, z)' => Route(y) = Route(z)
    <3> HIDE DEF Akin
    <3> QED BY <1>5, <2>2 DEF InOrder
  <2>5. \A d \in Connection : \A i, j \in 1 .. Len(link'[d]) :
          i < j /\ Akin(link[d][i], link[d][j])' => Number(link'[d][i]) <= Number(link'[d][j])
    <3> HIDE DEF Akin
    <3> QED BY <2>1
  <2> QED BY <2>3, <2>4, <2>5 DEF InOrder, Akin, Number, Route
<1>11. ASSUME NEW y \in Message, y # x, Live(y), First(y), After(y),
              ~ Lost(y.player, y.server)
       PROVE  First(y)' /\ After(y)'
  <2>1. First(y)'
    BY <1>5, <1>11, StillFirst
  <2>2. y.player # x.player \/ y.server # x.server
    <3> SUFFICES ASSUME y.player = x.player, y.server = x.server PROVE FALSE
      OBVIOUS
    <3>1. Number(x) <= Number(y) /\ Number(y) <= Number(x)
      BY <1>3, <1>11 DEF First, To
    <3>2. Number(x) = Number(y)
      BY <3>1, <1>3, NumberType
    <3> QED BY <1>3, <1>11, <3>2, NumbersDiffer
  <2>3. After(y)'
    BY <1>4, <1>7, <1>11, <2>2 DEF After
  <2> QED BY <2>1, <2>3
<1>12. ~ Lost(x.player, x.server) => First(x)'
  BY <1>3, <1>5, StillFirst
<1>13. Repeated'
  <2> SUFFICES ASSUME NEW y \in Message, NEW s \in MapServers, Live(y)', y.server = s,
                      ~ Lost(y.player, s)', y.kind = "enter", y.id \in inbox'[s]
               PROVE  First(y)' /\ After(y)'
    BY DEF Repeated
  <2>1. CASE y = x
    BY <1>4, <1>6, <1>12, <2>1
  <2>2. CASE y # x
    <3>1. y.id # x.id
      BY <1>3, <1>5, <2>2 DEF IDInv, OneMessagePerID
    <3>2. y.id \in inbox[s]
      BY <1>4, <3>1
    <3> QED BY <1>5, <1>6, <1>11, <2>2, <3>2 DEF Repeated
  <2> QED BY <2>1, <2>2
<1>14. Delivered'
  <2> SUFFICES ASSUME NEW y \in Message, Held(y)', ~ InOutbox(y)',
                      ~ Lost(y.player, y.server)'
               PROVE  OnLink(y)' \/ (First(y)' /\ After(y)')
    BY DEF Delivered
  <2>1. CASE y = x
    BY <1>4, <1>6, <1>7, <1>12, <2>1
  <2>2. CASE y # x
    <3>1. OnLink(y) \/ (First(y) /\ After(y))
      BY <1>5, <1>6, <1>7 DEF Delivered
    <3>2. Live(y)
      BY <1>5 DEF Held, Live
    <3> QED BY <1>5, <1>6, <1>11, <2>2, <3>1, <3>2
  <2> QED BY <2>1, <2>2
<1>15. Carried
  <2> SUFFICES ASSUME NEW q \in Players, NEW t \in MapServers, ~ Lost(q, t)'
               PROVE  /\ ~ Lost(q, t)
                      /\ \A y \in Message : /\ Live(y)' /\ y.kind = "leave" /\ y.player = q
                                            /\ y.server = t /\ Before(q, t, Number(y), y.map)
                           => Before(q, t, Number(y), y.map)'
                      /\ \A m \in Maps : Before(q, t, MaxSeq + 1, m) => Before(q, t, MaxSeq + 1, m)'
                      /\ \A m \in Maps, in \in BOOLEAN : Comes(q, t, m, in) => Comes(q, t, m, in)'
    BY DEF Carried
  <2>1. ~ Lost(q, t)
    BY <1>6
  <2>2. CASE ~ Lost(x.player, x.server)
    <3>1. /\ First(x) /\ After(x)'
          /\ \A m \in Maps : m # x.map =>
                 (<<x.player, m>> \in present'[x.server] <=> <<x.player, m>> \in present[x.server])
      BY <1>3, <1>4, <2>2
    <3> QED BY <1>3, <1>4, <1>5, <2>1, <3>1, Advance
  <2>3. CASE Lost(x.player, x.server)
    <3>1. q # x.player \/ t # x.server
      BY <2>1, <2>3
    <3>2. To(q, t)' = To(q, t)
      BY <1>5, <3>1 DEF To
    <3>3. /\ \A n \in Nat, m \in Maps : Before(q, t, n, m) => Before(q, t, n, m)'
          /\ \A m \in Maps, in \in BOOLEAN : Comes(q, t, m, in) => Comes(q, t, m, in)'
      BY <1>4, <3>1, <3>2, NothingMoves
    <3>4. MaxSeq + 1 \in Nat /\ \A y \in Message : Number(y) \in Nat
      BY MapLinkAssumption, NumberType DEF MapLinkAssumption
    <3> QED BY <1>7, <2>1, <3>3, <3>4
  <2> QED BY <2>2, <2>3
<1>16. LeavesOwnMap'
  BY <1>5, <1>15, CarriedLeaves
<1> QED BY <1>9, <1>10, <1>13, <1>14, <1>15, <1>16

\* Steps that move no request and no player.
LEMMA IdleKeeps ==
  ASSUME Posted, InOrder, Repeated, Delivered, LeavesOwnMap,
         \A m \in Message : /\ Live(m)' <=> Live(m)
                            /\ Held(m)' <=> Held(m)
                            /\ InOutbox(m)' <=> InOutbox(m),
         \A g \in GameServers : outbox'[g] \union due'[g] \subseteq outbox[g] \union due[g],
         UNCHANGED <<link, present, where, dead, astray>>,
         \A t \in MapServers : inbox'[t] \subseteq inbox[t]
  PROVE  Posted' /\ InOrder' /\ Repeated' /\ Delivered' /\ LeavesOwnMap' /\ Carried
<1>1. \A m \in Message : m.player \in Players /\ m.server \in MapServers /\ m.map \in Maps
  BY DEF Message
<1>2. \A m : OnLink(m)' <=> OnLink(m)
  BY DEF OnLink
<1>3. \A q, r : Lost(q, r)' <=> Lost(q, r)
  BY DEF Lost
<1> HIDE DEF Message, Live
<1>4. Posted'
  BY DEF Posted, Route
<1>5. InOrder'
  BY <1>3 DEF InOrder, Akin, Number, Route
<1>6. \A y \in Message : First(y) /\ After(y) => First(y)' /\ After(y)'
  <2>1. \A y \in Message : After(y) => After(y)'
    BY DEF After
  <2> QED BY <2>1, StillFirst
<1>7. Repeated'
  BY <1>1, <1>3, <1>6 DEF Repeated
<1>8. Delivered'
  BY <1>1, <1>2, <1>3, <1>6 DEF Delivered
<1>9. Carried
  <2>1. \A q, t : To(q, t)' = To(q, t)
    BY DEF To
  <2>2. \A q \in Players, t \in MapServers :
          /\ \A n \in Nat, m \in Maps : Before(q, t, n, m) => Before(q, t, n, m)'
          /\ \A m \in Maps, in \in BOOLEAN : Comes(q, t, m, in) => Comes(q, t, m, in)'
    BY <2>1, NothingMoves
  <2>3. MaxSeq + 1 \in Nat /\ \A y \in Message : Number(y) \in Nat
    BY MapLinkAssumption, NumberType DEF MapLinkAssumption
  <2> QED BY <1>1, <1>3, <2>2, <2>3 DEF Carried
<1>10. LeavesOwnMap'
  BY <1>9, CarriedLeaves
<1> QED BY <1>4, <1>5, <1>7, <1>8, <1>9, <1>10

\* Steps by which a player is at most out of his map.
LEMMA PlayersKept ==
  ASSUME TypeOK, Placed, KnowsMap, Carried, UNCHANGED <<binding, local, sending>>,
         \A q \in Players : \/ current'[q] = current[q]
                            \/ current'[q] = Nobody /\ binding[q] = Nobody,
         \A q \in Players : q \in leaving \ leaving' => current'[q] = Nobody
  PROVE  /\ Placed' /\ KnowsMap'
         /\ HomeComes => HomeComes'
         /\ InstanceComes => InstanceComes'
<1> USE MapLinkAssumption DEF MapLinkAssumption
<1>1. \A q \in Players : /\ Here(q)' = Here(q) /\ Here(q) \in MapServers
                         /\ (Attaching(q)' <=> Attaching(q)) /\ (Departing(q)' <=> Departing(q))
                         /\ (AttachingHome(q)' <=> AttachingHome(q))
  BY DEF Here, AttachingHome, Attaching, Departing, TypeOK
<1>2. Placed'
  <2>1. \A m \in sending : m.player \in Players
    BY DEF TypeOK, Message
  <2>2. ASSUME NEW q \in Players, binding'[q] # Nobody
        PROVE  /\ \E i \in Instances : i[1] = binding'[q]
               /\ ~ Attaching(q)' /\ current'[q] # Nobody => <<binding'[q], current'[q]>> \in Instances
    BY <1>1, <2>2 DEF Placed
  <2>3. ASSUME NEW m \in sending
        PROVE  IsCrossLeave(m) => current'[m.player] = Nobody \/ m.player \in leaving'
    BY <2>1 DEF Placed
  <2> QED BY <2>2, <2>3 DEF Placed, IsCrossLeave
<1>3. KnowsMap'
  <2> SUFFICES ASSUME NEW q \in Players, ~ Lost(q, Here(q))', current'[q] # Nobody,
                      q \notin leaving', ~ AttachingHome(q)'
               PROVE  Before(q, Here(q), MaxSeq + 1, current[q])'
    BY DEF KnowsMap
  <2>1. current[q] \in Maps /\ current'[q] = current[q]
    BY DEF TypeOK
  <2>3. PICK t \in MapServers, k \in Maps : t = Here(q) /\ k = current[q]
    BY <1>1, <2>1
  <2>5. ~ Lost(q, t)'
    BY <1>1, <2>3 DEF Lost
  <2>2. Before(q, Here(q), MaxSeq + 1, current[q])
    BY <1>1, <2>1, <2>3, <2>5 DEF KnowsMap, Carried
  <2>4. Before(q, t, MaxSeq + 1, k)'
    BY <2>2, <2>3, <2>5 DEF Carried
  <2> QED BY <1>1, <2>1, <2>3, <2>4 DEF Before, To
<1>4. HomeComes => HomeComes'
  <2> SUFFICES ASSUME HomeComes, NEW q \in Players, ~ Lost(q, Home[Realm[q]])',
                      NEW m \in Configured
               PROVE  Comes(q, Home[Realm[q]], m, <<q, m>> \in local[Realm[q]])'
    BY DEF HomeComes
  <2>1. PICK t \in MapServers, k \in BOOLEAN : t = Home[Realm[q]] /\ (k <=> <<q, m>> \in local[Realm[q]])
    OBVIOUS
  <2>4. ~ Lost(q, t)'
    BY <2>1
  <2>2. Comes(q, t, m, k)
    <3>1. ~ Lost(q, t)
      BY <2>4 DEF Carried
    <3>2. Comes(q, Home[Realm[q]], m, <<q, m>> \in local[Realm[q]])
      BY <2>1, <3>1 DEF HomeComes
    <3> QED BY <2>1, <3>2 DEF Comes
  <2>3. Comes(q, t, m, k)'
    BY <2>2, <2>4 DEF Carried
  <2> QED BY <2>1, <2>3 DEF Comes, To
<1>5. InstanceComes => InstanceComes'
  <2> SUFFICES ASSUME InstanceComes, NEW q \in Players, NEW i \in Instances, ~ Lost(q, i[1])'
               PROVE  Comes(q, i[1], i[2], In(q, i))'
    BY DEF InstanceComes
  <2>1. i[1] \in MapServers /\ i[2] \in Maps /\ i[1] # Nobody
    OBVIOUS
  <2>2. PICK k \in BOOLEAN : k <=> In(q, i)
    OBVIOUS
  <2>3. Comes(q, i[1], i[2], k)
    <3>1. ~ Lost(q, i[1])
      BY <2>1 DEF Carried
    <3>2. Comes(q, i[1], i[2], In(q, i))
      BY <3>1 DEF InstanceComes
    <3> QED BY <2>2, <3>2 DEF Comes
  <2>4. Comes(q, i[1], i[2], k)'
    BY <2>1, <2>3 DEF Carried
  <2>5. k <=> In(q, i)'
    BY <1>1, <2>1, <2>2 DEF In
  <2> QED BY <2>4, <2>5 DEF Comes, To
<1> QED BY <1>2, <1>3, <1>4, <1>5

\* What Sent and SendFails are for the request they end.
LEMMA SendHandsOver ==
  ASSUME IDInv, NEW x \in sending, SendStep(x)
  PROVE  /\ x \in Message /\ Held(x) /\ HandOver(x)
         /\ sending' = sending \ {x} /\ UNCHANGED <<local, leaving>>
<1>1. x \in Message /\ Held(x)
  BY DEF IDInv, TypeOK, Held
<1>2. /\ sending' = sending \ {x}
      /\ \/ Transmit(Route(x), x) /\ MarkSent(x.from, x.id) /\ UNCHANGED dead
         \/ UNCHANGED link /\ MarkAttempt(x.from, x.id) /\ UNCHANGED dead
      /\ UNCHANGED <<due, present, where, inbox, local, leaving>>
      /\ astray \subseteq astray'
  BY DEF SendStep, Sent, SendFails, lobby, msVars
<1>3. HandOver(x)
  BY <1>2 DEF HandOver
<1> QED BY <1>1, <1>2, <1>3

LEMMA SendAgrees ==
  ASSUME IDInv, TargetInv, Posted, Placed, InOrder, Repeated, Delivered, LeavesOwnMap, KnowsMap,
         NEW x \in sending, SendStep(x)
  PROVE  /\ Posted' /\ Placed' /\ InOrder' /\ Repeated' /\ Delivered' /\ LeavesOwnMap' /\ KnowsMap'
         /\ HomeComes => HomeComes'
         /\ InstanceComes => InstanceComes'
<1> USE MapLinkAssumption DEF MapLinkAssumption
<1> DEFINE p == x.player
           s == x.server
<1>1. /\ x \in Message /\ Held(x) /\ HandOver(x) /\ Live(x)
      /\ sending' = sending \ {x} /\ UNCHANGED <<local, leaving>>
  BY SendHandsOver DEF Live
<1>2. /\ Posted' /\ InOrder' /\ Repeated' /\ Delivered' /\ LeavesOwnMap' /\ Carried
  BY <1>1, HandOverKeeps
<1>3. /\ TypeOK /\ TypeOK' /\ p \in Players /\ s \in MapServers /\ x.map \in Maps /\ Number(x) \in 1 .. MaxSeq
      /\ x.kind \in {"enter", "leave"} /\ x.by \in {"lane", "attach"}
  <2>1. [Next]_vars
    BY DEF Next
  <2> QED BY <1>1, <2>1, TypeNext DEF IDInv, Message, Number, RequestID
<1>4. \A m \in sending : m \in Message /\ m.player \in Players /\ Held(m)
                         /\ m.by \in {"lane", "attach"} /\ (m.player = p => m = x)
  <2>1. \A m \in sending : m \in Message /\ m.player \in Players /\ Held(m) /\ m.by \in {"lane", "attach"}
    BY <1>3 DEF TypeOK, Message, Held
  <2> QED BY <2>1 DEF Placed
<1> HIDE DEF Message, Live, Held, p, s
<1>5. \A q \in Players : q # p => /\ current'[q] = current[q] /\ binding'[q] = binding[q]
                                  /\ Attaching(q)' <=> Attaching(q)
                                  /\ Departing(q)' <=> Departing(q)
                                  /\ AttachingHome(q)' <=> AttachingHome(q)
  <2>1. \A q \in Players : q # p => current'[q] = current[q] /\ binding'[q] = binding[q]
    BY <1>3 DEF SendStep, Sent, SendFails, Unbind, TypeOK, p
  <2>2. \A q \in Players : q # p => /\ Attaching(q)' <=> Attaching(q)
                                    /\ Departing(q)' <=> Departing(q)
    BY <1>1 DEF Attaching, Departing, p
  <2> QED BY <2>1, <2>2 DEF AttachingHome
<1>6. ~ Attaching(p)' /\ ~ Departing(p)'
  BY <1>1, <1>4 DEF Attaching, Departing
<1>7. /\ Attaching(p) <=> x.by = "attach"
      /\ Departing(p) <=> x.by = "lane" /\ IsCrossLeave(x)
  BY <1>4 DEF Attaching, Departing, p
<1>8. /\ x.by = "attach" => x.kind = "enter" /\ x.via = "cross"
      /\ x.by = "attach" \/ IsCrossLeave(x) => s = binding[p]
      /\ IsCrossLeave(x) => current[p] = Nobody \/ p \in leaving
      /\ IsCrossLeave(x) => x.by = "lane"
  BY <1>3 DEF Placed, IsCrossLeave, p, s
\* what becomes of the player
<1>9. \/ /\ x.by = "attach" /\ binding'[p] = s /\ current'[p] = x.map /\ Live(x)'
      \/ /\ x.by = "attach" /\ Lost(p, s)' /\ binding'[p] = Nobody /\ current'[p] = current[p]
      \/ /\ IsCrossLeave(x) /\ binding'[p] = Nobody /\ current'[p] = current[p]
      \/ /\ x.by = "lane" /\ ~ IsCrossLeave(x) /\ binding'[p] = binding[p] /\ current'[p] = current[p]
  <2>1. CASE Sent(x)
    <3>1. x.by = "attach" => p \in online
      BY DEF TargetInv, Ours, p
    <3>2. Live(x)'
      <4>1. OnLink(x)'
        BY <1>1, <1>3, <2>1, TransmitOn DEF Sent
      <4> QED BY <4>1 DEF Live
    <3> QED BY <1>3, <1>8, <2>1, <3>1, <3>2 DEF Sent, Unbind, TypeOK, p
  <2>2. CASE SendFails(x)
    <3>1. x.by = "attach" => Lost(p, s)'
      BY <2>2 DEF SendFails, Refused, Lost, p, s
    <3> QED BY <1>3, <1>8, <2>2, <3>1 DEF SendFails, Unbind, TypeOK, p
  <2> QED BY <2>1, <2>2 DEF SendStep
<1>10. x.by = "attach" => <<s, x.map>> \in Instances
  BY <1>1, <1>8 DEF Posted, s
<1>11. Placed'
  <2>1. ASSUME NEW q \in Players, binding'[q] # Nobody
        PROVE  /\ \E i \in Instances : i[1] = binding'[q]
               /\ ~ Attaching(q)' /\ current'[q] # Nobody => <<binding'[q], current'[q]>> \in Instances
    <3>1. CASE q # p
      BY <1>5, <2>1, <3>1 DEF Placed
    <3>2. CASE q = p
      <4>1. CASE x.by = "attach"
        BY <1>8, <1>9, <1>10, <2>1, <3>2, <4>1
      <4>2. CASE x.by = "lane"
        BY <1>7, <1>9, <2>1, <3>2, <4>2 DEF Placed
      <4> QED BY <1>3, <4>1, <4>2
    <3> QED BY <3>1, <3>2
  <2>2. ASSUME NEW m \in sending'
        PROVE  /\ m.by = "attach" => m.kind = "enter" /\ m.via = "cross"
               /\ m.by = "attach" \/ IsCrossLeave(m) => m.server = binding'[m.player]
               /\ IsCrossLeave(m) => current'[m.player] = Nobody \/ m.player \in leaving'
               /\ \A n \in sending' : m.player = n.player => m = n
    <3>1. m \in sending /\ m.player # p /\ m.player \in Players
      BY <1>1, <1>4
    <3> QED BY <1>1, <1>5, <3>1 DEF Placed
  <2> QED BY <2>1, <2>2 DEF Placed, IsCrossLeave
<1>12. \A q \in Players : Here(q) \in MapServers
  BY <1>3 DEF Here, TypeOK
<1>13. KnowsMap'
  <2> SUFFICES ASSUME NEW q \in Players, ~ Lost(q, Here(q))', current'[q] # Nobody,
                      q \notin leaving', ~ AttachingHome(q)'
               PROVE  Before(q, Here(q), MaxSeq + 1, current[q])'
    BY DEF KnowsMap
  <2>0. current'[q] \in Maps
    BY <1>3 DEF TypeOK
  <2>1. CASE Here(q)' = Here(q) /\ current'[q] = current[q] /\ ~ AttachingHome(q)
    <3>2. PICK t \in MapServers, k \in Maps : t = Here(q) /\ k = current[q]
      BY <1>12, <2>0, <2>1
    <3>4. ~ Lost(q, t)'
      BY <2>1, <3>2 DEF Lost
    <3>1. Before(q, Here(q), MaxSeq + 1, current[q])
      BY <1>1, <1>2, <2>1, <3>2, <3>4 DEF KnowsMap, Carried
    <3>3. Before(q, t, MaxSeq + 1, k)'
      BY <1>2, <3>1, <3>2, <3>4 DEF Carried
    <3> QED BY <2>1, <3>2, <3>3 DEF Before, To
  <2>2. CASE q # p
    BY <1>5, <2>1, <2>2 DEF Here
  <2>3. CASE q = p /\ x.by = "lane"
    <3>1. ~ IsCrossLeave(x)
      BY <1>1, <1>8, <1>9, <2>3
    <3> QED BY <1>6, <1>7, <1>9, <2>1, <2>3, <3>1 DEF Here, AttachingHome
  <2>4. CASE /\ q = p /\ x.by = "attach" /\ binding'[p] = Nobody /\ current'[p] = current[p]
             /\ Lost(p, s)'
    <3>1. Here(q)' = Home[Realm[p]] /\ Here(q) = Home[Realm[p]]
      BY <1>7, <2>4 DEF Here
    <3>2. s # Home[Realm[p]]
      BY <2>4, <3>1 DEF Lost
    <3> QED BY <1>8, <2>1, <2>4, <3>1, <3>2 DEF AttachingHome
  <2>5. CASE q = p /\ x.by = "attach" /\ binding'[p] = s /\ current'[p] = x.map /\ Live(x)'
    <3>1. Here(q)' = s
      BY <1>3, <1>6, <2>5 DEF Here
    <3>2. x \in To(p, s)' /\ Number(x) < MaxSeq + 1
      BY <1>1, <1>3, <2>5 DEF To, p, s
    <3>3. \A y \in To(p, s)' : y \in Message /\ Live(y) /\ y.player = p /\ Number(y) <= Number(x)
      <4>1. \A y \in Message : Live(y)' => Live(y)
        BY <1>3, LiveKept
      <4>2. ~ Lost(p, s)
        <5>1. ~ Lost(p, s)'
          BY <2>5, <3>1 DEF Lost
        <5> QED BY <1>1, <5>1, HandsOver
      <4>3. \A y \in To(p, s)' : y \in Message /\ Live(y) /\ y.player = p /\ y.server = s
        BY <4>1 DEF To
      <4>4. \A y \in To(p, s)' : Akin(x, y)
        BY <4>2, <4>3 DEF Akin, p, s
      <4> QED BY <1>1, <4>3, <4>4 DEF InOrder
    <3>4. \A y \in To(p, s)' : Number(x) <= Number(y) => y = x
      <4>1. \A y \in To(p, s)' : Number(x) <= Number(y) => Number(y) = Number(x)
        BY <1>3, <3>3, NumberType
      <4> QED BY <1>1, <3>3, <4>1, NumbersDiffer DEF p
    <3>5. PICK t \in MapServers, k \in Maps : t = s /\ k = x.map
      BY <1>3
    <3>6. Before(p, t, MaxSeq + 1, k)'
      BY <3>2, <3>4, <3>5 DEF Before, Number
    <3> QED BY <2>5, <3>1, <3>5, <3>6 DEF Before, To
  <2> QED BY <1>3, <1>8, <1>9, <2>2, <2>3, <2>4, <2>5
<1>14. HomeComes => HomeComes'
  <2> SUFFICES ASSUME HomeComes, NEW q \in Players, ~ Lost(q, Home[Realm[q]])',
                      NEW m \in Configured
               PROVE  Comes(q, Home[Realm[q]], m, <<q, m>> \in local[Realm[q]])'
    BY DEF HomeComes
  <2>1. PICK t \in MapServers, k \in BOOLEAN : t = Home[Realm[q]] /\ (k <=> <<q, m>> \in local[Realm[q]])
    OBVIOUS
  <2>4. ~ Lost(q, t)'
    BY <2>1
  <2>2. Comes(q, t, m, k)
    <3>1. ~ Lost(q, t)
      BY <1>2, <2>4 DEF Carried
    <3>2. Comes(q, Home[Realm[q]], m, <<q, m>> \in local[Realm[q]])
      BY <2>1, <3>1 DEF HomeComes
    <3> QED BY <2>1, <3>2 DEF Comes
  <2>3. Comes(q, t, m, k)'
    BY <1>2, <2>2, <2>4 DEF Carried
  <2> QED BY <1>1, <2>1, <2>3 DEF Comes, To
<1>15. InstanceComes => InstanceComes'
  <2> SUFFICES ASSUME InstanceComes, NEW q \in Players, NEW i \in Instances, ~ Lost(q, i[1])'
               PROVE  Comes(q, i[1], i[2], In(q, i))'
    BY DEF InstanceComes
  <2>1. i[1] \in MapServers /\ i[2] \in Maps /\ i[1] # Nobody
    OBVIOUS
  <2>2. PICK k \in BOOLEAN : k <=> In(q, i)
    OBVIOUS
  <2>3. Comes(q, i[1], i[2], k)
    <3>1. ~ Lost(q, i[1])
      BY <1>2, <2>1 DEF Carried
    <3>2. Comes(q, i[1], i[2], In(q, i))
      BY <3>1 DEF InstanceComes
    <3> QED BY <2>2, <3>2 DEF Comes
  <2>4. Comes(q, i[1], i[2], k)'
    BY <1>2, <2>1, <2>3 DEF Carried
  <2>5. k <=> In(q, i)'
    <3>1. CASE q # p
      <4>1. \A m \in sending : m.player = q => m \in sending'
        BY <1>1, <3>1 DEF p
      <4> QED BY <1>1, <1>5, <2>2, <3>1, <4>1 DEF In
    <3>2. CASE q = p
      <4>1. In(p, i)' <=> binding'[p] = i[1] /\ current'[p] = i[2]
        BY <1>6 DEF In, Attaching
      <4>2. CASE x.by = "attach"
        <5>1. In(p, i) <=> s = i[1] /\ x.map = i[2]
          BY <1>4, <1>7, <4>2 DEF In, p, s
        <5> QED BY <1>8, <1>9, <2>1, <2>2, <3>2, <4>1, <4>2, <5>1
      <4>3. CASE x.by = "lane"
        <5>1. In(p, i) <=> ~ IsCrossLeave(x) /\ binding[p] = i[1] /\ current[p] = i[2]
          BY <1>4, <1>7, <4>3 DEF In
        <5> QED BY <1>9, <2>1, <2>2, <3>2, <4>1, <4>3, <5>1
      <4> QED BY <1>3, <4>2, <4>3
    <3> QED BY <3>1, <3>2
  <2> QED BY <2>4, <2>5 DEF Comes, To
<1> QED BY <1>2, <1>11, <1>13, <1>14, <1>15

LEMMA RetryAgrees ==
  ASSUME IDInv, Posted, Placed, InOrder, Repeated, Delivered, LeavesOwnMap, KnowsMap,
         NEW g \in GameServers, Retry(g)
  PROVE  /\ Posted' /\ Placed' /\ InOrder' /\ Repeated' /\ Delivered' /\ LeavesOwnMap' /\ KnowsMap'
         /\ HomeComes => HomeComes'
         /\ InstanceComes => InstanceComes'
<1>1. TypeOK /\ UNCHANGED <<current, binding, local, leaving, sending, present, where, inbox, astray>>
  BY DEF IDInv, Retry, Tick, RetryStep, GiveUp, Resend, ResendFails, lobby, player, msVars
<1>2. CASE Tick(g)
  <2>1. /\ due' = [due EXCEPT ![g] = outbox[g]] /\ due[g] = {}
        /\ UNCHANGED <<outbox, link, dead>>
    BY <1>2 DEF Tick, msVars
  <2>2. due'[g] = outbox[g] /\ \A h \in GameServers : h # g => due'[h] = due[h]
    BY <1>1, <2>1 DEF TypeOK
  <2>3. \A m : (Queued(m)' <=> Queued(m)) /\ (InOutbox(m)' <=> InOutbox(m)) /\ (OnLink(m)' <=> OnLink(m))
    <3>1. \A m : Queued(m)' => Queued(m)
      BY <2>1, <2>2 DEF Queued
    <3>2. \A m : Queued(m) => Queued(m)'
      BY <2>1, <2>2 DEF Queued
    <3> QED BY <2>1, <3>1, <3>2 DEF InOutbox, OnLink
  <2>4. \A m \in Message : /\ Live(m)' <=> Live(m)
                           /\ Held(m)' <=> Held(m)
                           /\ InOutbox(m)' <=> InOutbox(m)
    BY <1>1, <2>3 DEF Live, Held
  <2>5. \A h \in GameServers : outbox'[h] \union due'[h] \subseteq outbox[h] \union due[h]
    BY <2>1, <2>2
  <2>6. Posted' /\ InOrder' /\ Repeated' /\ Delivered' /\ LeavesOwnMap' /\ Carried
    BY <1>1, <2>1, <2>4, <2>5, IdleKeeps
  <2> QED BY <1>1, <2>6, PlayersKept
<1>3. ASSUME NEW e \in due[g], RetryStep(g, e)
      PROVE  /\ Posted' /\ Placed' /\ InOrder' /\ Repeated' /\ Delivered' /\ LeavesOwnMap' /\ KnowsMap'
             /\ HomeComes => HomeComes'
             /\ InstanceComes => InstanceComes'
  <2>1. PICK x \in Message : x = e.msg
    BY <1>1 DEF TypeOK, Entry
  <2>2. Held(x) /\ x.from = g
    BY <2>1 DEF Held, Queued, Posted
  <2>3. /\ \/ Transmit(Route(x), x) /\ MarkSent(x.from, x.id) /\ UNCHANGED dead
           \/ UNCHANGED link /\ MarkAttempt(x.from, x.id) /\ UNCHANGED dead
           \/ /\ UNCHANGED link /\ MarkSent(x.from, x.id)
              /\ dead' = IF x.id \in Pending(x.from) THEN dead \union {x} ELSE dead
        /\ due' = [due EXCEPT ![g] = @ \ {e}]
    BY <1>3, <2>1, <2>2 DEF RetryStep, GiveUp, Resend, ResendFails, Done
  <2>4. \A h \in GameServers : due'[h] \subseteq due[h] /\ {d \in due[h] : d.msg # x} \subseteq due'[h]
    <3>1. due'[g] = due[g] \ {e} /\ \A h \in GameServers : h # g => due'[h] = due[h]
      BY <1>1, <2>3 DEF TypeOK
    <3> QED BY <2>1, <3>1
  <2>5. HandOver(x)
    BY <1>1, <2>3, <2>4 DEF HandOver
  <2>6. Posted' /\ InOrder' /\ Repeated' /\ Delivered' /\ LeavesOwnMap' /\ Carried
    BY <2>2, <2>5, HandOverKeeps
  <2> QED BY <1>1, <2>6, PlayersKept
<1> QED BY <1>2, <1>3 DEF Retry

\* Of a request that overtakes nothing, the earlier ones are on its connection or in hand.
LEMMA NotOvertaken ==
  ASSUME TypeOK, Posted, NEW x \in Message, x.from = Realm[x.player], ~ Overtakes(x),
         NEW m \in Message, Live(m), m \notin sending, m.player = x.player,
         m.server = x.server
  PROVE  ~ Queued(m) /\ Route(m) = Route(x)
<1>1. m.from = x.from /\ x.from \in GameServers
  BY DEF Posted, Message
<1>2. ~ Queued(m)
  <2> SUFFICES ASSUME Queued(m) PROVE FALSE
    OBVIOUS
  <2>1. PICK g \in GameServers : \E e \in outbox[g] \union due[g] : e.msg = m
    BY DEF Queued
  <2>2. PICK e \in outbox[g] \union due[g] : e.msg = m
    BY <2>1
  <2>3. g = x.from
    BY <1>1, <2>2 DEF Posted
  <2> QED BY <2>2, <2>3 DEF Overtakes
<1>3. PICK c \in Connection : \E i \in 1 .. Len(link[c]) : link[c][i] = m
  BY <1>2 DEF Live, OnLink
<1>4. PICK i \in 1 .. Len(link[c]) : link[c][i] = m
  BY <1>3
<1>5. Route(m) = c /\ c[3] = m.server
  BY <1>4 DEF Posted, Route
<1>6. c = Route(x)
  BY <1>4, <1>5 DEF Overtakes
<1> QED BY <1>2, <1>5, <1>6

\* Where the players are, after a request of p to s about map k.
Placing(p, s, k, enter) ==
  /\ \A q, t : Lost(q, t) => Lost(q, t)'
  /\ \A q \in Players, t \in MapServers : q # p \/ t # s =>
       /\ \A m \in Maps : Before(q, t, MaxSeq + 1, m) => Before(q, t, MaxSeq + 1, m)'
       /\ \A m \in Maps, in \in BOOLEAN : Comes(q, t, m, in) => Comes(q, t, m, in)'
  /\ Before(p, s, MaxSeq + 1, k)'
  /\ \A m \in Maps, in \in BOOLEAN : m # k /\ Comes(p, s, m, in) => Comes(p, s, m, in)'
  /\ Comes(p, s, k, enter)'

\* p makes a request of `kind` about map k of server s, when none of his is in hand.
Request(p, by, kind, k, bound, s) ==
  /\ Submit(p, by, kind, k, bound)
  /\ s = IF bound = Nobody THEN Home[Realm[p]] ELSE bound
  /\ IF bound = Nobody THEN k \in Configured ELSE <<bound, k>> \in Instances
  /\ \A m \in sending : m.player # p
  /\ kind = "leave" /\ ~ Lost(p, s) => Before(p, s, MaxSeq + 1, k)
  /\ UNCHANGED <<due, link, present, where, inbox, dead>>

\* It comes after all that are under way, and it is the last to decide where he will be.
LEMMA RequestAgrees ==
  ASSUME IDInv, Posted, InOrder, Repeated, Delivered, LeavesOwnMap,
         NEW p \in Players, NEW by \in {"lane", "attach"}, NEW kind \in {"enter", "leave"},
         NEW k \in Maps, NEW bound \in MapServers \union {Nobody}, NEW s \in MapServers,
         Request(p, by, kind, k, bound, s)
  PROVE  /\ Posted' /\ InOrder' /\ Repeated' /\ Delivered' /\ LeavesOwnMap'
         /\ \E x \in Message :
              /\ x.player = p /\ x.by = by /\ x.kind = kind /\ x.server = s /\ x.map = k
              /\ x.via = IF bound = Nobody THEN "home" ELSE "cross"
              /\ sending' = sending \union {x}
         /\ Placing(p, s, k, kind = "enter")
<1> USE MapLinkAssumption DEF MapLinkAssumption, Request
<1>1. PICK x \in Message :
           /\ x.player = p /\ x.from = Realm[p] /\ x.by = by /\ x.kind = kind /\ x.map = k
           /\ x.via = IF bound = Nobody THEN "home" ELSE "cross"
           /\ x.server = IF bound = Nobody THEN Home[Realm[p]] ELSE bound
           /\ Number(x) \in 1 .. MaxSeq
           /\ \A m \in Message : Live(m) /\ m.from = Realm[p] => Number(m) < Number(x)
           /\ \A t \in MapServers : x.id \notin inbox[t]
           /\ sending' = sending \union {x}
           /\ astray' = IF Overtakes(x) THEN astray \union {<<p, x.server>>} ELSE astray
           /\ outbox' = [outbox EXCEPT ![Realm[p]] = @ \union {[msg |-> x, attempts |-> 1]}]
  <2>1. Submit(p, by, kind, k, bound) /\ UNCHANGED <<due, link>>
    OBVIOUS
  <2> QED BY ONLY IDInv, <2>1, Submitted
<1>2. x.server = s /\ x.map = k /\ x.player = p /\ x.kind = kind
  BY <1>1
<1>3. TypeOK /\ Realm[p] \in GameServers
  BY DEF IDInv
<1>4. \A m \in Message : /\ Live(m)' <=> Live(m) \/ m = x
                         /\ Held(m)' <=> Held(m) \/ m = x
                         /\ InOutbox(m)' <=> InOutbox(m) \/ m = x
                         /\ OnLink(m)' <=> OnLink(m)
  BY <1>1, <1>3, SubmittedLive
<1>5. \A q, t : Lost(q, t) => Lost(q, t)'
  BY <1>1 DEF Lost
<1>6. \A m \in Message : m.player \in Players /\ m.server \in MapServers /\ m.map \in Maps /\ Number(m) \in Nat
  BY NumberType DEF Message
<1>7. Posted'
  <2>1. \A m \in Message : Live(m)' =>
       /\ m.from = Realm[m.player]
       /\ \/ m.via = "home" /\ m.server = Home[m.from] /\ m.map \in Configured
          \/ m.via = "cross" /\ <<m.server, m.map>> \in Instances
    <3> HIDE DEF Message, Live
    <3>1. \A m \in Message : Live(m) =>
       /\ m.from = Realm[m.player]
       /\ \/ m.via = "home" /\ m.server = Home[m.from] /\ m.map \in Configured
          \/ m.via = "cross" /\ <<m.server, m.map>> \in Instances
      BY DEF Posted
    <3>2. /\ x.from = Realm[x.player]
          /\ \/ x.via = "home" /\ x.server = Home[x.from] /\ x.map \in Configured
             \/ x.via = "cross" /\ <<x.server, x.map>> \in Instances
      BY <1>1
    <3> QED BY <1>4, <3>1, <3>2
  <2>2. \A g \in GameServers : \A e \in outbox'[g] \union due'[g] : e.msg.from = g
    <3>1. [msg |-> x, attempts |-> 1].msg = x
      OBVIOUS
    <3>2. /\ outbox'[Realm[p]] = outbox[Realm[p]] \union {[msg |-> x, attempts |-> 1]}
          /\ \A g \in GameServers : g # Realm[p] => outbox'[g] = outbox[g]
      BY <1>1, <1>3 DEF TypeOK
    <3> QED BY <1>1, <3>1, <3>2 DEF Posted
  <2>3. \A d \in Connection : \A i \in 1 .. Len(link'[d]) : Route(link'[d][i]) = d
    BY DEF Posted
  <2> HIDE DEF Message, Live
  <2> QED BY <2>1, <2>2, <2>3 DEF Posted, Route
<1> HIDE DEF Message, Live
<1>8. \A m \in Message : Live(m) /\ m.player = p => Number(m) < Number(x)
  <2> SUFFICES ASSUME NEW m \in Message, Live(m), m.player = p PROVE Number(m) < Number(x)
    OBVIOUS
  <2>1. m.from = Realm[p]
    BY DEF Posted
  <2> QED BY <1>1, <2>1
<1>20. ASSUME NEW y \in Message, Live(y), Akin(y, x)' \/ Akin(x, y)'
       PROVE  ~ Held(y) /\ Route(y) = Route(x)
  <2>1. y.player = p /\ y.server = s /\ y \notin sending
    BY <1>2, <1>20 DEF Akin
  <2>2. ~ Overtakes(x)
    BY <1>1, <1>2, <1>20, <2>1 DEF Akin, Lost
  <2>3. ~ Queued(y) /\ Route(y) = Route(x)
    BY <1>1, <1>2, <1>3, <1>20, <2>1, <2>2, NotOvertaken
  <2> QED BY <2>1, <2>3 DEF Held
<1>21. \A y, z : Akin(y, z)' => Akin(y, z)
  BY <1>5 DEF Akin
<1>9. InOrder'
  <2>1. ASSUME NEW y \in Message, NEW z \in Message, Held(y)', Live(z)', Akin(y, z)'
        PROVE  Number(z) <= Number(y)
    <3>1. CASE y = x
      <4>1. z.player = p
        BY <1>2, <2>1, <3>1 DEF Akin
      <4> QED BY <1>1, <1>4, <1>6, <1>8, <2>1, <3>1, <4>1
    <3>2. CASE y # x
      <4>1. Held(y) /\ Live(y)
        BY <1>4, <2>1, <3>2 DEF Held, Live
      <4>2. z # x
        BY <1>20, <2>1, <4>1
      <4>3. Live(z)
        BY <1>4, <2>1, <4>2
      <4> QED BY <1>21, <2>1, <4>1, <4>3 DEF InOrder
    <3> QED BY <3>1, <3>2
  <2>2. ASSUME NEW y \in Message, NEW z \in Message, Live(y)', Live(z)', Akin(y, z)'
        PROVE  Route(y) = Route(z)
    <3>1. CASE y = x
      BY <1>4, <1>20, <2>2, <3>1
    <3>2. CASE z = x
      BY <1>4, <1>20, <2>2, <3>2
    <3>3. CASE y # x /\ z # x
      BY <1>4, <1>21, <2>2, <3>3 DEF InOrder
    <3> QED BY <3>1, <3>2, <3>3
  <2>3. \A c \in Connection : \A i, j \in 1 .. Len(link'[c]) :
       i < j /\ Akin(link[c][i], link[c][j])' => Number(link'[c][i]) <= Number(link'[c][j])
    <3> SUFFICES ASSUME NEW c \in Connection, NEW i \in 1 .. Len(link[c]),
                        NEW j \in 1 .. Len(link[c]), i < j, Akin(link[c][i], link[c][j])'
                 PROVE  Number(link[c][i]) <= Number(link[c][j])
      OBVIOUS
    <3>1. Akin(link[c][i], link[c][j])
      BY <1>5 DEF Akin
    <3> QED BY <3>1 DEF InOrder
  <2> HIDE DEF Request
  <2> QED BY <2>1, <2>2, <2>3 DEF InOrder, Akin, Number, Route
<1>10. \A y \in Message : Live(y) /\ First(y) /\ After(y) => First(y)' /\ After(y)'
  <2>1. \A y \in Message : After(y) => After(y)'
    BY DEF After
  <2>2. ASSUME NEW y \in Message, Live(y), First(y) PROVE First(y)'
    <3>1. ASSUME NEW z \in To(y.player, y.server)' PROVE Number(y) <= Number(z)
      <4>1. z \in Message /\ Live(z)' /\ z.player = y.player /\ z.server = y.server
        BY <3>1 DEF To
      <4>2. CASE z = x
        BY <1>1, <1>6, <1>8, <2>2, <4>1, <4>2
      <4>3. CASE z # x
        BY <1>4, <2>2, <4>1, <4>3 DEF First, To
      <4> QED BY <4>2, <4>3
    <3> QED BY <3>1 DEF First, Number
  <2> QED BY <2>1, <2>2
<1>11. Repeated'
  <2> SUFFICES ASSUME NEW y \in Message, NEW t \in MapServers, Live(y)', y.server = t,
                      ~ Lost(y.player, t)', y.kind = "enter", y.id \in inbox[t]
               PROVE  First(y)' /\ After(y)'
    BY DEF Repeated
  <2>1. Live(y)
    BY <1>1, <1>4
  <2> QED BY <1>5, <1>10, <2>1 DEF Repeated
<1>12. Delivered'
  <2> SUFFICES ASSUME NEW y \in Message, Held(y)', ~ InOutbox(y)',
                      ~ Lost(y.player, y.server)'
               PROVE  OnLink(y)' \/ (First(y)' /\ After(y)')
    BY DEF Delivered
  <2>1. Held(y) /\ ~ InOutbox(y) /\ ~ Lost(y.player, y.server) /\ Live(y)
    BY <1>4, <1>5, <1>6 DEF Held, Live
  <2> QED BY <1>4, <1>10, <2>1 DEF Delivered
<1>13. MaxSeq + 1 \in Nat /\ Number(x) < MaxSeq + 1 /\ Number(x) \in Nat
  BY <1>1
<1>14. \A q \in Players, t \in MapServers : q # p \/ t # s =>
              /\ \A n \in Nat, m \in Maps : Before(q, t, n, m) => Before(q, t, n, m)'
              /\ \A m \in Maps, in \in BOOLEAN : Comes(q, t, m, in) => Comes(q, t, m, in)'
  <2> SUFFICES ASSUME NEW q \in Players, NEW t \in MapServers, q # p \/ t # s
               PROVE  /\ \A n \in Nat, m \in Maps : Before(q, t, n, m) => Before(q, t, n, m)'
                      /\ \A m \in Maps, in \in BOOLEAN : Comes(q, t, m, in) => Comes(q, t, m, in)'
    OBVIOUS
  <2>1. To(q, t)' = To(q, t)
    BY <1>2, <1>4 DEF To
  <2> QED BY <2>1, NothingMoves
<1>15. /\ \A n \in Nat, m \in Maps :
            n <= Number(x) /\ Before(p, s, n, m) => Before(p, s, n, m)'
       /\ \A n \in Nat : Number(x) < n => Before(p, s, n, x.map)'
       /\ \A m \in Maps, in \in BOOLEAN :
            Comes(p, s, m, in) /\ m # x.map => Comes(p, s, m, in)'
       /\ Comes(p, s, x.map, x.kind = "enter")'
  <2>1. \A y \in To(p, s) : Number(y) < Number(x)
    BY <1>8 DEF To
  <2>2. To(p, s)' = To(p, s) \union {x}
    BY <1>2, <1>4 DEF To
  <2> QED BY <2>1, <2>2, LastAdded
<1>16. LeavesOwnMap'
  <2> SUFFICES ASSUME NEW y \in Message, Live(y)', y.kind = "leave",
                      ~ Lost(y.player, y.server)'
               PROVE  Before(y.player, y.server, Number(y), y.map)'
    BY DEF LeavesOwnMap, Number
  <2>1. CASE y = x
    <3>1. Before(p, s, MaxSeq + 1, k)
      BY <1>2, <1>5, <2>1
    <3>2. {z \in To(p, s) : Number(z) < MaxSeq + 1} = {z \in To(p, s) : Number(z) < Number(x)}
      BY <1>6, <1>8, <1>13 DEF To
    <3>3. Before(p, s, Number(x), k)
      BY <3>1, <3>2 DEF Before
    <3>4. Before(p, s, Number(x), k)'
      BY <1>13, <1>15, <3>3
    <3> QED BY <1>2, <2>1, <3>4 DEF Before, To, Number
  <2>2. CASE y # x
    <3>1. Live(y) /\ ~ Lost(y.player, y.server)
      BY <1>4, <1>5, <1>6, <2>2
    <3>2. Before(y.player, y.server, Number(y), y.map)
      BY <3>1 DEF LeavesOwnMap
    <3>3. CASE y.player = p /\ y.server = s
      <4>1. Number(y) <= Number(x)
        BY <1>6, <1>8, <1>13, <3>1, <3>3
      <4>2. Before(p, s, Number(y), y.map)'
        BY <1>6, <1>15, <3>2, <3>3, <4>1
      <4> QED BY <3>3, <4>2
    <3>4. CASE y.player # p \/ y.server # s
      BY <1>6, <1>14, <3>2, <3>4
    <3> QED BY <3>3, <3>4
  <2> QED BY <2>1, <2>2
<1>17. Before(p, s, MaxSeq + 1, k)'
  <2>1. Before(p, s, MaxSeq + 1, x.map)'
    BY <1>13, <1>15
  <2> QED BY <1>2, <2>1 DEF Before, To, Number
<1>18. Comes(p, s, k, kind = "enter")'
  BY <1>2, <1>15 DEF Comes, To, Number
<1>19. \A q \in Players, t \in MapServers : q # p \/ t # s =>
              /\ \A m \in Maps : Before(q, t, MaxSeq + 1, m) => Before(q, t, MaxSeq + 1, m)'
              /\ \A m \in Maps, in \in BOOLEAN : Comes(q, t, m, in) => Comes(q, t, m, in)'
  BY <1>13, <1>14
<1> QED BY <1>1, <1>2, <1>5, <1>7, <1>9, <1>11, <1>12, <1>15, <1>16, <1>17, <1>18, <1>19 DEF Placing

\* A client acts when none of his requests is in hand.
LEMMA NoneHeld ==
  ASSUME TypeOK, NEW p \in Players, ClientMayAct(p)
  PROVE  (\A m \in sending : m.player # p) /\ ~ Attaching(p) /\ ~ Departing(p)
<1>1. \A m \in sending : m \in Message /\ m.by \in {"lane", "attach"}
  BY DEF TypeOK, Message
<1>2. \A m \in sending : m.player # p
  BY <1>1 DEF ClientMayAct, Sending
<1> QED BY <1>2 DEF Attaching, Departing

\* Player q is where he was, or one of his requests went astray.
Kept(q) ==
  /\ current'[q] # Nobody /\ q \notin leaving' /\ ~ Lost(q, Here(q))' /\ ~ AttachingHome(q)'
       => Before(q, Here(q), MaxSeq + 1, current[q])'
  /\ \A m \in Configured, in \in BOOLEAN :
       HomeComes /\ (in <=> <<q, m>> \in local[Realm[q]]) /\ ~ Lost(q, Home[Realm[q]])'
         => Comes(q, Home[Realm[q]], m, in)'
  /\ InstanceComes => \A i \in Instances :
       ~ Lost(q, i[1])' => Comes(q, i[1], i[2], In(q, i))'

\* The others are where they were.
LEMMA OthersPlaced ==
  ASSUME TypeOK, KnowsMap, NEW p \in Players, NEW s \in MapServers, NEW k \in Maps, NEW enter \in BOOLEAN,
         Placing(p, s, k, enter),
         NEW x, x.player = p, sending' = sending \union {x},
         \A q \in Players : q # p =>
           /\ current'[q] = current[q] /\ binding'[q] = binding[q]
           /\ (Attaching(q)' <=> Attaching(q)) /\ (Departing(q)' <=> Departing(q))
           /\ q \in leaving => q \in leaving',
         NEW q \in Players, q # p
  PROVE  Kept(q)
<1> USE MapLinkAssumption DEF MapLinkAssumption
<1>1. /\ \A t \in MapServers : Lost(q, t) => Lost(q, t)'
      /\ \A t \in MapServers, m \in Maps :
           Before(q, t, MaxSeq + 1, m) => Before(q, t, MaxSeq + 1, m)'
      /\ \A t \in MapServers, m \in Maps, in \in BOOLEAN :
           Comes(q, t, m, in) => Comes(q, t, m, in)'
  BY DEF Placing
<1>2. ASSUME current'[q] # Nobody, q \notin leaving', ~ Lost(q, Here(q))', ~ AttachingHome(q)'
      PROVE  Before(q, Here(q), MaxSeq + 1, current[q])'
  <2>1. /\ Here(q)' = Here(q) /\ Here(q) \in MapServers /\ current[q] \in Maps
        /\ current'[q] = current[q] /\ ~ AttachingHome(q)
    BY <1>2 DEF Here, AttachingHome, TypeOK
  <2>3. PICK t \in MapServers, j \in Maps : t = Here(q) /\ j = current[q]
    BY <2>1
  <2>5. ~ Lost(q, t)
    <3>1. ~ Lost(q, t)'
      BY <1>2, <2>1, <2>3 DEF Lost
    <3> QED BY <1>1, <3>1
  <2>2. Before(q, Here(q), MaxSeq + 1, current[q])
    BY <1>2, <2>1, <2>3, <2>5 DEF KnowsMap
  <2>4. Before(q, t, MaxSeq + 1, j)'
    BY <1>1, <2>2, <2>3
  <2> QED BY <2>1, <2>3, <2>4 DEF Before, To
<1>3. ASSUME NEW m \in Configured, NEW in \in BOOLEAN, HomeComes,
             in <=> <<q, m>> \in local[Realm[q]], ~ Lost(q, Home[Realm[q]])'
      PROVE  Comes(q, Home[Realm[q]], m, in)'
  <2>1. Comes(q, Home[Realm[q]], m, in)
    <3>1. ~ Lost(q, Home[Realm[q]])
      BY <1>1, <1>3
    <3>2. Comes(q, Home[Realm[q]], m, <<q, m>> \in local[Realm[q]])
      BY <1>3, <3>1 DEF HomeComes
    <3> QED BY <1>3, <3>2 DEF Comes
  <2>2. Home[Realm[q]] \in MapServers /\ m \in Maps
    OBVIOUS
  <2> QED BY <1>1, <2>1, <2>2
<1>4. ASSUME InstanceComes, NEW i \in Instances, ~ Lost(q, i[1])'
      PROVE  Comes(q, i[1], i[2], In(q, i))'
  <2>1. i[1] \in MapServers /\ i[2] \in Maps
    OBVIOUS
  <2>2. PICK in \in BOOLEAN : in <=> In(q, i)
    OBVIOUS
  <2>3. Comes(q, i[1], i[2], in)
    <3>1. Comes(q, i[1], i[2], In(q, i))
      BY <1>1, <1>4, <2>1 DEF InstanceComes
    <3> QED BY <2>2, <3>1 DEF Comes
  <2>4. Comes(q, i[1], i[2], in)'
    BY <1>1, <2>1, <2>3
  <2>5. in <=> In(q, i)'
    BY <2>2 DEF In
  <2> QED BY <2>4, <2>5 DEF Comes, To
<1> QED BY <1>2, <1>3, <1>4 DEF Kept

\* The others keep their bindings when p makes request x.
LEMMA RequestPlaced ==
  ASSUME TypeOK, Placed, NEW p \in Players, NEW x \in Message, x.player = p,
         sending' = sending \union {x}, \A m \in sending : m.player # p,
         \A q \in Players : q # p => /\ current'[q] = current[q] /\ binding'[q] = binding[q]
                                     /\ q \in leaving => q \in leaving',
         x.by = "attach" => x.kind = "enter" /\ x.via = "cross",
         x.by = "attach" \/ IsCrossLeave(x) => x.server = binding'[p],
         IsCrossLeave(x) => current'[p] = Nobody \/ p \in leaving',
         binding'[p] # Nobody =>
           /\ \E i \in Instances : i[1] = binding'[p]
           /\ x.by # "attach" /\ current'[p] # Nobody => <<binding'[p], current'[p]>> \in Instances
  PROVE  /\ Placed'
         /\ \A q \in Players : q # p =>
              (Attaching(q)' <=> Attaching(q)) /\ (Departing(q)' <=> Departing(q))
         /\ Attaching(p)' <=> x.by = "attach"
         /\ Departing(p)' <=> x.by = "lane" /\ IsCrossLeave(x)
<1>1. \A m \in sending : m.player \in Players
  BY DEF TypeOK, Message
<1>2. \A q \in Players : q # p => (Attaching(q)' <=> Attaching(q)) /\ (Departing(q)' <=> Departing(q))
  BY DEF Attaching, Departing
<1>3. /\ Attaching(p)' <=> x.by = "attach"
      /\ Departing(p)' <=> x.by = "lane" /\ IsCrossLeave(x)
  BY DEF Attaching, Departing
<1>4. ASSUME NEW q \in Players, binding'[q] # Nobody
      PROVE  /\ \E i \in Instances : i[1] = binding'[q]
             /\ ~ Attaching(q)' /\ current'[q] # Nobody => <<binding'[q], current'[q]>> \in Instances
  <2>1. CASE q = p
    BY <1>3, <1>4, <2>1
  <2>2. CASE q # p
    BY <1>2, <1>4, <2>2 DEF Placed
  <2> QED BY <2>1, <2>2
<1>5. ASSUME NEW m \in sending'
      PROVE  /\ m.by = "attach" => m.kind = "enter" /\ m.via = "cross"
             /\ m.by = "attach" \/ IsCrossLeave(m) => m.server = binding'[m.player]
             /\ IsCrossLeave(m) => current'[m.player] = Nobody \/ m.player \in leaving'
             /\ \A n \in sending' : m.player = n.player => m = n
  <2>1. CASE m = x
    BY <2>1
  <2>2. CASE m \in sending
    BY <1>1, <2>2 DEF Placed
  <2> QED BY <2>1, <2>2
<1>6. Placed'
  BY <1>4, <1>5 DEF Placed, IsCrossLeave
<1> QED BY <1>2, <1>3, <1>6

\* HandlePlayerEnterMap
LEMMA EnterAgrees ==
  ASSUME AgreeInv, Steady, Sited, NEW p \in Players, NEW k \in Maps, EnterMap(p, k)
  PROVE  /\ Ordered'
         /\ HomeComes => HomeComes'
         /\ InstanceComes => InstanceComes'
<1> USE MapLinkAssumption DEF MapLinkAssumption
<1> DEFINE s == Home[Realm[p]]
<1>1. /\ IDInv /\ TargetInv /\ TypeOK /\ Posted /\ Placed /\ InOrder /\ Repeated /\ Delivered
      /\ LeavesOwnMap /\ KnowsMap
  BY DEF AgreeInv, IDInv, Ordered
<1>2. /\ ClientMayAct(p) /\ k \in Configured /\ current[p] = Nobody
      /\ local' = [local EXCEPT ![Realm[p]] = @ \union {<<p, k>>}]
      /\ Submit(p, "lane", "enter", k, binding[p])
      /\ current' = [current EXCEPT ![p] = k]
      /\ UNCHANGED <<online, leaving, binding, due, dead, link, present, where, inbox>>
  BY DEF EnterMap, lobby, msVars, Steady, Ordinary
<1>3. (\A m \in sending : m.player # p) /\ ~ Attaching(p) /\ ~ Departing(p)
  BY <1>1, <1>2, NoneHeld
<1>4. binding[p] = Nobody
  BY <1>1, <1>2, <1>3, FreeUnbound DEF ClientMayAct
<1>5. s \in MapServers
  OBVIOUS
<1> HIDE DEF s
<1>6. /\ Posted' /\ InOrder' /\ Repeated' /\ Delivered' /\ LeavesOwnMap'
      /\ \E x \in Message :
           /\ x.player = p /\ x.by = "lane" /\ x.kind = "enter" /\ x.server = s /\ x.via = "home"
           /\ x.map = k
           /\ sending' = sending \union {x}
      /\ Placing(p, s, k, TRUE)
  <2>1. Request(p, "lane", "enter", k, Nobody, s)
    BY <1>2, <1>3, <1>4 DEF Request, s
  <2>7. /\ Posted' /\ InOrder' /\ Repeated' /\ Delivered' /\ LeavesOwnMap'
        /\ \E x \in Message :
              /\ x.player = p /\ x.by = "lane" /\ x.kind = "enter" /\ x.server = s /\ x.map = k
              /\ x.via = IF Nobody = Nobody THEN "home" ELSE "cross"
              /\ sending' = sending \union {x}
        /\ Placing(p, s, k, "enter" = "enter")
    BY <1>1, <1>5, <2>1, RequestAgrees
  <2>8. Placing(p, s, k, TRUE)
    BY <2>7 DEF Placing, Comes
  <2> QED BY <2>7, <2>8
<1>7. PICK x \in Message :
           /\ x.player = p /\ x.by = "lane" /\ x.kind = "enter" /\ x.server = s /\ x.via = "home"
           /\ x.map = k
           /\ sending' = sending \union {x}
  BY <1>6
<1>8. current'[p] = k /\ \A q \in Players : q # p => current'[q] = current[q]
  BY <1>1, <1>2 DEF TypeOK
<1>9. /\ Placed'
      /\ \A q \in Players : q # p =>
              (Attaching(q)' <=> Attaching(q)) /\ (Departing(q)' <=> Departing(q))
      /\ ~ Attaching(p)' /\ ~ Departing(p)'
  <2>1. x.by # "attach" /\ ~ IsCrossLeave(x)
    BY <1>7 DEF IsCrossLeave
  <2>2. \A q \in Players : q # p => /\ current'[q] = current[q] /\ binding'[q] = binding[q]
                                    /\ q \in leaving => q \in leaving'
    BY <1>2, <1>8
  <2>3. binding'[p] = Nobody
    BY <1>2, <1>4
  <2> QED BY <1>1, <1>3, <1>7, <2>1, <2>2, <2>3, RequestPlaced
<1>10. ASSUME NEW q \in Players, q # p PROVE Kept(q)
  <2>1. \A r \in Players : r # p =>
           /\ current'[r] = current[r] /\ binding'[r] = binding[r]
           /\ (Attaching(r)' <=> Attaching(r)) /\ (Departing(r)' <=> Departing(r))
           /\ r \in leaving => r \in leaving'
    BY <1>2, <1>8, <1>9
  <2> QED BY ONLY <1>1, <1>5, <1>6, <1>7, <1>10, <2>1, OthersPlaced
<1>11. KnowsMap'
  <2>1. Here(p)' = s
    BY <1>2, <1>4 DEF Here, s
  <2>2. Before(p, Here(p), MaxSeq + 1, current[p])'
    BY <1>6, <1>8, <2>1 DEF Placing, Before, To
  <2> QED BY <1>10, <2>2 DEF KnowsMap, Kept
<1>12. ASSUME HomeComes PROVE HomeComes'
  <2>1. \A q \in Players, m \in Maps : <<q, m>> \in local'[Realm[q]] <=>
          <<q, m>> \in local[Realm[q]] \/ (q = p /\ m = k)
    BY <1>1, <1>2 DEF TypeOK
  <2> SUFFICES ASSUME NEW q \in Players, ~ Lost(q, Home[Realm[q]])',
                      NEW m \in Configured
               PROVE  Comes(q, Home[Realm[q]], m, <<q, m>> \in local[Realm[q]])'
    BY DEF HomeComes
  <2>2. PICK in \in BOOLEAN : in <=> <<q, m>> \in local[Realm[q]]
    OBVIOUS
  <2>3. CASE q # p
    <3>1. Comes(q, Home[Realm[q]], m, in)'
      BY <1>10, <1>12, <2>2, <2>3 DEF Kept
    <3>2. <<q, m>> \in local'[Realm[q]] <=> <<q, m>> \in local[Realm[q]]
      BY <2>1, <2>3
    <3> QED BY <2>2, <3>1, <3>2 DEF Comes, To
  <2>4. CASE q = p /\ m = k
    BY <1>6, <2>1, <2>4 DEF Placing, Comes, To, s
  <2>5. CASE q = p /\ m # k
    <3>1. Comes(p, s, m, in)
      <4>1. ~ Lost(p, s)
        BY <1>6, <2>5 DEF Placing, s
      <4>2. Comes(p, s, m, <<p, m>> \in local[Realm[p]])
        BY <1>12, <4>1 DEF HomeComes, s
      <4> QED BY <2>2, <2>5, <4>2 DEF Comes
    <3>2. Comes(p, s, m, in)'
      BY <1>6, <2>5, <3>1 DEF Placing
    <3>3. <<p, m>> \in local'[Realm[p]] <=> <<p, m>> \in local[Realm[p]]
      BY <2>1, <2>5
    <3> QED BY <2>2, <2>5, <3>2, <3>3 DEF Comes, To, s
  <2> QED BY <2>3, <2>4, <2>5
<1>13. ASSUME InstanceComes PROVE InstanceComes'
  <2> SUFFICES ASSUME NEW q \in Players, NEW i \in Instances, ~ Lost(q, i[1])'
               PROVE  Comes(q, i[1], i[2], In(q, i))'
    BY DEF InstanceComes
  <2>1. CASE q # p
    BY <1>10, <1>13, <2>1 DEF Kept
  <2>2. CASE q = p
    <3>1. i[1] \in MapServers /\ i[2] \in Maps /\ i[2] # k /\ i[1] # Nobody
      BY <1>2 DEF Sited
    <3>2. Comes(p, i[1], i[2], FALSE)
      <4>1. ~ Lost(p, i[1])
        BY <1>6, <2>2 DEF Placing
      <4>2. Comes(p, i[1], i[2], In(p, i))
        BY <1>13, <4>1 DEF InstanceComes
      <4>3. ~ In(p, i)
        BY <1>3, <1>4, <3>1 DEF In, Attaching
      <4> QED BY <4>2, <4>3 DEF Comes
    <3>3. Comes(p, i[1], i[2], FALSE)'
      <4>1. CASE i[1] = s
        BY <1>6, <3>1, <3>2, <4>1 DEF Placing
      <4>2. CASE i[1] # s
        BY <1>6, <3>1, <3>2, <4>2 DEF Placing
      <4> QED BY <4>1, <4>2
    <3>4. ~ In(p, i)'
      BY <1>2, <1>4, <1>9, <3>1 DEF In, Attaching
    <3> QED BY <2>2, <3>3, <3>4 DEF Comes, To
  <2> QED BY <2>1, <2>2
<1> QED BY <1>6, <1>9, <1>11, <1>12, <1>13 DEF Ordered

\* A step that makes no request.
LEMMA NoRequest ==
  ASSUME AgreeInv,
         UNCHANGED <<binding, local, sending, outbox, due, dead, astray, link, present, where, inbox>>,
         \A q \in Players : \/ current'[q] = current[q]
                            \/ current'[q] = Nobody /\ binding[q] = Nobody,
         \A q \in Players : q \in leaving \ leaving' => current'[q] = Nobody
  PROVE  /\ Ordered'
         /\ HomeComes => HomeComes'
         /\ InstanceComes => InstanceComes'
<1>1. /\ IDInv /\ TypeOK /\ Posted /\ Placed /\ InOrder /\ Repeated /\ Delivered
      /\ LeavesOwnMap /\ KnowsMap
  BY DEF AgreeInv, IDInv, Ordered
<1>2. \A m \in Message : /\ Live(m)' <=> Live(m)
                         /\ Held(m)' <=> Held(m)
                         /\ InOutbox(m)' <=> InOutbox(m)
  BY DEF Live, Held, InOutbox, Queued, OnLink
<1>3. Posted' /\ InOrder' /\ Repeated' /\ Delivered' /\ LeavesOwnMap' /\ Carried
  <2>1. \A g \in GameServers : outbox'[g] \union due'[g] \subseteq outbox[g] \union due[g]
    OBVIOUS
  <2>2. \A t \in MapServers : inbox'[t] \subseteq inbox[t]
    OBVIOUS
  <2> QED BY <1>1, <1>2, <2>1, <2>2, IdleKeeps
<1> QED BY <1>1, <1>3, PlayersKept DEF Ordered

\* HandlePlayerLeaveMap and the leave of LeaveGame.
LEMMA LeaveAgrees ==
  ASSUME AgreeInv, Steady, Sited, NEW p \in Players, NEW k \in Maps, ClientMayAct(p), k = current[p],
         LeaveHome(p, k) \/ LeaveCross(p, k),
         UNCHANGED <<due, dead, link, present, where, inbox>>,
         \A q \in Players : q # p => current'[q] = current[q],
         leaving \subseteq leaving', leaving' \subseteq leaving \union {p},
         current'[p] = Nobody \/ (p \in leaving' /\ current'[p] = current[p])
  PROVE  /\ Ordered'
         /\ HomeComes => HomeComes'
         /\ InstanceComes => InstanceComes'
<1> USE MapLinkAssumption DEF MapLinkAssumption
<1>1. /\ IDInv /\ TargetInv /\ TypeOK /\ Posted /\ Placed /\ InOrder /\ Repeated /\ Delivered
      /\ LeavesOwnMap /\ KnowsMap /\ UNCHANGED binding
  BY DEF AgreeInv, IDInv, Ordered, LeaveHome, LeaveCross
<1>2. (\A m \in sending : m.player # p) /\ ~ Attaching(p) /\ ~ Departing(p)
  BY <1>1, NoneHeld
<1>3. k # Nobody /\ p \notin leaving /\ binding[p] \in MapServers \union {Nobody}
  BY <1>1 DEF ClientMayAct, TypeOK
<1>4. CASE LeaveHome(p, k) /\ k \notin Configured
  <2>1. UNCHANGED <<binding, local, sending, outbox, astray>> /\ binding[p] = Nobody
    BY <1>4 DEF LeaveHome
  <2>2. \A q \in Players : \/ current'[q] = current[q]
                           \/ current'[q] = Nobody /\ binding[q] = Nobody
    BY <2>1
  <2>3. \A q \in Players : q \in leaving \ leaving' => current'[q] = Nobody
    OBVIOUS
  <2> QED BY <2>1, <2>2, <2>3, NoRequest
<1>5. CASE LeaveCross(p, k) \/ k \in Configured
  <2>0. PICK s \in MapServers : s = Here(p)
    BY <1>2, <1>3 DEF Here
  <2>1. s = (IF binding[p] = Nobody THEN Home[Realm[p]] ELSE binding[p]) /\ s \in MapServers
    BY <1>2, <2>0 DEF Here
  <2>2. /\ Submit(p, "lane", "leave", k, binding[p])
        /\ IF binding[p] = Nobody THEN k \in Configured ELSE <<binding[p], k>> \in Instances
        /\ local' = IF binding[p] = Nobody THEN [local EXCEPT ![Realm[p]] = @ \ {<<p, k>>}] ELSE local
    <3>1. CASE LeaveHome(p, k)
      <4>1. k \in Configured
        BY <1>5, <3>1 DEF LeaveHome, LeaveCross
      <4> QED BY <3>1, <4>1 DEF LeaveHome
    <3>2. CASE LeaveCross(p, k)
      <4>1. <<binding[p], current[p]>> \in Instances
        BY <1>1, <1>2, <1>3, <3>2 DEF LeaveCross, Placed
      <4> QED BY <3>2, <4>1 DEF LeaveCross
    <3> QED BY <3>1, <3>2
  <2>3. ~ Lost(p, s) => Before(p, s, MaxSeq + 1, k)
    BY <1>1, <1>2, <1>3, <2>0 DEF KnowsMap, AttachingHome
  <2>4. Request(p, "lane", "leave", k, binding[p], s)
    BY <1>2, <2>1, <2>2, <2>3 DEF Request
  <2>5. /\ Posted' /\ InOrder' /\ Repeated' /\ Delivered' /\ LeavesOwnMap'
        /\ \E x \in Message :
              /\ x.player = p /\ x.by = "lane" /\ x.kind = "leave" /\ x.server = s /\ x.map = k
              /\ x.via = IF binding[p] = Nobody THEN "home" ELSE "cross"
              /\ sending' = sending \union {x}
        /\ Placing(p, s, k, FALSE)
    <3>1. "lane" \in {"lane", "attach"} /\ "leave" \in {"enter", "leave"}
      OBVIOUS
    <3>2. PICK b \in MapServers \union {Nobody} : b = binding[p]
      BY <1>3
    <3>3. Request(p, "lane", "leave", k, b, s)
      BY <2>4, <3>2
    <3>4. /\ Posted' /\ InOrder' /\ Repeated' /\ Delivered' /\ LeavesOwnMap'
          /\ \E x \in Message :
                /\ x.player = p /\ x.by = "lane" /\ x.kind = "leave" /\ x.server = s /\ x.map = k
                /\ x.via = IF b = Nobody THEN "home" ELSE "cross"
                /\ sending' = sending \union {x}
          /\ Placing(p, s, k, "leave" = "enter")
      <4>1. IDInv /\ Posted /\ InOrder /\ Repeated /\ Delivered /\ LeavesOwnMap
        BY <1>1
      <4>2. p \in Players /\ k \in Maps /\ s \in MapServers
        BY <2>1
      <4> QED BY ONLY <3>1, <3>2, <3>3, <4>1, <4>2, RequestAgrees, MapLinkAssumption
    <3>5. Placing(p, s, k, FALSE)
      BY <3>4 DEF Placing, Comes
    <3> QED BY <3>2, <3>4, <3>5
  <2>6. PICK x \in Message :
              /\ x.player = p /\ x.by = "lane" /\ x.kind = "leave" /\ x.server = s /\ x.map = k
              /\ x.via = IF binding[p] = Nobody THEN "home" ELSE "cross"
              /\ sending' = sending \union {x}
    BY <2>5
  <2>7. /\ Placed'
        /\ \A q \in Players : q # p =>
                (Attaching(q)' <=> Attaching(q)) /\ (Departing(q)' <=> Departing(q))
        /\ ~ Attaching(p)' /\ (Departing(p)' <=> binding[p] # Nobody)
    <3>1. x.by = "lane" /\ (IsCrossLeave(x) <=> binding[p] # Nobody)
      BY <2>6 DEF IsCrossLeave
    <3>2. \A q \in Players : q # p => /\ current'[q] = current[q] /\ binding'[q] = binding[q]
                                      /\ q \in leaving => q \in leaving'
      BY <1>1
    <3>3. IsCrossLeave(x) => x.server = binding'[p]
      BY <1>1, <2>1, <2>6, <3>1
    <3>4. IsCrossLeave(x) => current'[p] = Nobody \/ p \in leaving'
      OBVIOUS
    <3>5. binding'[p] # Nobody =>
           /\ \E i \in Instances : i[1] = binding'[p]
           /\ x.by # "attach" /\ current'[p] # Nobody => <<binding'[p], current'[p]>> \in Instances
      BY <1>1, <1>2 DEF Placed
    <3> QED BY <1>1, <1>2, <2>6, <3>1, <3>2, <3>3, <3>4, <3>5, RequestPlaced
  <2>8. ASSUME NEW q \in Players, q # p PROVE Kept(q)
    <3>1. \A r \in Players : r # p =>
             /\ current'[r] = current[r] /\ binding'[r] = binding[r]
             /\ (Attaching(r)' <=> Attaching(r)) /\ (Departing(r)' <=> Departing(r))
             /\ r \in leaving => r \in leaving'
      BY <1>1, <2>7
    <3> QED BY ONLY <1>1, <2>1, <2>5, <2>6, <2>8, <3>1, OthersPlaced
  <2>9. KnowsMap'
    BY <2>8 DEF KnowsMap, Kept
  <2>10. ASSUME HomeComes PROVE HomeComes'
    <3>1. \A q \in Players, m \in Maps : <<q, m>> \in local'[Realm[q]] <=>
            <<q, m>> \in local[Realm[q]] /\ ~ (q = p /\ m = k /\ binding[p] = Nobody)
      BY <1>1, <2>2 DEF TypeOK
    <3> SUFFICES ASSUME NEW q \in Players, ~ Lost(q, Home[Realm[q]])',
                        NEW m \in Configured
                 PROVE  Comes(q, Home[Realm[q]], m, <<q, m>> \in local[Realm[q]])'
      BY DEF HomeComes
    <3>2. PICK in \in BOOLEAN : in <=> <<q, m>> \in local[Realm[q]]
      OBVIOUS
    <3>3. CASE q # p
      <4>1. Comes(q, Home[Realm[q]], m, in)'
        BY <2>8, <2>10, <3>2, <3>3 DEF Kept
      <4>2. <<q, m>> \in local'[Realm[q]] <=> <<q, m>> \in local[Realm[q]]
        BY <3>1, <3>3
      <4> QED BY <3>2, <4>1, <4>2 DEF Comes, To
    <3>4. CASE q = p
      <4>1. PICK t \in MapServers : t = Home[Realm[p]]
        OBVIOUS
      <4>2. Comes(p, t, m, in)
        <5>1. ~ Lost(p, t)
          BY <2>5, <3>4, <4>1 DEF Placing
        <5>2. Comes(p, t, m, <<p, m>> \in local[Realm[p]])
          BY <2>10, <4>1, <5>1 DEF HomeComes
        <5> QED BY <3>2, <3>4, <5>2 DEF Comes
      <4>3. CASE binding[p] = Nobody /\ m = k
        <5>1. t = s /\ <<p, m>> \notin local'[Realm[p]]
          BY <2>1, <3>1, <4>1, <4>3
        <5>2. Comes(p, s, k, FALSE)'
          BY <2>5 DEF Placing
        <5> QED BY <3>4, <4>1, <4>3, <5>1, <5>2 DEF Comes, To
      <4>4. CASE binding[p] # Nobody \/ m # k
        <5>1. t # s \/ m # k
          <6>1. CASE binding[p] # Nobody
            <7>1. PICK i \in Instances : i = <<binding[p], k>>
              BY <2>2, <6>1
            <7>2. k \notin Configured
              BY <7>1 DEF Sited
            <7> QED BY <7>2
          <6> QED BY <4>4, <6>1
        <5>2. Comes(p, t, m, in)'
          <6>1. Placing(p, s, k, FALSE) /\ m \in Maps
            BY <2>5
          <6>2. CASE t # s
            BY <4>2, <6>1, <6>2 DEF Placing
          <6>3. CASE t = s /\ m # k
            BY <4>2, <6>1, <6>3 DEF Placing
          <6> QED BY <5>1, <6>2, <6>3
        <5>3. <<p, m>> \in local'[Realm[p]] <=> in
          BY <3>1, <3>2, <3>4, <4>4
        <5> QED BY <3>4, <4>1, <5>2, <5>3 DEF Comes, To
      <4> QED BY <4>3, <4>4
    <3> QED BY <3>3, <3>4
  <2>11. ASSUME InstanceComes PROVE InstanceComes'
    <3> SUFFICES ASSUME NEW q \in Players, NEW i \in Instances, ~ Lost(q, i[1])'
                 PROVE  Comes(q, i[1], i[2], In(q, i))'
      BY DEF InstanceComes
    <3>1. CASE q # p
      BY <2>8, <2>11, <3>1 DEF Kept
    <3>2. CASE q = p
      <4>1. i[1] \in MapServers /\ i[2] \in Maps /\ i[1] # Nobody /\ i = <<i[1], i[2]>>
        OBVIOUS
      <4>2. Comes(p, i[1], i[2], FALSE)'
        <5>1. CASE i[1] = s /\ i[2] = k
          <6>1. Comes(p, s, k, FALSE)'
            BY <2>5 DEF Placing
          <6> QED BY <5>1, <6>1 DEF Comes, To
        <5>2. CASE i[1] # s \/ i[2] # k
          <6>1. ~ In(p, i)
            BY <1>2, <2>1, <4>1, <5>2 DEF In
          <6>2. Comes(p, i[1], i[2], FALSE)
            <7>1. ~ Lost(p, i[1])
              BY <2>5, <3>2 DEF Placing
            <7>2. Comes(p, i[1], i[2], In(p, i))
              BY <2>11, <7>1 DEF InstanceComes
            <7> QED BY <6>1, <7>2 DEF Comes
          <6>3. Placing(p, s, k, FALSE)
            BY <2>5
          <6>4. CASE i[1] # s
            BY <4>1, <6>2, <6>3, <6>4 DEF Placing
          <6>5. CASE i[1] = s /\ i[2] # k
            <7>1. Comes(p, s, i[2], FALSE)
              BY <6>2, <6>5
            <7>2. Comes(p, s, i[2], FALSE)'
              BY <4>1, <6>3, <6>5, <7>1 DEF Placing
            <7> QED BY <6>5, <7>2
          <6> QED BY <5>2, <6>4, <6>5
        <5> QED BY <5>1, <5>2
      <4>3. ~ In(p, i)'
        BY <1>1, <2>7, <4>1 DEF In, Attaching
      <4> QED BY <3>2, <4>2, <4>3 DEF Comes, To
    <3> QED BY <3>1, <3>2
  <2> QED BY <2>5, <2>7, <2>9, <2>10, <2>11 DEF Ordered
<1> QED BY <1>4, <1>5

\* AttachPlayerToCrossInstance
LEMMA AttachAgrees ==
  ASSUME AgreeInv, Steady, Sited, NEW p \in Players, NEW s \in MapServers, NEW k \in Maps,
         AttachCross(p, s, k)
  PROVE  /\ Ordered'
         /\ HomeComes => HomeComes'
         /\ InstanceComes => InstanceComes'
<1> USE MapLinkAssumption DEF MapLinkAssumption
<1>1. /\ IDInv /\ TargetInv /\ TypeOK /\ Posted /\ Placed /\ InOrder /\ Repeated /\ Delivered
      /\ LeavesOwnMap /\ KnowsMap
  BY DEF AgreeInv, IDInv, Ordered
<1>2. /\ ClientMayAct(p) /\ <<s, k>> \in Instances
      /\ \A i \in Instances : current[p] # i[2]
      /\ binding' = [binding EXCEPT ![p] = s]
      /\ Submit(p, "attach", "enter", k, s)
      /\ UNCHANGED <<online, leaving, current, local, due, dead, link, present, where, inbox>>
  BY DEF AttachCross, lobby, msVars, Steady, Ordinary
<1>3. (\A m \in sending : m.player # p) /\ ~ Attaching(p) /\ ~ Departing(p)
  BY <1>1, <1>2, NoneHeld
<1>4. binding[p] = Nobody
  <2> SUFFICES ASSUME binding[p] # Nobody PROVE FALSE
    OBVIOUS
  <2>1. current[p] # Nobody
    BY <1>1, <1>3 DEF TargetInv, Bound
  <2>2. <<binding[p], current[p]>> \in Instances
    BY <1>1, <1>3, <2>1 DEF Placed
  <2> QED BY <1>2, <2>2
<1>5. s # Nobody /\ k \notin Configured
  <2>1. PICK i \in Instances : i = <<s, k>>
    BY <1>2
  <2> QED BY <2>1 DEF Sited
<1>6. /\ Posted' /\ InOrder' /\ Repeated' /\ Delivered' /\ LeavesOwnMap'
      /\ \E x \in Message :
           /\ x.player = p /\ x.by = "attach" /\ x.kind = "enter" /\ x.server = s /\ x.via = "cross"
           /\ x.map = k
           /\ sending' = sending \union {x}
      /\ Placing(p, s, k, TRUE)
  <2>1. Request(p, "attach", "enter", k, s, s)
    BY <1>2, <1>3, <1>5 DEF Request
  <2>2. "attach" \in {"lane", "attach"} /\ "enter" \in {"enter", "leave"} /\ s \in MapServers \union {Nobody}
    OBVIOUS
  <2>3. /\ Posted' /\ InOrder' /\ Repeated' /\ Delivered' /\ LeavesOwnMap'
        /\ \E x \in Message :
              /\ x.player = p /\ x.by = "attach" /\ x.kind = "enter" /\ x.server = s /\ x.map = k
              /\ x.via = IF s = Nobody THEN "home" ELSE "cross"
              /\ sending' = sending \union {x}
        /\ Placing(p, s, k, "enter" = "enter")
    BY <1>1, <2>1, <2>2, RequestAgrees
  <2>4. Placing(p, s, k, TRUE)
    BY <2>3 DEF Placing, Comes
  <2> QED BY <1>5, <2>3, <2>4
<1>7. PICK x \in Message :
           /\ x.player = p /\ x.by = "attach" /\ x.kind = "enter" /\ x.server = s /\ x.via = "cross"
           /\ x.map = k
           /\ sending' = sending \union {x}
  BY <1>6
<1>8. binding'[p] = s /\ \A q \in Players : q # p => binding'[q] = binding[q]
  BY <1>1, <1>2 DEF TypeOK
<1>9. /\ Placed'
      /\ \A q \in Players : q # p =>
              (Attaching(q)' <=> Attaching(q)) /\ (Departing(q)' <=> Departing(q))
      /\ Attaching(p)' /\ ~ Departing(p)'
  <2>1. ~ IsCrossLeave(x)
    BY <1>7 DEF IsCrossLeave
  <2>2. \A q \in Players : q # p => /\ current'[q] = current[q] /\ binding'[q] = binding[q]
                                    /\ q \in leaving => q \in leaving'
    BY <1>2, <1>8
  <2>3. \E i \in Instances : i[1] = binding'[p]
    BY <1>2, <1>8
  <2> QED BY <1>1, <1>3, <1>7, <1>8, <2>1, <2>2, <2>3, RequestPlaced
<1>10. ASSUME NEW q \in Players, q # p PROVE Kept(q)
  <2>1. \A r \in Players : r # p =>
           /\ current'[r] = current[r] /\ binding'[r] = binding[r]
           /\ (Attaching(r)' <=> Attaching(r)) /\ (Departing(r)' <=> Departing(r))
           /\ r \in leaving => r \in leaving'
    BY <1>2, <1>8, <1>9
  <2> QED BY ONLY <1>1, <1>6, <1>7, <1>10, <2>1, OthersPlaced
<1>11. PICK h \in MapServers : h = Home[Realm[p]]
  OBVIOUS
<1>12. KnowsMap'
  <2>1. ASSUME current'[p] # Nobody, p \notin leaving', ~ Lost(p, Here(p))', ~ AttachingHome(p)'
        PROVE  Before(p, Here(p), MaxSeq + 1, current[p])'
    <3>1. Here(p) = h /\ Here(p)' = h
      BY <1>4, <1>9, <1>11 DEF Here
    <3>2. PICK j \in Maps : j = current[p]
      BY <1>1, <1>2, <2>1 DEF TypeOK
    <3>5. s # h
      BY <1>8, <1>9, <1>11, <2>1 DEF AttachingHome
    <3>6. ~ Lost(p, h)
      <4>1. ~ Lost(p, h)'
        BY <2>1, <3>1 DEF Lost
      <4> QED BY <1>6, <4>1 DEF Placing
    <3>3. Before(p, h, MaxSeq + 1, j)
      BY <1>1, <1>2, <1>3, <2>1, <3>1, <3>2, <3>6 DEF KnowsMap, AttachingHome
    <3>4. Before(p, h, MaxSeq + 1, j)'
      BY <1>6, <3>3, <3>5 DEF Placing
    <3> QED BY <1>2, <3>1, <3>2, <3>4 DEF Before, To
  <2> QED BY <1>10, <2>1 DEF KnowsMap, Kept
<1>13. ASSUME HomeComes PROVE HomeComes'
  <2> SUFFICES ASSUME NEW q \in Players, ~ Lost(q, Home[Realm[q]])',
                      NEW m \in Configured
               PROVE  Comes(q, Home[Realm[q]], m, <<q, m>> \in local[Realm[q]])'
    BY DEF HomeComes
  <2>1. PICK in \in BOOLEAN : in <=> <<q, m>> \in local[Realm[q]]
    OBVIOUS
  <2>2. Comes(q, Home[Realm[q]], m, in)'
    <3>1. CASE q # p
      BY <1>10, <1>13, <2>1, <3>1 DEF Kept
    <3>2. CASE q = p
      <4>1. ~ Lost(p, h) /\ m \in Maps
        BY <1>6, <1>11, <3>2 DEF Placing
      <4>2. Comes(p, h, m, <<p, m>> \in local[Realm[p]])
        BY <1>11, <1>13, <4>1 DEF HomeComes
      <4>3. Comes(p, h, m, in)
        BY <2>1, <3>2, <4>2 DEF Comes
      <4>4. Comes(p, h, m, in)'
        <5>1. m # k
          BY <1>5
        <5>2. CASE h = s
          BY <1>6, <4>1, <4>3, <5>1, <5>2 DEF Placing
        <5>3. CASE h # s
          BY <1>6, <4>1, <4>3, <5>3 DEF Placing
        <5> QED BY <5>2, <5>3
      <4> QED BY <1>11, <3>2, <4>4
    <3> QED BY <3>1, <3>2
  <2> QED BY <1>2, <2>1, <2>2 DEF Comes, To
<1>14. ASSUME InstanceComes PROVE InstanceComes'
  <2> SUFFICES ASSUME NEW q \in Players, NEW i \in Instances, ~ Lost(q, i[1])'
               PROVE  Comes(q, i[1], i[2], In(q, i))'
    BY DEF InstanceComes
  <2>1. CASE q # p
    BY <1>10, <1>14, <2>1 DEF Kept
  <2>2. CASE q = p
    <3>1. i[1] \in MapServers /\ i[2] \in Maps /\ i[1] # Nobody /\ i = <<i[1], i[2]>>
      OBVIOUS
    <3>2. In(p, i)' <=> i[1] = s /\ i[2] = k
      <4>1. In(p, i)' <=> \E m \in sending' : /\ m.player = p /\ m.by = "attach"
                                             /\ m.server = i[1] /\ m.map = i[2]
        BY <1>9 DEF In
      <4> QED BY <1>3, <1>7, <4>1
    <3>3. CASE i[1] = s /\ i[2] = k
      <4>1. Comes(p, s, k, TRUE)'
        BY <1>6 DEF Placing
      <4> QED BY <2>2, <3>2, <3>3, <4>1 DEF Comes, To
    <3>4. CASE i[1] # s \/ i[2] # k
      <4>1. Comes(p, i[1], i[2], FALSE)
        <5>1. ~ Lost(p, i[1])
          BY <1>6, <2>2 DEF Placing
        <5>2. Comes(p, i[1], i[2], In(p, i))
          BY <1>14, <5>1 DEF InstanceComes
        <5>3. ~ In(p, i)
          BY <1>3, <1>4, <3>1 DEF In
        <5> QED BY <5>2, <5>3 DEF Comes
      <4>2. Comes(p, i[1], i[2], FALSE)'
        <5>1. CASE i[1] # s
          BY <1>6, <3>1, <4>1, <5>1 DEF Placing
        <5>2. CASE i[1] = s /\ i[2] # k
          <6>1. Comes(p, s, i[2], FALSE)
            BY <4>1, <5>2
          <6>2. Comes(p, s, i[2], FALSE)'
            BY <1>6, <3>1, <5>2, <6>1 DEF Placing
          <6> QED BY <5>2, <6>2
        <5> QED BY <3>4, <5>1, <5>2
      <4> QED BY <2>2, <3>2, <3>4, <4>2 DEF Comes, To
    <3> QED BY <3>3, <3>4
  <2> QED BY <2>1, <2>2
<1> QED BY <1>6, <1>9, <1>12, <1>13, <1>14 DEF Ordered

LEMMA ClientAgrees ==
  ASSUME AgreeInv, Steady, Sited, NEW p \in Players, ClientStep(p)
  PROVE  /\ Ordered'
         /\ HomeComes => HomeComes'
         /\ InstanceComes => InstanceComes'
<1>1. TypeOK
  BY DEF AgreeInv, IDInv
<1>2. CASE EnterGame(p)
  <2>1. UNCHANGED <<current, leaving, binding, local, sending, outbox, due, dead, astray, link,
                    present, where, inbox>>
    BY <1>2 DEF EnterGame, player, queues, msVars
  <2> QED BY <2>1, NoRequest
<1>3. CASE RemovePlayer(p)
  <2>1. /\ UNCHANGED <<binding, local, sending, outbox, due, dead, astray, link, present, where,
                       inbox>>
        /\ leaving' = leaving \ {p} /\ current' = [current EXCEPT ![p] = Nobody]
    BY <1>3 DEF RemovePlayer, queues, msVars
  <2>4. binding[p] = Nobody
    BY <1>3 DEF AgreeInv, TargetInv, Bound, RemovePlayer, Departing, Sending
  <2>2. \A q \in Players : \/ current'[q] = current[q]
                           \/ current'[q] = Nobody /\ binding[q] = Nobody
    BY <1>1, <2>1, <2>4 DEF TypeOK
  <2>3. \A q \in Players : q \in leaving \ leaving' => current'[q] = Nobody
    BY <1>1, <2>1 DEF TypeOK
  <2> QED BY <2>1, <2>2, <2>3, NoRequest
<1>4. CASE LeaveGame(p)
  <2>1. /\ ClientMayAct(p) /\ leaving' = leaving \union {p}
        /\ UNCHANGED <<current, due, dead, link, present, where, inbox>>
    BY <1>4 DEF LeaveGame, Steady, Ordinary, msVars
  <2>2. CASE current[p] = Nobody
    <3>1. UNCHANGED <<binding, local, outbox, sending, astray>>
      BY <1>4, <2>2 DEF LeaveGame
    <3> QED BY <2>1, <3>1, NoRequest
  <2>3. CASE current[p] # Nobody
    <3>1. LeaveHome(p, current[p]) \/ LeaveCross(p, current[p])
      BY <1>4, <2>3 DEF LeaveGame
    <3>2. PICK k \in Maps : k = current[p]
      BY <1>1, <2>3 DEF TypeOK
    <3>3. LeaveHome(p, k) \/ LeaveCross(p, k)
      BY <3>1, <3>2
    <3> QED BY <2>1, <3>2, <3>3, LeaveAgrees
  <2> QED BY <2>2, <2>3
<1>5. ASSUME NEW k \in Maps, LeaveMap(p, k)
      PROVE  /\ Ordered'
             /\ HomeComes => HomeComes'
             /\ InstanceComes => InstanceComes'
  <2>1. /\ ClientMayAct(p) /\ k = current[p] /\ current' = [current EXCEPT ![p] = Nobody]
        /\ LeaveHome(p, k) \/ LeaveCross(p, k)
        /\ UNCHANGED <<leaving, due, dead, link, present, where, inbox>>
    BY <1>5 DEF LeaveMap, Steady, Ordinary, lobby, msVars
  <2>2. current'[p] = Nobody /\ \A q \in Players : q # p => current'[q] = current[q]
    BY <1>1, <2>1 DEF TypeOK
  <2> QED BY <2>1, <2>2, LeaveAgrees
<1>6. \A i \in Instances : i[1] \in MapServers /\ i[2] \in Maps
  BY MapLinkAssumption DEF MapLinkAssumption
<1> QED BY <1>2, <1>3, <1>4, <1>5, <1>6, EnterAgrees, AttachAgrees DEF ClientStep

\* A broken connection loses requests of some players to one server; the others are
\* under way as before.
LEMMA BreakAgrees ==
  ASSUME IDInv, Posted, Placed, InOrder, Repeated, Delivered, LeavesOwnMap, KnowsMap,
         NEW c \in Connection, Break(c)
  PROVE  /\ Posted' /\ Placed' /\ InOrder' /\ Repeated' /\ Delivered' /\ LeavesOwnMap' /\ KnowsMap'
         /\ HomeComes => HomeComes'
         /\ InstanceComes => InstanceComes'
<1>1. /\ TypeOK /\ link' = [link EXCEPT ![c] = <<>>]
      /\ UNCHANGED <<current, binding, local, leaving, sending, outbox, due, dead,
                     present, where, inbox>>
      /\ astray' = astray \union {<<m.player, m.server>> : m \in Range(link[c])}
  BY DEF IDInv, Break, lobby, player, queues, msVars
<1>2. /\ link \in [Connection -> Seq(Message)] /\ link'[c] = <<>>
      /\ \A d \in Connection : d # c => link'[d] = link[d]
  BY <1>1 DEF TypeOK
<1>3. \A q, t : Lost(q, t) => Lost(q, t)'
  BY <1>1 DEF Lost
<1>4. \A m \in Message : m.player \in Players /\ m.server \in MapServers /\ m.map \in Maps
                         /\ Number(m) \in Nat
  BY NumberType DEF Message
<1>5. \A d \in Connection : \A i \in 1 .. Len(link'[d]) : d # c /\ link'[d] = link[d]
  BY <1>2
<1> HIDE DEF Message
<1>6. \A m : OnLink(m)' => OnLink(m)
  BY <1>5 DEF OnLink
<1>7. ASSUME NEW m, OnLink(m), ~ Lost(m.player, m.server)' PROVE OnLink(m)'
  <2>1. PICK d \in Connection : \E i \in 1 .. Len(link[d]) : link[d][i] = m
    BY <1>7 DEF OnLink
  <2>2. PICK i \in 1 .. Len(link[d]) : link[d][i] = m
    BY <2>1
  <2>3. d # c
    <3> SUFFICES ASSUME d = c PROVE FALSE
      OBVIOUS
    <3>1. m \in Range(link[c])
      <4>1. link[c] \in Seq(Message) /\ i \in DOMAIN link[c]
        BY <1>2, <2>2
      <4> QED BY <2>2, <4>1 DEF Range
    <3>2. <<m.player, m.server>> \in astray'
      BY <1>1, <3>1
    <3> QED BY <1>7, <3>2 DEF Lost
  <2>4. link'[d] = link[d]
    BY <1>2, <2>3
  <2> QED BY <2>2, <2>4 DEF OnLink
<1>8. \A m : /\ Held(m)' <=> Held(m)
             /\ InOutbox(m)' <=> InOutbox(m)
             /\ Live(m)' => Live(m)
             /\ Live(m) /\ ~ Lost(m.player, m.server)' => Live(m)'
  BY <1>1, <1>6, <1>7 DEF Held, InOutbox, Live, Queued
<1> HIDE DEF Live
<1>9. Posted'
  <2>1. \A d \in Connection : \A i \in 1 .. Len(link'[d]) : Route(link'[d][i]) = d
    BY <1>5 DEF Posted
  <2> QED BY <1>1, <1>8, <2>1 DEF Posted, Route
<1>10. InOrder'
  <2>1. \A y, z : Akin(y, z)' => Akin(y, z)
    BY <1>3 DEF Akin
  <2>2. \A d \in Connection : \A i, j \in 1 .. Len(link'[d]) :
          i < j /\ Akin(link[d][i], link[d][j])' => Number(link'[d][i]) <= Number(link'[d][j])
    <3> SUFFICES ASSUME NEW d \in Connection, NEW i \in 1 .. Len(link'[d]),
                        NEW j \in 1 .. Len(link'[d]), i < j, Akin(link[d][i], link[d][j])'
                 PROVE  Number(link'[d][i]) <= Number(link'[d][j])
      OBVIOUS
    <3>1. link'[d] = link[d]
      BY <1>5
    <3>2. Akin(link[d][i], link[d][j])
      BY <1>3, <3>1 DEF Akin
    <3> QED BY <3>1, <3>2 DEF InOrder
  <2>3. \A y, z \in Message : Held(y)' /\ Live(z)' /\ Akin(y, z)' => Number(z) <= Number(y)
    BY <1>8, <2>1 DEF InOrder
  <2>4. \A y, z \in Message : Live(y)' /\ Live(z)' /\ Akin(y, z)' => Route(y) = Route(z)
    BY <1>8, <2>1 DEF InOrder
  <2> QED BY <2>2, <2>3, <2>4 DEF InOrder, Akin, Number, Route
<1>11. \A y \in Message : First(y) /\ After(y) => First(y)' /\ After(y)'
  <2>1. \A y \in Message : After(y) => After(y)'
    BY <1>1 DEF After
  <2> QED BY <1>8, <2>1, StillFirst
<1>12. Repeated'
  BY <1>1, <1>3, <1>8, <1>11 DEF Repeated
<1>13. Delivered'
  <2> SUFFICES ASSUME NEW y \in Message, Held(y)', ~ InOutbox(y)', ~ Lost(y.player, y.server)'
               PROVE  OnLink(y)' \/ (First(y)' /\ After(y)')
    BY DEF Delivered
  <2>1. OnLink(y) \/ (First(y) /\ After(y))
    BY <1>3, <1>8 DEF Delivered
  <2> QED BY <1>7, <1>11, <2>1
<1>14. Carried
  <2> SUFFICES ASSUME NEW q \in Players, NEW t \in MapServers, ~ Lost(q, t)'
               PROVE  /\ ~ Lost(q, t)
                      /\ \A y \in Message : /\ Live(y)' /\ y.kind = "leave" /\ y.player = q
                                            /\ y.server = t /\ Before(q, t, Number(y), y.map)
                           => Before(q, t, Number(y), y.map)'
                      /\ \A m \in Maps : Before(q, t, MaxSeq + 1, m) => Before(q, t, MaxSeq + 1, m)'
                      /\ \A m \in Maps, in \in BOOLEAN : Comes(q, t, m, in) => Comes(q, t, m, in)'
    BY DEF Carried
  <2>1. To(q, t)' = To(q, t)
    BY <1>8 DEF To
  <2>2. /\ \A n \in Nat, m \in Maps : Before(q, t, n, m) => Before(q, t, n, m)'
        /\ \A m \in Maps, in \in BOOLEAN : Comes(q, t, m, in) => Comes(q, t, m, in)'
    BY <1>1, <2>1, NothingMoves
  <2>3. MaxSeq + 1 \in Nat
    BY MapLinkAssumption DEF MapLinkAssumption
  <2> QED BY <1>3, <1>4, <2>2, <2>3
<1>15. LeavesOwnMap'
  BY <1>8, <1>14, CarriedLeaves
<1>16. /\ \A q \in Players : current'[q] = current[q]
       /\ \A q \in Players : q \in leaving \ leaving' => current'[q] = Nobody
  BY <1>1
<1> QED BY <1>1, <1>9, <1>10, <1>12, <1>13, <1>14, <1>15, <1>16, PlayersKept

LEMMA AgreeNext ==
  ASSUME Steady, Sited, AgreeInv, [Next]_vars
  PROVE  /\ AgreeInv'
         /\ HomeComes => HomeComes'
         /\ InstanceComes => InstanceComes'
<1>1. /\ IDInv /\ TargetInv /\ TypeOK /\ Posted /\ Placed /\ InOrder /\ Repeated /\ Delivered
      /\ LeavesOwnMap /\ KnowsMap
  BY DEF AgreeInv, IDInv, Ordered
<1>2. IDInv' /\ TargetInv'
  BY <1>1, IDNext, TargetNext DEF Steady
<1> DEFINE Goal == /\ Ordered'
                   /\ HomeComes => HomeComes'
                   /\ InstanceComes => InstanceComes'
<1> SUFFICES Goal
  BY <1>2 DEF AgreeInv
<1>3. ASSUME NEW p \in Players, ClientStep(p) PROVE Goal
  BY <1>3, ClientAgrees
<1>4. ASSUME NEW x \in sending, SendStep(x) PROVE Goal
  BY <1>1, <1>4, SendAgrees DEF Ordered
<1>5. ASSUME NEW g \in GameServers, Retry(g) PROVE Goal
  BY <1>1, <1>5, RetryAgrees DEF Ordered
<1>6. ASSUME NEW g \in GameServers, Restart(g) PROVE Goal
  BY <1>1, <1>6, MapLinkAssumption DEF Restart, TypeOK, Steady, NoRestart, MapLinkAssumption
<1>7. ASSUME NEW c \in Connection, Receive(c) PROVE Goal
  <2>1. Posted' /\ InOrder' /\ Repeated' /\ Delivered' /\ LeavesOwnMap' /\ Carried
    BY <1>1, <1>7, ReceiveAgrees
  <2>2. UNCHANGED <<current, leaving, binding, local, sending>>
    BY <1>7 DEF Receive, gsVars, lobby, player
  <2> QED BY <1>1, <2>1, <2>2, PlayersKept DEF Ordered
<1>8. ASSUME NEW c \in Connection, Break(c) PROVE Goal
  BY <1>1, <1>8, BreakAgrees DEF Ordered
<1>9. ASSUME NEW s \in MapServers, CleanupInbox(s) PROVE Goal
  <2>1. /\ UNCHANGED <<current, leaving, binding, local, sending, outbox, due, dead, astray, link,
                       present, where>>
        /\ \A t \in MapServers : inbox'[t] \subseteq inbox[t]
    BY <1>1, <1>9 DEF CleanupInbox, gsVars, lobby, player, queues, TypeOK
  <2>2. \A m \in Message : /\ Live(m)' <=> Live(m)
                           /\ Held(m)' <=> Held(m)
                           /\ InOutbox(m)' <=> InOutbox(m)
    BY <2>1 DEF Live, Held, InOutbox, Queued, OnLink
  <2>3. Posted' /\ InOrder' /\ Repeated' /\ Delivered' /\ LeavesOwnMap' /\ Carried
    <3>1. \A g \in GameServers : outbox'[g] \union due'[g] \subseteq outbox[g] \union due[g]
      BY <2>1
    <3> QED BY <1>1, <2>1, <2>2, <3>1, IdleKeeps
  <2> QED BY <1>1, <2>1, <2>3, PlayersKept DEF Ordered
<1>10. CASE UNCHANGED vars
  <2>1. UNCHANGED <<current, leaving, binding, local, sending, outbox, due, dead, astray, link,
                    present, where, inbox>>
    BY <1>10 DEF vars, gsVars, msVars, lobby, player, queues
  <2> QED BY <2>1, NoRequest
<1> HIDE DEF Goal
<1> QED BY <1>3, <1>4, <1>5, <1>6, <1>7, <1>8, <1>9, <1>10 DEF Next

LEMMA AgreeInit == Init => AgreeInv /\ HomeComes /\ InstanceComes
<1> SUFFICES ASSUME Init PROVE AgreeInv /\ HomeComes /\ InstanceComes
  OBVIOUS
<1> USE MapLinkAssumption DEF MapLinkAssumption
<1>1. IDInv /\ TypeOK /\ TargetInv
  BY IDInit, TargetInit DEF IDInv
<1>2. /\ \A m : ~ Live(m) /\ ~ Held(m)
      /\ \A g \in GameServers : outbox[g] = {} /\ due[g] = {}
      /\ \A c \in Connection : link[c] = <<>>
  BY DEF Init, Live, Held, Queued, OnLink
<1>3. \A p, s : To(p, s) = {}
  BY <1>2 DEF To
<1>4. /\ \A p \in Players : current[p] = Nobody /\ binding[p] = Nobody
      /\ \A g \in GameServers : local[g] = {}
      /\ \A s \in MapServers : present[s] = {}
      /\ sending = {}
  BY DEF Init
<1> HIDE DEF Init, Live, Message
<1>5. Posted /\ InOrder
  BY <1>2 DEF Posted, InOrder
<1>6. Placed /\ KnowsMap
  BY <1>4 DEF Placed, KnowsMap
<1>7. Repeated /\ Delivered /\ LeavesOwnMap
  BY <1>2 DEF Repeated, Delivered, LeavesOwnMap
<1>8. HomeComes
  BY <1>3, <1>4 DEF HomeComes, Comes
<1>9. InstanceComes
  <2>1. \A i \in Instances : i[1] \in MapServers /\ i[1] # Nobody
    OBVIOUS
  <2> QED BY <1>3, <1>4, <2>1 DEF InstanceComes, Comes, In
<1> QED BY <1>1, <1>5, <1>6, <1>7, <1>8, <1>9 DEF AgreeInv, Ordered

\* Of a player at rest nothing is under way to the server, and nothing was given up.
LEMMA RestIsQuiet ==
  ASSUME TypeOK, NEW p \in Players, NEW s \in MapServers, AtRest(p, s), <<p, s>> \notin astray
  PROVE  /\ To(p, s) = {} /\ ~ Lost(p, s)
         /\ \A m \in sending : m.player # p \/ m.server # s
<1>1. \A m : Live(m) => m \in Outstanding
  BY LiveOutstanding
<1>2. To(p, s) = {}
  BY <1>1 DEF To, AtRest
<1>3. \A m \in sending : m.player # p \/ m.server # s
  BY DEF Outstanding, AtRest
<1> QED BY <1>2, <1>3 DEF Lost, AtRest

\* HandlePlayerEnterMap, the outbox with its retry loop and the MapServer of the realm
\* keep the promise of the local Map objects, whatever sends fail and are repeated: when
\* no request of a player to that server is under way and none was given up, overtaken or
\* lost, he is in exactly the maps of the realm his GameServer has him in.
THEOREM MapLinkHomeAgrees == Steady /\ Sited /\ Spec => []HomeAgrees
<1> SUFFICES ASSUME Steady, Sited PROVE Spec => []HomeAgrees
  OBVIOUS
<1>1. Init => AgreeInv /\ HomeComes
  BY AgreeInit
<1>2. AgreeInv /\ HomeComes /\ [Next]_vars => (AgreeInv /\ HomeComes)'
  BY AgreeNext
<1>3. AgreeInv /\ HomeComes => HomeAgrees
  <2> SUFFICES ASSUME AgreeInv, HomeComes, NEW p \in Players, AtRest(p, Home[Realm[p]]),
                      <<p, Home[Realm[p]]>> \notin astray, NEW m \in Configured
               PROVE  <<p, m>> \in present[Home[Realm[p]]] <=> <<p, m>> \in local[Realm[p]]
    BY DEF HomeAgrees
  <2>1. Home[Realm[p]] \in MapServers
    BY MapLinkAssumption DEF MapLinkAssumption
  <2>2. To(p, Home[Realm[p]]) = {} /\ ~ Lost(p, Home[Realm[p]])
    BY <2>1, RestIsQuiet DEF AgreeInv, IDInv
  <2>3. Comes(p, Home[Realm[p]], m, <<p, m>> \in local[Realm[p]])
    BY <2>2 DEF HomeComes
  <2> QED BY <2>2, <2>3 DEF Comes
<1> QED BY <1>1, <1>2, <1>3, PTL DEF Spec

\* AttachPlayerToCrossInstance and LeaveCrossServerMap keep bindings and instances
\* together, on the realm's own MapServer as on any other and whatever sends fail: when no
\* request of a player to the server of an instance is under way and none was given up,
\* overtaken, lost or refused, he is in it exactly if he is bound to its server and it is
\* his map.
THEOREM MapLinkInstanceAgrees == Steady /\ Sited /\ Spec => []InstanceAgrees
<1> SUFFICES ASSUME Steady, Sited PROVE Spec => []InstanceAgrees
  OBVIOUS
<1>1. Init => AgreeInv /\ InstanceComes
  BY AgreeInit
<1>2. AgreeInv /\ InstanceComes /\ [Next]_vars => (AgreeInv /\ InstanceComes)'
  BY AgreeNext
<1>3. AgreeInv /\ InstanceComes => InstanceAgrees
  <2> SUFFICES ASSUME AgreeInv, InstanceComes, NEW p \in Players, NEW i \in Instances,
                      AtRest(p, i[1]), <<p, i[1]>> \notin astray
               PROVE  <<p, i[2]>> \in present[i[1]] <=> binding[p] = i[1] /\ current[p] = i[2]
    BY DEF InstanceAgrees
  <2>1. i[1] \in MapServers
    BY MapLinkAssumption DEF MapLinkAssumption
  <2>2. /\ To(p, i[1]) = {} /\ ~ Lost(p, i[1])
        /\ \A m \in sending : m.player # p \/ m.server # i[1]
    BY <2>1, RestIsQuiet DEF AgreeInv, IDInv
  <2>3. Comes(p, i[1], i[2], In(p, i))
    BY <2>2 DEF InstanceComes
  <2>4. In(p, i) <=> binding[p] = i[1] /\ current[p] = i[2]
    <3>1. In(p, i) => binding[p] = i[1] /\ current[p] = i[2]
      BY <2>2 DEF In
    <3>2. binding[p] = i[1] => ~ Attaching(p) /\ ~ Departing(p)
      BY <2>2 DEF AgreeInv, Ordered, Placed, Attaching, Departing
    <3> QED BY <3>1, <3>2 DEF In
  <2> QED BY <2>2, <2>3, <2>4 DEF Comes
<1> QED BY <1>1, <1>2, <1>3, PTL DEF Spec

=============================================================================
