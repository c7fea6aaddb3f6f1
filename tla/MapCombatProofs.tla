--------------------------- MODULE MapCombatProofs ---------------------------
(***************************************************************************)
(* MapWorld and MapCombat for any number of players, spawn points,         *)
(* objects, requests and broken connections: types, MapCombat implements   *)
(* MapWorld, the counts of the spawn points, and what becomes of requests, *)
(* answers and rewards.                                                    *)
(***************************************************************************)
EXTENDS MapCombat, FiniteSetTheorems, TLAPS

-----------------------------------------------------------------------------
(* The map by itself *)

LEMMA UncountTyped ==
  ASSUME WorldTypeOK, NEW o \in Objects, Uncount(o)
  PROVE  /\ spawnedBy' \in [Objects -> Points \union {Nowhere}]
         /\ count' \in [Points -> Nat] /\ created' = created
<1>1. spawnedBy' \in [Objects -> Points \union {Nowhere}]
  BY DEF WorldTypeOK, Uncount
<1>2. CASE spawnedBy[o] # Nowhere /\ count[spawnedBy[o]] > 0
  <2>1. spawnedBy[o] \in Points /\ count[spawnedBy[o]] - 1 \in Nat
    BY <1>2 DEF WorldTypeOK
  <2> QED BY <1>1, <1>2, <2>1 DEF WorldTypeOK, Uncount
<1>3. CASE ~ (spawnedBy[o] # Nowhere /\ count[spawnedBy[o]] > 0)
  BY <1>1, <1>3 DEF WorldTypeOK, Uncount
<1> QED BY <1>2, <1>3

LEMMA WorldTyped ==
  ASSUME WorldTypeOK, [WorldNext]_world
  PROVE  WorldTypeOK'
<1> USE WorldAssumption DEF Objects
<1>1. ASSUME NEW s \in Points, Create(s) PROVE WorldTypeOK'
  BY <1>1 DEF Create, WorldTypeOK, folk
<1>2. ASSUME NEW o \in created, Add(o) PROVE WorldTypeOK'
  BY <1>2 DEF Add, WorldTypeOK, folk
<1>3. CASE Respawn
  BY <1>3 DEF Respawn, WorldTypeOK, folk, points
<1>4. ASSUME NEW p \in Players, Revive(p) PROVE WorldTypeOK'
  BY <1>4 DEF Revive, WorldTypeOK, points
<1>5. ASSUME NEW o \in monsters, NEW n \in 0 .. MaxDrop, MonsterDies(o, n)
      PROVE  WorldTypeOK'
  <2>1. o \in Objects /\ Uncount(o)
    BY <1>5 DEF MonsterDies, WorldTypeOK
  <2>2. /\ spawnedBy' \in [Objects -> Points \union {Nowhere}]
        /\ count' \in [Points -> Nat] /\ created' = created
    BY <2>1, UncountTyped
  <2>3. lastObject' \in 0 .. MaxObject /\ lastObject <= lastObject'
    BY <1>5 DEF MonsterDies, WorldTypeOK
  <2>4. items' \subseteq 1 .. lastObject'
    BY <1>5, <2>3 DEF MonsterDies, WorldTypeOK, Drops
  <2> QED BY <1>5, <2>2, <2>3, <2>4 DEF MonsterDies, WorldTypeOK, folk
<1>6. ASSUME NEW p \in Players, PlayerDies(p) PROVE WorldTypeOK'
  BY <1>6 DEF PlayerDies, WorldTypeOK, points
<1>7. ASSUME NEW p \in Players, Appear(p) PROVE WorldTypeOK'
  BY <1>7 DEF Appear, WorldTypeOK, points
<1>8. ASSUME NEW p \in Players, Disappear(p) PROVE WorldTypeOK'
  BY <1>8 DEF Disappear, WorldTypeOK, points
<1>9. ASSUME NEW o \in items, Take(o) PROVE WorldTypeOK'
  BY <1>9 DEF Take, WorldTypeOK, folk, points
<1>10. CASE UNCHANGED world
  BY <1>10 DEF world, folk, points, WorldTypeOK
<1> QED BY <1>1, <1>2, <1>3, <1>4, <1>5, <1>6, <1>7, <1>8, <1>9, <1>10
        DEF WorldNext, Life, Deed

LEMMA OnMap == WorldTypeOK => monsters \union items \union created \subseteq Objects
  BY WorldAssumption DEF WorldTypeOK, Objects

LEMMA WorldInitTyped == WorldInit => WorldTypeOK
  BY WorldAssumption DEF WorldInit, WorldTypeOK, Objects

-----------------------------------------------------------------------------
(* What is registered with a spawn point *)

Of(s) == {o \in Objects : spawnedBy[o] = s}

LEMMA OfFinite == ASSUME NEW s PROVE IsFiniteSet(Of(s))
<1>1. IsFiniteSet(Objects)
  BY WorldAssumption, FS_Interval DEF Objects
<1> QED BY <1>1, FS_Subset DEF Of

\* The points count what is registered with them, and nothing else is.
LEMMA CountedStep ==
  ASSUME WorldTypeOK, PointsCounted, [WorldNext]_world
  PROVE  PointsCounted'
<1> DEFINE Mine(s) == Of(s) \subseteq monsters \union created
           Right(s) == count[s] = Cardinality(Of(s))
<1>0. /\ PointsCounted => \A s \in Points : Mine(s) /\ Right(s)
      /\ (\A s \in Points : Mine(s)' /\ Right(s)') => PointsCounted'
  BY DEF PointsCounted, Of
<1>a. \A s \in Points : Mine(s) /\ Right(s)
  BY <1>0
<1>1. ASSUME NEW s \in Points, Create(s) PROVE PointsCounted'
  <2> DEFINE new == lastObject + 1
  <2>1. new \in Objects /\ new \notin monsters \union created
    BY <1>1, WorldAssumption DEF Create, WorldTypeOK, Objects
  <2>2. spawnedBy' = [spawnedBy EXCEPT ![new] = s] /\ created' = created \union {new}
        /\ monsters' = monsters /\ count' = [count EXCEPT ![s] = @ + 1]
    BY <1>1 DEF Create
  <2> HIDE DEF new
  <2>3. ASSUME NEW t \in Points PROVE Mine(t)' /\ Right(t)'
    <3>1. Of(t)' = IF t = s THEN Of(t) \union {new} ELSE Of(t)
      <4>1. new \notin Of(t)
        BY <1>a, <2>1
      <4> QED BY <2>1, <2>2, <4>1 DEF Of, WorldTypeOK
    <3>2. new \notin Of(t)
      BY <1>a, <2>1
    <3>3. Cardinality(Of(t) \union {new}) = Cardinality(Of(t)) + 1
      BY <3>2, OfFinite, FS_AddElement
    <3>4. Mine(t)'
      BY <1>a, <2>2, <3>1
    <3>5. count'[t] = IF t = s THEN count[t] + 1 ELSE count[t]
      BY <2>2 DEF WorldTypeOK
    <3>6. Right(t)'
      BY <1>a, <3>1, <3>3, <3>5
    <3> QED BY <3>4, <3>6
  <2> QED BY <1>0, <2>3
<1>2. ASSUME NEW o \in monsters, NEW n \in 0 .. MaxDrop, MonsterDies(o, n)
      PROVE  PointsCounted'
  <2>1. o \in Objects /\ monsters' = monsters \ {o} /\ created' = created
    BY <1>2, WorldAssumption DEF MonsterDies, Uncount, WorldTypeOK, Objects
  <2>2. spawnedBy' = [spawnedBy EXCEPT ![o] = Nowhere]
    BY <1>2 DEF MonsterDies, Uncount
  <2>3. ASSUME NEW t \in Points PROVE Mine(t)' /\ Right(t)'
    <3>1. Of(t)' = Of(t) \ {o}
      BY <2>1, <2>2, WorldAssumption DEF Of, WorldTypeOK
    <3>2. Mine(t)'
      BY <1>a, <2>1, <3>1
    <3>3. /\ Cardinality(Of(t)) \in Nat
          /\ Cardinality(Of(t) \ {o})
               = IF o \in Of(t) THEN Cardinality(Of(t)) - 1 ELSE Cardinality(Of(t))
          /\ Cardinality(Of(t) \ {o}) \in Nat
      BY OfFinite, FS_RemoveElement, FS_CardinalityType
    <3>4. CASE o \in Of(t)
      <4>1. spawnedBy[o] = t /\ t # Nowhere
        BY <3>4, WorldAssumption DEF Of
      <4>2. count[t] > 0
        BY <1>a, <3>3, <3>4
      <4>3. count'[t] = count[t] - 1
        BY <1>2, <4>1, <4>2 DEF MonsterDies, Uncount, WorldTypeOK
      <4> QED BY <1>a, <3>1, <3>2, <3>3, <3>4, <4>3
    <3>5. CASE o \notin Of(t)
      <4>1. spawnedBy[o] # t
        BY <2>1, <3>5 DEF Of
      <4>2. count'[t] = count[t]
        BY <1>2, <4>1 DEF MonsterDies, Uncount, WorldTypeOK
      <4> QED BY <1>a, <3>1, <3>2, <3>3, <3>5, <4>2
    <3> QED BY <3>4, <3>5
  <2> QED BY <1>0, <2>3
<1>3. CASE /\ UNCHANGED <<spawnedBy, count>>
           /\ monsters \union created \subseteq (monsters \union created)'
  BY <1>0, <1>a, <1>3 DEF Of
<1>4. ASSUME NEW o \in created, Add(o) PROVE PointsCounted'
  BY <1>3, <1>4 DEF Add
<1>5. CASE Respawn
  BY <1>3, <1>5 DEF Respawn, points
<1>6. ASSUME NEW p \in Players,
             Revive(p) \/ PlayerDies(p) \/ Appear(p) \/ Disappear(p)
      PROVE  PointsCounted'
  BY <1>3, <1>6 DEF Revive, PlayerDies, Appear, Disappear, points
<1>7. ASSUME NEW o \in items, Take(o) PROVE PointsCounted'
  BY <1>3, <1>7 DEF Take, points
<1>8. CASE UNCHANGED world
  BY <1>3, <1>8 DEF world, points
<1> QED BY <1>1, <1>2, <1>4, <1>5, <1>6, <1>7, <1>8 DEF WorldNext, Life, Deed

LEMMA CountedInit == WorldInit => PointsCounted
<1> SUFFICES ASSUME WorldInit, NEW s \in Points
             PROVE  Of(s) \subseteq monsters \union created /\ count[s] = Cardinality(Of(s))
  BY DEF PointsCounted, Of
<1>1. Of(s) = {}
  BY WorldAssumption DEF WorldInit, Of
<1> QED BY <1>1, FS_EmptySet DEF WorldInit

-----------------------------------------------------------------------------
(* A thing is one thing *)

\* What dies is not lying on the map, and what is not added yet is neither.
OneForm == monsters \intersect items = {} /\ created \intersect (monsters \union items) = {}

LEMMA OneFormStep ==
  ASSUME WorldTypeOK, OneForm, [WorldNext]_world
  PROVE  OneForm'
<1> USE DEF OneForm
<1>1. ASSUME NEW s \in Points, Create(s) PROVE OneForm'
  BY <1>1 DEF Create, WorldTypeOK
<1>2. ASSUME NEW o \in created, Add(o) PROVE OneForm'
  BY <1>2 DEF Add
<1>3. CASE Respawn
  BY <1>3 DEF Respawn, WorldTypeOK, points
<1>4. ASSUME NEW o \in monsters, NEW n \in 0 .. MaxDrop, MonsterDies(o, n) PROVE OneForm'
  <2>1. \A x \in 1 .. lastObject : x \notin Drops(n)
    BY DEF Drops, WorldTypeOK
  <2> QED BY <1>4, <2>1 DEF MonsterDies, Uncount, WorldTypeOK
<1>5. ASSUME NEW p \in Players,
             Revive(p) \/ PlayerDies(p) \/ Appear(p) \/ Disappear(p)
      PROVE  OneForm'
  BY <1>5 DEF Revive, PlayerDies, Appear, Disappear, points
<1>6. ASSUME NEW o \in items, Take(o) PROVE OneForm'
  BY <1>6 DEF Take, points
<1>7. CASE UNCHANGED world
  BY <1>7 DEF world, points
<1> QED BY <1>1, <1>2, <1>3, <1>4, <1>5, <1>6, <1>7 DEF WorldNext, Life, Deed

-----------------------------------------------------------------------------
(* Requests and what comes back: types *)

\* The step of a combat that is a step of the map.
LEMMA MapSteps ==
  ASSUME TypeOK, [Next]_vars
  PROVE  [WorldNext]_world
<1>1. ASSUME NEW p \in Players, Client(p) PROVE UNCHANGED world
  BY <1>1 DEF Client, Attack, Pickup, EnterMap, LeaveMap, LogOff, LogIn, Return, TimeOut
<1>2. CASE Sends
  BY <1>2 DEF Sends, Send, SendFails, Resend, GiveUp
<1>3. CASE HandleRequest
  <2> DEFINE m == Head(link)
  <2>1. link # <<>> /\ m \in Request
    BY <1>3 DEF HandleRequest, TypeOK
  <2> HIDE DEF m
  <2>2. m.player \in Players
    BY <2>1 DEF Request
  <2>3. CASE DropRequest(m) 
    BY <2>3 DEF DropRequest
  <2>4. CASE HandleAttack(m)
    <3>1. CASE Miss(m) \/ Wound(m)
      BY <3>1 DEF Miss, Wound
    <3>2. ASSUME NEW n \in 0 .. MaxDrop, Slay(m, n) PROVE WorldNext
      BY <3>2 DEF Slay, WorldNext, Deed, MonsterDies
    <3>3. CASE Fell(m)
      BY <3>3 DEF Fell, WorldNext, Deed, PlayerDies, TypeOK, WorldTypeOK
    <3> QED BY <2>4, <3>1, <3>2, <3>3 DEF HandleAttack
  <2>5. CASE HandlePickup(m)
    BY <2>5 DEF HandlePickup, Find, WorldNext, Deed
  <2>6. CASE HandleEnter(m)
    BY <2>2, <2>6 DEF HandleEnter, WorldNext, Deed
  <2>7. CASE HandleLeave(m)
    BY <2>2, <2>7 DEF HandleLeave, WorldNext, Deed
  <2> QED BY <1>3, <2>3, <2>4, <2>5, <2>6, <2>7 DEF HandleRequest, m
<1>4. CASE HandleReply
  BY <1>4 DEF HandleReply, DropReply, HandleAnswer, HandleGrant
<1>5. CASE MapLives
  BY <1>5 DEF MapLives, WorldNext
<1>6. CASE Break \/ Reconnect
  BY <1>6 DEF Break, Reconnect
<1>7. CASE UNCHANGED vars
  BY <1>7 DEF vars
<1> QED BY <1>1, <1>2, <1>3, <1>4, <1>5, <1>6, <1>7 DEF Next

\* TypeOK without the map
CombatTypeOK ==
  /\ seq \in 0 .. MaxSeq /\ grants \in 0 .. MaxGrant
  /\ outbox \subseteq Request /\ sending \subseteq Request
  /\ job \in [Players -> Job \union {NoJob}]
  /\ local \subseteq Players /\ online \subseteq Players
  /\ up \in BOOLEAN /\ breaks \in 0 .. MaxBreak
  /\ link \in Seq(Request) /\ back \in Seq(Answer \union Grant)
  /\ mapInbox \subseteq RequestID /\ gameInbox \subseteq RequestID \union GrantID
  /\ ran \in [RequestID -> Nat]
  /\ hits \subseteq [id: RequestID, player: Players, target: Targets]
  /\ told \subseteq [job: RequestID, answer: RequestID, player: Players, target: Targets]
  /\ earned \subseteq Objects /\ lost \subseteq Objects
  /\ received \in [Objects -> Nat]
  /\ answered \subseteq RequestID /\ repeated \subseteq Grant

LEMMA TypeParts == TypeOK <=> WorldTypeOK /\ CombatTypeOK
  BY DEF TypeOK, CombatTypeOK

LEMMA SubmitTyped ==
  ASSUME TypeOK, NEW kind \in {"attack", "pickup", "enter", "leave"},
         NEW p \in Players, NEW t \in Targets, Submit(kind, p, t)
  PROVE  /\ seq' \in 0 .. MaxSeq /\ outbox' \subseteq Request /\ sending' \subseteq Request
         /\ ComposeRequestID(GameID, seq') \in RequestID
<1> DEFINE m == [id |-> ComposeRequestID(GameID, seq + 1), kind |-> kind,
                 player |-> p, target |-> t]
<1>1. seq' = seq + 1 /\ seq + 1 \in 1 .. MaxSeq
  BY CombatAssumption DEF Submit, TypeOK
<1>2. ComposeRequestID(GameID, seq + 1) \in RequestID
  BY <1>1 DEF ComposeRequestID, RequestID
<1>3. m \in Request
  BY <1>2 DEF Request
<1> QED BY <1>1, <1>2, <1>3 DEF Submit, TypeOK

LEMMA ClientTyped ==
  ASSUME TypeOK, NEW p \in Players, Client(p)
  PROVE  CombatTypeOK'
<1> USE DEF TypeOK, wires, history
<1>0. NoTarget \in Targets /\ monsters \union here \subseteq Targets
  BY OnMap DEF Targets, WorldTypeOK
<1>1. ASSUME NEW t \in monsters \union here, Attack(p, t) PROVE CombatTypeOK'
  <2> DEFINE j == [id |-> ComposeRequestID(GameID, seq'), target |-> t, result |-> "none"]
  <2>1. /\ seq' \in 0 .. MaxSeq /\ outbox' \subseteq Request /\ sending' \subseteq Request
        /\ ComposeRequestID(GameID, seq') \in RequestID
    BY <1>0, <1>1, SubmitTyped DEF Attack
  <2>2. j \in Job
    BY <1>0, <2>1 DEF Job, Result
  <2>3. job' = [job EXCEPT ![p] = j]
    BY <1>1 DEF Attack
  <2> HIDE DEF j
  <2>4. job' \in [Players -> Job \union {NoJob}]
    BY <2>2, <2>3
  <2> QED BY <1>1, <2>1, <2>4 DEF Attack, CombatTypeOK
<1>2. CASE Pickup(p) \/ EnterMap(p) \/ LeaveMap(p)
  <2>1. PICK kind \in {"pickup", "enter", "leave"} : Submit(kind, p, NoTarget)
    BY <1>2 DEF Pickup, EnterMap, LeaveMap
  <2>2. seq' \in 0 .. MaxSeq /\ outbox' \subseteq Request /\ sending' \subseteq Request
    BY <1>0, <2>1, SubmitTyped
  <2> QED BY <1>2, <2>2 DEF Pickup, EnterMap, LeaveMap, CombatTypeOK
<1>3. CASE LogOff(p) \/ LogIn(p)
  BY <1>3 DEF LogOff, LogIn, CombatTypeOK
<1>4. CASE Return(p)
  <2>1. job' \in [Players -> Job \union {NoJob}]
    BY <1>4 DEF Return
  <2>2. CASE job[p].result = "failed"
    BY <1>4, <2>1, <2>2 DEF Return, CombatTypeOK
  <2>3. CASE job[p].result # "failed"
    <3>1. job[p] \in Job /\ job[p].result \in RequestID
      BY <1>4, <2>3 DEF Return, Job, Result
    <3>2. told' \subseteq [job: RequestID, answer: RequestID, player: Players, target: Targets]
      BY <1>4, <2>3, <3>1 DEF Return, Job
    <3> QED BY <1>4, <2>1, <3>2 DEF Return, CombatTypeOK
  <2> QED BY <2>2, <2>3
<1>5. CASE TimeOut(p)
  BY <1>5 DEF TimeOut, CombatTypeOK
<1> QED BY <1>1, <1>2, <1>3, <1>4, <1>5 DEF Client

LEMMA SendsTyped ==
  ASSUME TypeOK, Sends
  PROVE  CombatTypeOK'
<1> USE DEF TypeOK, wires, history
<1>1. ASSUME NEW m \in sending, Send(m) PROVE CombatTypeOK'
  <2>1. link' \in Seq(Request)
    BY <1>1 DEF Send, Transmit
  <2> QED BY <1>1, <2>1 DEF Send, Transmit, CombatTypeOK
<1>2. ASSUME NEW m \in sending, SendFails(m) PROVE CombatTypeOK'
  BY <1>2 DEF SendFails, CombatTypeOK
<1>3. ASSUME NEW m \in outbox, Resend(m) PROVE CombatTypeOK'
  <2>1. link' \in Seq(Request)
    BY <1>3 DEF Resend, Transmit
  <2> QED BY <1>3, <2>1 DEF Resend, Transmit, CombatTypeOK
<1>4. ASSUME NEW m \in outbox, GiveUp(m) PROVE CombatTypeOK'
  BY <1>4 DEF GiveUp, CombatTypeOK
<1> QED BY <1>1, <1>2, <1>3, <1>4 DEF Sends

LEMMA TwoAppended ==
  ASSUME NEW S, NEW q \in Seq(S), NEW x \in S, NEW y \in S
  PROVE  Append(Append(q, x), y) \in Seq(S)
  OBVIOUS

\* What the map sends back.
LEMMA AnswerTyped ==
  ASSUME NEW m \in Request, NEW ok \in BOOLEAN
  PROVE  AnswerTo(m, ok) \in Answer
  BY DEF AnswerTo, Request, Answer

LEMMA GrantTyped ==
  ASSUME TypeOK, NEW p \in Players, NEW o \in Objects, NEW type \in {"item", "attr"},
         grants < MaxGrant
  PROVE  GrantTo(p, o, type) \in Grant
<1>1. grants + 1 \in 1 .. MaxGrant
  BY CombatAssumption DEF TypeOK
<1> QED BY <1>1 DEF GrantTo, Grant, GrantID, ComposeRequestID

LEMMA RequestTyped ==
  ASSUME TypeOK, HandleRequest
  PROVE  CombatTypeOK'
<1> USE DEF TypeOK, gameVars, history
<1> DEFINE m == Head(link)
<1>1. link # <<>> /\ m \in Request /\ Tail(link) \in Seq(Request)
  BY DEF HandleRequest
<1>2. /\ DropRequest(m) \/ HandleAttack(m) \/ HandlePickup(m) \/ HandleEnter(m) \/ HandleLeave(m)
  BY DEF HandleRequest
<1> HIDE DEF m
<1>3. m.id \in RequestID /\ m.player \in Players /\ m.target \in Targets
  BY <1>1 DEF Request
<1>4. Receive(m) => link' \in Seq(Request)
  BY <1>1 DEF Receive, m
<1>5. Ran(m) => ran' \in [RequestID -> Nat]
  BY <1>3 DEF Ran
<1>6. TryAccept(m) => mapInbox' \subseteq RequestID
  BY <1>3 DEF TryAccept
<1>7. CASE DropRequest(m)
  BY <1>4, <1>7 DEF DropRequest, CombatTypeOK
<1>8. CASE HandleAttack(m)
  <2> DEFINE Changed ==
        /\ hits' \subseteq [id: RequestID, player: Players, target: Targets]
        /\ earned' \subseteq Objects /\ grants' \in 0 .. MaxGrant
        /\ back' \in Seq(Answer \union Grant)
  <2>1. Hit(m) => hits' \subseteq [id: RequestID, player: Players, target: Targets]
    BY <1>3 DEF Hit
  <2>2. \A ok \in BOOLEAN : Append(back, AnswerTo(m, ok)) \in Seq(Answer \union Grant)
    BY <1>1, AnswerTyped
  <2>3. ASSUME Miss(m) \/ Wound(m) \/ Fell(m) PROVE Changed
    BY <2>1, <2>2, <2>3 DEF Miss, Wound, Fell
  <2>4. ASSUME NEW n \in 0 .. MaxDrop, Slay(m, n) PROVE Changed
    <3>1. m.target \in Objects
      BY <2>4, OnMap DEF Slay, MonsterDies
    <3>2. grants < MaxGrant /\ grants' \in 0 .. MaxGrant
      BY <2>4, CombatAssumption DEF Slay, Owe
    <3>3. GrantTo(m.player, m.target, "attr") \in Grant /\ AnswerTo(m, TRUE) \in Answer
      BY <1>1, <1>3, <3>1, <3>2, GrantTyped, AnswerTyped
    <3>4. back' \in Seq(Answer \union Grant)
      <4>1. back' = Append(Append(back, GrantTo(m.player, m.target, "attr")),
                           AnswerTo(m, TRUE))
        BY <2>4 DEF Slay
      <4>2. back \in Seq(Answer \union Grant)
        OBVIOUS
      <4> QED BY <3>3, <4>1, <4>2, TwoAppended, Zenon
    <3> QED BY <2>1, <2>4, <3>1, <3>2, <3>4 DEF Slay, Owe
  <2>5. Changed
    BY <1>8, <2>3, <2>4 DEF HandleAttack
  <2> QED BY <1>4, <1>5, <1>6, <1>8, <2>5 DEF HandleAttack, CombatTypeOK
<1>9. CASE HandlePickup(m)
  <2> DEFINE Changed == /\ earned' \subseteq Objects /\ grants' \in 0 .. MaxGrant
                        /\ back' \in Seq(Answer \union Grant)
  <2>1. ASSUME NEW o \in items, Find(m, o) PROVE Changed
    <3>1. o \in Objects
      BY OnMap
    <3>2. grants < MaxGrant /\ grants' \in 0 .. MaxGrant
      BY <2>1, CombatAssumption DEF Find, Owe
    <3>3. GrantTo(m.player, o, "item") \in Grant
      BY <1>3, <3>1, <3>2, GrantTyped
    <3> QED BY <2>1, <3>1, <3>2, <3>3 DEF Find, Owe
  <2>2. Changed
    BY <1>9, <2>1 DEF HandlePickup
  <2> QED BY <1>4, <1>5, <1>6, <1>9, <2>2 DEF HandlePickup, CombatTypeOK
<1>10. CASE HandleEnter(m)
  BY <1>4, <1>5, <1>6, <1>10 DEF HandleEnter, CombatTypeOK
<1>11. CASE HandleLeave(m)
  BY <1>4, <1>11 DEF HandleLeave, CombatTypeOK
<1> QED BY <1>2, <1>7, <1>8, <1>9, <1>10, <1>11

LEMMA ReplyTyped ==
  ASSUME TypeOK, HandleReply
  PROVE  CombatTypeOK'
<1> USE DEF TypeOK, gameVars, history
<1> DEFINE r == Head(back)
<1>1. back # <<>> /\ r \in Answer \union Grant /\ Tail(back) \in Seq(Answer \union Grant)
  BY DEF HandleReply
<1>2. DropReply(r) \/ HandleAnswer(r) \/ HandleGrant(r)
  BY DEF HandleReply
<1>3. Arrive(r) => back' \in Seq(Answer \union Grant)
  BY <1>1 DEF Arrive
<1> HIDE DEF r
<1>4. r.id \in RequestID \union GrantID
  BY <1>1 DEF Answer, Grant
<1>5. CASE DropReply(r)
  <2>1. r.type # "answer" => r \in Grant
    BY <1>1 DEF Answer
  <2>2. repeated' \subseteq Grant
    BY <1>5, <2>1 DEF DropReply
  <2>3. back' \in Seq(Answer \union Grant)
    BY <1>3, <1>5 DEF DropReply
  <2> QED BY <1>5, <2>2, <2>3 DEF DropReply, CombatTypeOK
<1>6. CASE HandleAnswer(r)
  <2>1. r.id \in RequestID
    BY <1>1, <1>6 DEF HandleAnswer, Answer, Grant
  <2>2. ASSUME NEW p \in Players, job[p] # NoJob
        PROVE  [job[p] EXCEPT !.result = IF r.ok THEN r.id ELSE "failed"] \in Job
    BY <2>1, <2>2 DEF Job, Result
  <2>3. job' \in [Players -> Job \union {NoJob}]
    BY <1>6, <2>2 DEF HandleAnswer, Waits
  <2>4. gameInbox' \subseteq RequestID \union GrantID /\ answered' \subseteq RequestID
    BY <1>4, <1>6, <2>1 DEF HandleAnswer, Note
  <2>5. back' \in Seq(Answer \union Grant)
    BY <1>3, <1>6 DEF HandleAnswer
  <2> QED BY <1>6, <2>3, <2>4, <2>5 DEF HandleAnswer, CombatTypeOK
<1>7. CASE HandleGrant(r)
  <2>1. r.object \in Objects
    BY <1>1, <1>7 DEF HandleGrant, Answer, Grant
  <2>2. received' \in [Objects -> Nat] /\ lost' \subseteq Objects
    <3>1. CASE /\ received' = [received EXCEPT ![r.object] = @ + 1]
               /\ UNCHANGED lost
      BY <2>1, <3>1
    <3>2. CASE lost' = lost \union {r.object} /\ UNCHANGED received
      BY <2>1, <3>2
    <3> QED BY <1>7, <3>1, <3>2 DEF HandleGrant
  <2>3. back' \in Seq(Answer \union Grant)
    BY <1>3, <1>7 DEF HandleGrant
  <2>4. gameInbox' \subseteq RequestID \union GrantID
    BY <1>4, <1>7 DEF HandleGrant, Note
  <2> QED BY <1>7, <2>2, <2>3, <2>4 DEF HandleGrant, CombatTypeOK
<1> QED BY <1>2, <1>5, <1>6, <1>7

LEMMA FlyingTyped == TypeOK => InFlight \subseteq Objects
<1> SUFFICES ASSUME TypeOK, NEW i \in DOMAIN back, back[i].type # "answer"
             PROVE  back[i].object \in Objects
  BY DEF InFlight
<1> QED BY DEF TypeOK, Answer, Grant

LEMMA CombatTyping == TypeOK /\ [Next]_vars => TypeOK'
<1> SUFFICES ASSUME TypeOK, [Next]_vars PROVE TypeOK'
  OBVIOUS
<1>1. WorldTypeOK'
  BY MapSteps, WorldTyped, TypeParts
<1>2. ASSUME MapLives \/ Reconnect \/ UNCHANGED vars PROVE CombatTypeOK'
  <2>1. UNCHANGED <<gameVars, grants, breaks, link, back, mapInbox, history>>
    BY <1>2 DEF MapLives, Reconnect, vars, wires
  <2>2. up' \in BOOLEAN
    BY <1>2 DEF MapLives, Reconnect, vars, wires, TypeOK
  <2> QED BY <2>1, <2>2 DEF gameVars, history, TypeOK, CombatTypeOK
<1>3. ASSUME Break PROVE CombatTypeOK'
  <2>1. InFlight \subseteq Objects
    BY FlyingTyped
  <2>2. breaks' \in 0 .. MaxBreak
    BY <1>3, CombatAssumption DEF Break, TypeOK
  <2>3. link' \in Seq(Request) /\ back' \in Seq(Answer \union Grant)
    BY <1>3 DEF Break
  <2> QED BY <1>3, <2>1, <2>2, <2>3 DEF Break, gameVars, TypeOK, CombatTypeOK
<1>4. CombatTypeOK'
  BY <1>2, <1>3, ClientTyped, SendsTyped, RequestTyped, ReplyTyped DEF Next
<1> QED BY <1>1, <1>4 DEF TypeOK, CombatTypeOK

LEMMA InitTyped == Init => TypeOK
  BY WorldInitTyped, CombatAssumption DEF Init, TypeOK

-----------------------------------------------------------------------------
(* Requests are run once *)

RanIsSeen == \A i \in RequestID : ran[i] <= 1 /\ (ran[i] = 1 => i \in mapInbox)

LEMMA RanOnceStep ==
  ASSUME TypeOK, RanIsSeen, [Next]_vars
  PROVE  RanIsSeen'
<1>1. CASE HandleRequest
  <2> DEFINE m == Head(link)
  <2>1. link # <<>> /\ m \in Request
    BY <1>1 DEF HandleRequest, TypeOK
  <2>2. DropRequest(m) \/ HandleAttack(m) \/ HandlePickup(m) \/ HandleEnter(m) \/ HandleLeave(m)
    BY <1>1 DEF HandleRequest
  <2> HIDE DEF m
  <2>3. CASE TryAccept(m) /\ Ran(m)
    <3>1. m.id \in RequestID
      BY <2>1 DEF Request
    <3>2. ran[m.id] = 0
      BY <2>3, <3>1 DEF TryAccept, RanIsSeen, TypeOK
    <3> QED BY <2>3, <3>1, <3>2 DEF TryAccept, Ran, RanIsSeen, TypeOK
  <2>4. CASE UNCHANGED <<ran, mapInbox>>
    BY <2>4 DEF RanIsSeen
  <2> QED BY <2>2, <2>3, <2>4
          DEF DropRequest, HandleAttack, HandlePickup, HandleEnter, HandleLeave, history
<1>2. CASE UNCHANGED <<ran, mapInbox>>
  BY <1>2 DEF RanIsSeen
<1>3. ASSUME NEW p \in Players, Client(p) PROVE UNCHANGED <<ran, mapInbox>>
  BY <1>3 DEF Client, Attack, Pickup, EnterMap, LeaveMap, LogOff, LogIn, Return, TimeOut,
              history
<1>4. CASE Sends
  BY <1>2, <1>4 DEF Sends, Send, SendFails, Resend, GiveUp, history
<1>5. CASE HandleReply
  BY <1>2, <1>5 DEF HandleReply, DropReply, HandleAnswer, HandleGrant, history
<1>6. CASE MapLives \/ Break \/ Reconnect \/ UNCHANGED vars
  BY <1>2, <1>6 DEF MapLives, Break, Reconnect, vars, history
<1> QED BY <1>1, <1>2, <1>3, <1>4, <1>5, <1>6 DEF Next

-----------------------------------------------------------------------------
(* Grants on the wire *)

Paying(q) == {i \in DOMAIN q : q[i].type # "answer"}
Goods(q) == {q[i].object : i \in Paying(q)}
Numbers(q) == {q[i].id : i \in Paying(q)}

\* No two grants are for one object or have one id.
Apart(q) ==
  \A i, j \in Paying(q) : i # j => q[i].object # q[j].object /\ q[i].id # q[j].id

Reply == Answer \union Grant

LEMMA AnswerSent ==
  ASSUME NEW q \in Seq(Reply), NEW a \in Reply, a.type = "answer"
  PROVE  /\ Goods(Append(q, a)) = Goods(q) /\ Numbers(Append(q, a)) = Numbers(q)
         /\ Apart(q) => Apart(Append(q, a))
<1> DEFINE n == Len(q)
           s == Append(q, a)
<1>1. /\ DOMAIN q = 1 .. n /\ DOMAIN s = 1 .. (n + 1) /\ n \in Nat
      /\ s[n + 1] = a /\ \A i \in 1 .. n : s[i] = q[i]
  OBVIOUS
<1> HIDE DEF s, n
<1>2. Paying(s) = Paying(q) /\ \A i \in Paying(q) : s[i] = q[i]
  BY <1>1 DEF Paying
<1>3. Goods(s) = Goods(q) /\ Numbers(s) = Numbers(q) /\ (Apart(q) => Apart(s))
  BY <1>2 DEF Goods, Numbers, Apart
<1> QED BY <1>3 DEF s

LEMMA GrantSent ==
  ASSUME NEW q \in Seq(Reply), NEW g \in Reply, g.type # "answer"
  PROVE  /\ Goods(Append(q, g)) = Goods(q) \union {g.object}
         /\ Numbers(Append(q, g)) = Numbers(q) \union {g.id}
         /\ Apart(q) /\ g.object \notin Goods(q) /\ g.id \notin Numbers(q)
              => Apart(Append(q, g))
<1> DEFINE n == Len(q)
           s == Append(q, g)
<1>1. /\ DOMAIN q = 1 .. n /\ DOMAIN s = 1 .. (n + 1) /\ n \in Nat
      /\ s[n + 1] = g /\ \A i \in 1 .. n : s[i] = q[i]
  OBVIOUS
<1> HIDE DEF s, n
<1>2. /\ Paying(s) = Paying(q) \union {n + 1} /\ n + 1 \notin Paying(q)
      /\ \A i \in Paying(q) : s[i] = q[i]
  BY <1>1 DEF Paying
<1>3. Goods(s) = Goods(q) \union {g.object} /\ Numbers(s) = Numbers(q) \union {g.id}
  BY <1>1, <1>2 DEF Goods, Numbers
<1>4. ASSUME Apart(q), g.object \notin Goods(q), g.id \notin Numbers(q) PROVE Apart(s)
  <2>1. \A i \in Paying(q) : s[i].object # g.object /\ s[i].id # g.id
    BY <1>2, <1>4 DEF Goods, Numbers
  <2>2. \A i, j \in Paying(q) : i # j => s[i].object # s[j].object /\ s[i].id # s[j].id
    BY <1>2, <1>4 DEF Apart
  <2> QED BY <1>1, <1>2, <2>1, <2>2 DEF Apart
<1> QED BY <1>3, <1>4 DEF s

\* What is taken from the front: the rest is what was behind it.
LEMMA ReplyTaken ==
  ASSUME NEW q \in Seq(Reply), q # <<>>, Apart(q)
  PROVE  /\ Apart(Tail(q))
         /\ IF Head(q).type = "answer"
              THEN Goods(Tail(q)) = Goods(q) /\ Numbers(Tail(q)) = Numbers(q)
              ELSE /\ Goods(Tail(q)) = Goods(q) \ {Head(q).object}
                   /\ Numbers(Tail(q)) = Numbers(q) \ {Head(q).id}
                   /\ Head(q).object \in Goods(q) /\ Head(q).id \in Numbers(q)
<1> DEFINE n == Len(q)
           t == Tail(q)
<1>1. /\ DOMAIN q = 1 .. n /\ DOMAIN t = 1 .. (n - 1) /\ n \in Nat /\ n >= 1
      /\ Head(q) = q[1] /\ \A i \in 1 .. (n - 1) : t[i] = q[i + 1]
  OBVIOUS
<1> HIDE DEF t, n
<1>2. \A i \in Paying(t) : i + 1 \in Paying(q) \ {1} /\ t[i] = q[i + 1] /\ i \in Int
  BY <1>1 DEF Paying
<1>3. \A i \in Paying(q) \ {1} : i - 1 \in Paying(t) /\ q[i] = t[i - 1]
  BY <1>1 DEF Paying
<1>4. Apart(t)
  BY <1>2 DEF Apart
<1>5. /\ Goods(t) = {q[i].object : i \in Paying(q) \ {1}}
      /\ Numbers(t) = {q[i].id : i \in Paying(q) \ {1}}
  <2>1. /\ \A x \in Goods(t) : \E i \in Paying(q) \ {1} : x = q[i].object
        /\ \A x \in Numbers(t) : \E i \in Paying(q) \ {1} : x = q[i].id
    BY <1>2 DEF Goods, Numbers
  <2>2. \A i \in Paying(q) \ {1} : q[i].object \in Goods(t) /\ q[i].id \in Numbers(t)
    BY <1>3 DEF Goods, Numbers
  <2> QED BY <2>1, <2>2
<1>6. CASE Head(q).type = "answer"
  <2>1. 1 \notin Paying(q)
    BY <1>1, <1>6 DEF Paying
  <2> QED BY <1>4, <1>5, <1>6, <2>1 DEF Goods, Numbers, t
<1>7. CASE Head(q).type # "answer"
  <2>1. 1 \in Paying(q)
    BY <1>1, <1>7 DEF Paying
  <2>2. \A i \in Paying(q) \ {1} : q[i].object # q[1].object /\ q[i].id # q[1].id
    BY <2>1 DEF Apart
  <2>3. /\ Goods(q) = Goods(t) \union {q[1].object} /\ q[1].object \notin Goods(t)
        /\ Numbers(q) = Numbers(t) \union {q[1].id} /\ q[1].id \notin Numbers(t)
    BY <1>5, <2>1, <2>2 DEF Goods, Numbers
  <2> QED BY <1>1, <1>4, <1>7, <2>3 DEF t
<1> QED BY <1>6, <1>7

-----------------------------------------------------------------------------
(* The steps, as far as rewards are concerned *)

Things == monsters \union items \union created

\* What is new on the map has not been there before.
LEMMA NewThings ==
  ASSUME WorldTypeOK, [WorldNext]_world
  PROVE  /\ lastObject' >= lastObject
         /\ \A o \in 1 .. lastObject : o \in Things' => o \in Things
<1> USE DEF Things
<1> DEFINE Later == /\ lastObject' >= lastObject
                    /\ \A o \in 1 .. lastObject : o \in Things' => o \in Things
<1>1. ASSUME NEW s \in Points, Create(s) PROVE Later
  BY <1>1 DEF Create, WorldTypeOK
<1>2. ASSUME NEW o \in created, Add(o) PROVE Later
  BY <1>2 DEF Add, WorldTypeOK
<1>3. CASE Respawn
  BY <1>3 DEF Respawn, WorldTypeOK, points
<1>4. ASSUME NEW o \in monsters, NEW n \in 0 .. MaxDrop, MonsterDies(o, n) PROVE Later
  BY <1>4 DEF MonsterDies, Uncount, WorldTypeOK, Drops
<1>5. ASSUME NEW p \in Players,
             Revive(p) \/ PlayerDies(p) \/ Appear(p) \/ Disappear(p)
      PROVE  Later
  BY <1>5 DEF Revive, PlayerDies, Appear, Disappear, points, WorldTypeOK
<1>6. ASSUME NEW o \in items, Take(o) PROVE Later
  BY <1>6 DEF Take, points, WorldTypeOK
<1>7. CASE UNCHANGED world
  BY <1>7 DEF world, points, WorldTypeOK
<1> QED BY <1>1, <1>2, <1>3, <1>4, <1>5, <1>6, <1>7 DEF WorldNext, Life, Deed

\* Nothing is paid: an answer may be sent.
Quiet ==
  /\ UNCHANGED <<grants, earned, lost, received, gameInbox, answered, repeated>>
  /\ back' = back \/ \E a \in Answer : back' = Append(back, a)

\* Thing o leaves the map and is paid for with g.
Pays(o, g) ==
  /\ o \in Things /\ o \notin Things'
  /\ g.object = o /\ g.id = <<MapID, grants + 1>> /\ grants' = grants + 1
  /\ earned' = earned \union {o}
  /\ UNCHANGED <<lost, received, gameInbox, answered, repeated>>
  /\ back' = Append(back, g) \/ \E a \in Answer : back' = Append(Append(back, g), a)

LEMMA RewardSteps ==
  ASSUME TypeOK, OneForm, [Next]_vars
  PROVE  \/ Quiet
         \/ \E o \in Objects, g \in Grant : Pays(o, g)
         \/ HandleReply
         \/ Break
<1> DEFINE Cases == Quiet \/ (\E o \in Objects, g \in Grant : Pays(o, g))
<1>1. CASE HandleRequest
  <2> DEFINE m == Head(link)
  <2>1. link # <<>> /\ m \in Request
    BY <1>1 DEF HandleRequest, TypeOK
  <2>2. DropRequest(m) \/ HandleAttack(m) \/ HandlePickup(m) \/ HandleEnter(m) \/ HandleLeave(m)
    BY <1>1 DEF HandleRequest
  <2> HIDE DEF m
  <2>3. AnswerTo(m, TRUE) \in Answer /\ AnswerTo(m, FALSE) \in Answer
    BY <2>1, AnswerTyped
  <2>4. m.player \in Players
    BY <2>1 DEF Request
  <2>5. CASE HandleAttack(m)
    <3>1. UNCHANGED <<lost, received, gameInbox, answered, repeated>>
      BY <2>5 DEF HandleAttack, gameVars
    <3>2. ASSUME Miss(m) \/ Wound(m) \/ Fell(m) PROVE Quiet
      BY <2>3, <3>1, <3>2 DEF Miss, Wound, Fell, Quiet
    <3>3. ASSUME NEW n \in 0 .. MaxDrop, Slay(m, n) PROVE Cases
      <4> DEFINE g == GrantTo(m.player, m.target, "attr")
      <4>1. MonsterDies(m.target, n) /\ Owe(m.target)
            /\ back' = Append(Append(back, g), AnswerTo(m, TRUE))
        BY <3>3 DEF Slay
      <4>2. m.target \in monsters /\ m.target \in Objects
        BY <4>1, OnMap DEF MonsterDies, TypeOK
      <4>3. g \in Grant /\ g.object = m.target /\ g.id = <<MapID, grants + 1>>
        BY <2>4, <4>1, <4>2, GrantTyped DEF Owe, GrantTo, ComposeRequestID
      <4>4. m.target \in Things /\ m.target \notin Things'
        <5>1. m.target \notin Drops(n)
          BY <4>2 DEF Drops, TypeOK, WorldTypeOK
        <5> QED BY <4>1, <4>2, <5>1 DEF MonsterDies, Uncount, Things, OneForm
      <4> HIDE DEF g
      <4>5. Pays(m.target, g)
        BY <2>3, <3>1, <4>1, <4>3, <4>4 DEF Owe, Pays
      <4> QED BY <4>2, <4>3, <4>5
    <3> QED BY <2>5, <3>2, <3>3 DEF HandleAttack
  <2>6. CASE HandlePickup(m)
    <3>1. UNCHANGED <<lost, received, gameInbox, answered, repeated>>
      BY <2>6 DEF HandlePickup, gameVars
    <3>2. ASSUME UNCHANGED <<world, grants, earned, back>> PROVE Quiet
      BY <3>1, <3>2 DEF Quiet
    <3>3. ASSUME NEW o \in items, Find(m, o) PROVE Cases
      <4> DEFINE g == GrantTo(m.player, o, "item")
      <4>1. Take(o) /\ Owe(o) /\ back' = Append(back, g)
        BY <3>3 DEF Find
      <4>2. o \in Objects
        BY OnMap DEF TypeOK
      <4>3. g \in Grant /\ g.object = o /\ g.id = <<MapID, grants + 1>>
        BY <2>4, <4>1, <4>2, GrantTyped DEF Owe, GrantTo, ComposeRequestID
      <4>4. o \in Things /\ o \notin Things'
        BY <4>1 DEF Take, Things, OneForm, points
      <4> HIDE DEF g
      <4>5. Pays(o, g)
        BY <3>1, <4>1, <4>3, <4>4 DEF Owe, Pays
      <4> QED BY <4>2, <4>3, <4>5
    <3> QED BY <2>6, <3>2, <3>3 DEF HandlePickup
  <2>7. CASE DropRequest(m) \/ HandleEnter(m) \/ HandleLeave(m)
    BY <2>7 DEF DropRequest, HandleEnter, HandleLeave, gameVars, history, Quiet
  <2> QED BY <2>2, <2>5, <2>6, <2>7
<1>2. ASSUME NEW p \in Players, Client(p) PROVE Quiet
  BY <1>2 DEF Client, Attack, Pickup, EnterMap, LeaveMap, LogOff, LogIn, Return, TimeOut,
              wires, history, Quiet
<1>3. CASE Sends
  BY <1>3 DEF Sends, Send, SendFails, Resend, GiveUp, wires, history, Quiet
<1>4. CASE MapLives \/ Reconnect \/ UNCHANGED vars
  BY <1>4 DEF MapLives, Reconnect, vars, gameVars, wires, history, Quiet
<1> QED BY <1>1, <1>2, <1>3, <1>4 DEF Next

-----------------------------------------------------------------------------
(* Rewards are paid once *)

\* What is owed has left the map for good; a grant has an object and an id of its
\* own; what is on the wire, lost or in somebody's hands is owed, and only one of
\* these.
Owed ==
  /\ Apart(back)
  /\ \A i \in Numbers(back) : i[2] <= grants
  /\ Goods(back) \subseteq earned /\ lost \subseteq earned
  /\ lost \intersect Goods(back) = {}
  /\ earned \intersect Things = {} /\ earned \subseteq 1 .. lastObject
  /\ \A o \in Objects : /\ received[o] <= 1
                        /\ received[o] = 1 => o \in earned \ (lost \union Goods(back))

LEMMA Flying == InFlight = Goods(back)
  BY DEF InFlight, Goods, Paying

LEMMA NumbersTyped == TypeOK => Numbers(back) \subseteq GrantID
<1> SUFFICES ASSUME TypeOK, NEW i \in Paying(back) PROVE back[i].id \in GrantID
  BY DEF Numbers
<1> QED BY DEF TypeOK, Paying, Answer, Grant

LEMMA OwedStep ==
  ASSUME TypeOK, OneForm, Owed, [Next]_vars
  PROVE  Owed'
<1> USE DEF Owed
<1>0. /\ lastObject' >= lastObject
      /\ \A o \in 1 .. lastObject : o \in Things' => o \in Things
      /\ back \in Seq(Reply) /\ lastObject \in Nat
  <2>1. WorldTypeOK /\ [WorldNext]_world
    BY MapSteps DEF TypeOK
  <2>2. back \in Seq(Reply)
    BY DEF TypeOK, Reply
  <2> QED BY <2>1, <2>2, NewThings DEF WorldTypeOK
<1>a. lastObject' \in Nat
  <2>1. WorldTypeOK'
    BY CombatTyping DEF TypeOK
  <2> QED BY <2>1 DEF WorldTypeOK
<1>c. \A o \in earned : o \notin Things' /\ o \in 1 .. lastObject'
  BY <1>0, <1>a
<1>b. Answer \subseteq Reply /\ Grant \subseteq Reply
      /\ (\A a \in Answer : a.type = "answer") /\ (\A g \in Grant : g.type # "answer")
  BY DEF Reply, Answer, Grant
<1>1. CASE Quiet
  <2>1. Apart(back') /\ Goods(back') = Goods(back) /\ Numbers(back') = Numbers(back)
    BY <1>0, <1>1, <1>b, AnswerSent DEF Quiet
  <2>2. UNCHANGED <<grants, earned, lost, received>>
    BY <1>1 DEF Quiet
  <2>3. earned' \intersect Things' = {} /\ earned' \subseteq 1 .. lastObject'
    BY <1>c, <2>2
  <2> QED BY <2>1, <2>2, <2>3
<1>2. ASSUME NEW o \in Objects, NEW g \in Grant, Pays(o, g) PROVE Owed'
  <2>1. o \notin earned /\ o \in 1 .. lastObject
    BY <1>2 DEF Pays, Things, TypeOK, WorldTypeOK
  <2>2. g.id \notin Numbers(back)
    <3>1. g.id = <<MapID, grants + 1>> /\ grants \in Nat
      BY <1>2 DEF Pays, TypeOK
    <3>2. g.id[2] = grants + 1
      BY <3>1
    <3> QED BY <3>1, <3>2
  <2>3. g.object = o /\ o \notin Goods(back)
    BY <1>2, <2>1 DEF Pays
  <2> DEFINE q == Append(back, g)
  <2>4. /\ q \in Seq(Reply) /\ Apart(q) /\ Goods(q) = Goods(back) \union {o}
        /\ Numbers(q) = Numbers(back) \union {g.id}
    BY <1>0, <1>b, <2>2, <2>3, GrantSent
  <2> HIDE DEF q
  <2>5. back' = q \/ \E a \in Answer : back' = Append(q, a)
    BY <1>2 DEF Pays, q
  <2>6. /\ Apart(back') /\ Goods(back') = Goods(back) \union {o}
        /\ Numbers(back') = Numbers(back) \union {g.id}
    BY <1>b, <2>4, <2>5, AnswerSent, ZenonT(30)
  <2>7. \A i \in Numbers(back') : i[2] <= grants'
    <3>1. g.id = <<MapID, grants + 1>> /\ grants \in Nat /\ grants' = grants + 1
      BY <1>2 DEF Pays, TypeOK
    <3>2. ASSUME NEW i \in Numbers(back) PROVE i[2] <= grants + 1
      <4>1. i[2] <= grants /\ i[2] \in Int
        BY NumbersTyped DEF GrantID
      <4> QED BY <3>1, <4>1
    <3> QED BY <2>6, <3>1, <3>2
  <2>8. /\ earned' = earned \union {o} /\ lost' = lost /\ received' = received
        /\ o \notin Things'
    BY <1>2 DEF Pays
  <2>9. earned' \intersect Things' = {} /\ earned' \subseteq 1 .. lastObject'
    <3>1. o \in 1 .. lastObject'
      BY <1>0, <1>a, <2>1
    <3> QED BY <1>c, <2>8, <3>1
  <2> QED BY <2>1, <2>6, <2>7, <2>8, <2>9
<1>3. CASE HandleReply
  <2> DEFINE r == Head(back)
  <2>1. back # <<>> /\ (DropReply(r) \/ HandleAnswer(r) \/ HandleGrant(r))
    BY <1>3 DEF HandleReply
  <2>2. UNCHANGED <<earned, grants, world>> /\ back' = Tail(back)
    BY <2>1 DEF DropReply, HandleAnswer, HandleGrant, Arrive, history
  <2>3. r \in Reply
    BY <1>0, <2>1
  <2>4. /\ Apart(back')
        /\ IF r.type = "answer"
             THEN Goods(back') = Goods(back) /\ Numbers(back') = Numbers(back)
             ELSE /\ Goods(back') = Goods(back) \ {r.object}
                  /\ Numbers(back') = Numbers(back) \ {r.id}
                  /\ r.object \in Goods(back)
    BY <1>0, <2>1, <2>2, ReplyTaken
  <2> HIDE DEF r
  <2>5. /\ Goods(back') \subseteq Goods(back) /\ Numbers(back') \subseteq Numbers(back)
        /\ Things' = Things /\ lastObject' = lastObject
    BY <2>2, <2>4 DEF Things, world, points
  <2>6. CASE UNCHANGED <<lost, received>>
    BY <2>2, <2>4, <2>5, <2>6
  <2>7. ASSUME HandleGrant(r) PROVE Owed'
    <3>1. /\ r.object \in Goods(back) /\ r.object \in Objects
          /\ Goods(back') = Goods(back) \ {r.object}
      BY <2>4, <2>7 DEF HandleGrant, TypeOK
    <3>2. received[r.object] = 0
      <4>1. received[r.object] \in Nat
        BY <3>1 DEF TypeOK
      <4>2. received[r.object] <= 1 /\ received[r.object] # 1
        BY <3>1
      <4> QED BY <4>1, <4>2
    <3>3. CASE received' = [received EXCEPT ![r.object] = @ + 1] /\ UNCHANGED lost
      BY <2>2, <2>4, <2>5, <3>1, <3>2, <3>3 DEF TypeOK
    <3>4. CASE lost' = lost \union {r.object} /\ UNCHANGED received
      BY <2>2, <2>4, <2>5, <3>1, <3>2, <3>4 DEF TypeOK
    <3> QED BY <2>7, <3>3, <3>4 DEF HandleGrant
  <2> QED BY <2>1, <2>6, <2>7 DEF DropReply, HandleAnswer, history
<1>4. CASE Break
  <2>1. /\ back' = <<>> /\ lost' = lost \union Goods(back)
        /\ UNCHANGED <<earned, grants, received, world>>
    BY <1>4, Flying DEF Break
  <2>2. Paying(back') = {}
    BY <2>1 DEF Paying
  <2>3. Goods(back') = {} /\ Numbers(back') = {} /\ Apart(back')
    BY <2>2 DEF Goods, Numbers, Apart
  <2>4. Things' = Things /\ lastObject' = lastObject
    BY <2>1 DEF Things, world, points
  <2> QED BY <2>1, <2>3, <2>4
<1> QED BY <1>1, <1>2, <1>3, <1>4, RewardSteps

-----------------------------------------------------------------------------
(* Rewards are accounted for *)

\* The ids in the inbox that no answer has brought are those of earlier grants.
Fresh ==
  /\ \A i \in gameInbox \ answered : i[2] <= grants
  /\ Numbers(back) \intersect (gameInbox \ answered) = {}
  /\ RewardsAccounted

LEMMA FreshStep ==
  ASSUME TypeOK, OneForm, Owed, Fresh, [Next]_vars
  PROVE  Fresh'
<1> USE DEF Fresh
<1> DEFINE Gone == {g.object : g \in repeated}
<1>0. /\ back \in Seq(Reply) /\ Apart(back)
      /\ Answer \subseteq Reply /\ Grant \subseteq Reply
      /\ (\A a \in Answer : a.type = "answer") /\ (\A g \in Grant : g.type # "answer")
  BY DEF TypeOK, Reply, Answer, Grant, Owed
<1>a. /\ RewardsAccounted <=>
           /\ \A o \in earned : o \in lost \union Goods(back) \union Gone \/ received[o] > 0
           /\ \A g \in repeated : g.id \in answered
      /\ RewardsAccounted' <=>
           /\ \A o \in earned' : o \in lost' \union Goods(back') \union Gone' \/ received'[o] > 0
           /\ \A g \in repeated' : g.id \in answered'
  BY DEF RewardsAccounted, InFlight, Goods, Paying
<1>b. \A i \in RequestID \union GrantID : i[2] \in Nat
  BY DEF GrantID, RequestID
<1>1. CASE Quiet
  <2>1. Goods(back') = Goods(back) /\ Numbers(back') = Numbers(back)
    BY <1>0, <1>1, AnswerSent DEF Quiet
  <2> QED BY <1>1, <1>a, <2>1 DEF Quiet
<1>2. ASSUME NEW o \in Objects, NEW g \in Grant, Pays(o, g) PROVE Fresh'
  <2>1. g.id = <<MapID, grants + 1>> /\ grants \in Nat /\ grants' = grants + 1
        /\ g.object = o /\ g.type # "answer" /\ g \in Reply
    BY <1>0, <1>2 DEF Pays, TypeOK
  <2>2. g.id \notin gameInbox \ answered
    <3>1. g.id[2] = grants + 1
      BY <2>1
    <3> QED BY <2>1, <3>1
  <2> DEFINE q == Append(back, g)
  <2>3. /\ q \in Seq(Reply) /\ Goods(q) = Goods(back) \union {o}
        /\ Numbers(q) = Numbers(back) \union {g.id}
    <3>1. back \in Seq(Reply) /\ g \in Reply /\ g.type # "answer" /\ g.object = o
      BY <1>0, <2>1
    <3>2. q \in Seq(Reply)
      BY <3>1
    <3> QED BY <3>1, <3>2, GrantSent
  <2> HIDE DEF q
  <2>4. back' = q \/ \E a \in Answer : back' = Append(q, a)
    BY <1>2 DEF Pays, q
  <2>5. Goods(back') = Goods(back) \union {o} /\ Numbers(back') = Numbers(back) \union {g.id}
    BY <1>0, <2>3, <2>4, AnswerSent
  <2>6. /\ earned' = earned \union {o}
        /\ UNCHANGED <<lost, received, gameInbox, answered, repeated>>
    BY <1>2 DEF Pays
  <2>7. RewardsAccounted'
    BY <1>a, <2>5, <2>6
  <2>8. \A i \in gameInbox' \ answered' : i[2] <= grants'
    <3>1. gameInbox \subseteq RequestID \union GrantID
      BY DEF TypeOK
    <3> QED BY <1>b, <2>1, <2>6, <3>1
  <2> QED BY <2>2, <2>5, <2>6, <2>7, <2>8
<1>3. CASE HandleReply
  <2> DEFINE r == Head(back)
  <2>1. back # <<>> /\ (DropReply(r) \/ HandleAnswer(r) \/ HandleGrant(r))
    BY <1>3 DEF HandleReply
  <2>2. UNCHANGED <<earned, grants>> /\ back' = Tail(back)
    BY <2>1 DEF DropReply, HandleAnswer, HandleGrant, Arrive, history
  <2>3. r \in Reply
    BY <1>0, <2>1
  <2>4. IF r.type = "answer"
          THEN Goods(back') = Goods(back) /\ Numbers(back') = Numbers(back)
          ELSE /\ Goods(back') = Goods(back) \ {r.object}
               /\ Numbers(back') = Numbers(back) \ {r.id}
               /\ r.object \in Goods(back) /\ r.id \in Numbers(back)
    BY <1>0, <2>1, <2>2, ReplyTaken
  <2> HIDE DEF r
  <2>5. ASSUME DropReply(r) PROVE Fresh'
    <3>1. /\ UNCHANGED <<lost, received, gameInbox, answered>>
          /\ r.id \in gameInbox
          /\ repeated' = IF r.type = "answer" THEN repeated ELSE repeated \union {r}
      BY <2>5 DEF DropReply, Known, gameVars
    <3>2. CASE r.type = "answer"
      BY <1>a, <2>2, <2>4, <3>1, <3>2
    <3>3. CASE r.type # "answer"
      <4>1. r.id \in answered
        BY <2>4, <3>1, <3>3
      <4>2. Gone' = Gone \union {r.object}
        BY <3>1, <3>3
      <4>3. \A g \in repeated' : g.id \in answered'
        BY <1>a, <3>1, <3>3, <4>1
      <4>4. Goods(back') = Goods(back) \ {r.object} /\ Numbers(back') \subseteq Numbers(back)
        BY <2>4, <3>3
      <4> HIDE DEF Gone
      <4> QED BY <1>a, <2>2, <3>1, <4>2, <4>3, <4>4
    <3> QED BY <3>2, <3>3
  <2>6. ASSUME HandleAnswer(r) PROVE Fresh'
    <3>1. /\ r.type = "answer" /\ UNCHANGED <<lost, received, repeated>>
          /\ gameInbox' = gameInbox \union {r.id} /\ answered' = answered \union {r.id}
      BY <2>6 DEF HandleAnswer, Note
    <3>2. gameInbox' \ answered' \subseteq gameInbox \ answered
      BY <3>1
    <3>3. RewardsAccounted'
      BY <1>a, <2>2, <2>4, <3>1
    <3> QED BY <2>2, <2>4, <3>1, <3>2, <3>3
  <2>7. ASSUME HandleGrant(r) PROVE Fresh'
    <3>1. /\ r.type # "answer" /\ gameInbox' = gameInbox \union {r.id}
          /\ UNCHANGED <<answered, repeated>>
      BY <2>7 DEF HandleGrant, Note
    <3>2. r.id[2] <= grants /\ r.object \in Objects
      BY <2>4, <3>1 DEF Owed, TypeOK
    <3>3. RewardsAccounted'
      <4>1. CASE received' = [received EXCEPT ![r.object] = @ + 1] /\ UNCHANGED lost
        BY <1>a, <2>2, <2>4, <3>1, <3>2, <4>1 DEF TypeOK
      <4>2. CASE lost' = lost \union {r.object} /\ UNCHANGED received
        BY <1>a, <2>2, <2>4, <3>1, <4>2
      <4> QED BY <2>7, <4>1, <4>2 DEF HandleGrant
    <3> QED BY <2>2, <2>4, <3>1, <3>2, <3>3
  <2> QED BY <2>1, <2>5, <2>6, <2>7
<1>4. CASE Break
  <2>1. /\ back' = <<>> /\ lost' = lost \union Goods(back)
        /\ UNCHANGED <<earned, grants, received, gameInbox, answered, repeated>>
    BY <1>4, Flying DEF Break, gameVars
  <2>2. Paying(back') = {}
    BY <2>1 DEF Paying
  <2>3. Goods(back') = {} /\ Numbers(back') = {}
    BY <2>2 DEF Goods, Numbers
  <2> QED BY <1>a, <2>1, <2>3
<1> QED BY <1>1, <1>2, <1>3, <1>4, RewardSteps

-----------------------------------------------------------------------------
(* Reports are true *)

\* Whoever waits for x's id waits for x's target, and an id has been given before.
Meant(x, n, jobs) ==
  /\ x.id[2] <= n
  /\ jobs[x.player] # NoJob /\ jobs[x.player].id = x.id => jobs[x.player].target = x.target

\* A job that has the answer of a hit.
HasHit(p) == job[p] # NoJob /\ job[p].result \notin {"none", "failed"}

Asked ==
  /\ \A x \in sending \union outbox : x.kind = "attack" => Meant(x, seq, job)
  /\ \A i \in DOMAIN link : link[i].kind = "attack" => Meant(link[i], seq, job)

Answered ==
  \A i \in DOMAIN back : back[i].type = "answer" =>
    /\ Meant(back[i], seq, job)
    /\ back[i].ok => [id |-> back[i].id, player |-> back[i].player,
                      target |-> back[i].target] \in hits

\* An answer that was taken is of a hit, and it is taken once.
Taken ==
  /\ \A p \in Players : HasHit(p) =>
       /\ [id |-> job[p].result, player |-> p, target |-> job[p].target] \in hits
       /\ job[p].result \in gameInbox
       /\ \A r \in told : r.answer # job[p].result
       /\ \A q \in Players : HasHit(q) /\ job[q].result = job[p].result => q = p
  /\ \A r \in told : r.answer \in gameInbox
  /\ ToldTrue

True == Asked /\ Answered /\ Taken

LEMMA AppendAt ==
  ASSUME NEW S, NEW q \in Seq(S), NEW x \in S, NEW i \in DOMAIN Append(q, x)
  PROVE  Append(q, x)[i] = x \/ (i \in DOMAIN q /\ Append(q, x)[i] = q[i])
  OBVIOUS

\* Requests and answers have players, and ids with a number.
LEMMA Senders ==
  ASSUME TypeOK
  PROVE  /\ \A x \in sending \union outbox : x.player \in Players /\ x.id \in RequestID
         /\ \A i \in DOMAIN link : link[i] \in Request
         /\ \A i \in DOMAIN link : link[i].player \in Players /\ link[i].id \in RequestID
         /\ \A i \in DOMAIN back : back[i].type = "answer" =>
              /\ back[i] \in Answer
              /\ back[i].player \in Players /\ back[i].id \in RequestID
         /\ \A i \in RequestID : i[1] = GameID /\ i[2] \in Nat
<1>1. \A x \in Request : x.player \in Players /\ x.id \in RequestID
  BY DEF Request
<1>2. \A x \in Answer : x.player \in Players /\ x.id \in RequestID
  BY DEF Answer
<1>3. \A i \in DOMAIN link : link[i] \in Request
  BY DEF TypeOK
<1>4. \A i \in DOMAIN back : back[i].type = "answer" => back[i] \in Answer
  <2>1. \A i \in DOMAIN back : back[i] \in Answer \union Grant
    BY DEF TypeOK
  <2>2. \A g \in Grant : g.type # "answer"
    BY DEF Grant
  <2> QED BY <2>1, <2>2
<1>5. \A i \in RequestID : i[1] = GameID /\ i[2] \in Nat
  BY DEF RequestID
<1>6. \A x \in sending \union outbox : x \in Request
  BY DEF TypeOK
<1> QED BY <1>1, <1>2, <1>3, <1>4, <1>5, <1>6

\* The steps that only give up or report a job.
LEMMA JobsEnd ==
  ASSUME TypeOK, True, UNCHANGED <<seq, outbox, link, back, hits, gameInbox>>,
         sending' \subseteq sending,
         \A p \in Players : job'[p] \in {job[p], NoJob},
         \/ told' = told
         \/ \E p \in Players :
              /\ HasHit(p) /\ job'[p] = NoJob
              /\ told' = told \union {[job |-> job[p].id, answer |-> job[p].result,
                                       player |-> p, target |-> job[p].target]}
  PROVE  True'
<1>1. \A x : Meant(x, seq, job) /\ x.player \in Players => Meant(x, seq', job')
  BY DEF Meant
<1>2. Asked'
  BY <1>1, Senders DEF True, Asked
<1>3. Answered'
  BY <1>1, Senders DEF True, Answered
<1>4. \A p \in Players : HasHit(p)' => HasHit(p) /\ job'[p] = job[p]
  BY DEF HasHit
<1>5. CASE told' = told
  BY <1>2, <1>3, <1>4, <1>5 DEF True, Taken, ToldTrue
<1>6. ASSUME NEW p \in Players, HasHit(p), job'[p] = NoJob,
             told' = told \union {[job |-> job[p].id, answer |-> job[p].result,
                                   player |-> p, target |-> job[p].target]}
      PROVE  True'
  <2> DEFINE r == [job |-> job[p].id, answer |-> job[p].result,
                   player |-> p, target |-> job[p].target]
  <2>1. /\ [id |-> r.answer, player |-> r.player, target |-> r.target] \in hits
        /\ r.answer = job[p].result /\ r.answer \in gameInbox
        /\ \A q \in told : q.answer # r.answer
    BY <1>6 DEF True, Taken
  <2>2. \A q \in Players : HasHit(q)' => q # p /\ job'[q] = job[q] /\ HasHit(q)
                                         /\ job[q].result # r.answer
    BY <1>4, <1>6 DEF True, Taken, HasHit
  <2> HIDE DEF r
  <2>3. told' = told \union {r}
    BY <1>6 DEF r
  <2>4. ToldTrue'
    BY <2>1, <2>3 DEF True, Taken, ToldTrue
  <2>5. Taken'
    BY <2>1, <2>2, <2>3, <2>4 DEF True, Taken
  <2> QED BY <1>2, <1>3, <2>5 DEF True
<1> QED BY <1>5, <1>6

\* The steps that change nothing but what is on the wires.
LEMMA OnTheWires ==
  ASSUME TypeOK, True, UNCHANGED <<job, told, gameInbox>>, seq' \in {seq, seq + 1},
         hits \subseteq hits', Asked', Answered'
  PROVE  True'
  BY DEF True, Taken, ToldTrue, HasHit

LEMMA TrueStep ==
  ASSUME TypeOK, True, [Next]_vars
  PROVE  True'
<1>0. seq \in Nat
  BY DEF TypeOK
<1>1. ASSUME NEW p \in Players, Client(p) PROVE True'
  <2>1. ASSUME NEW t \in monsters \union here, Attack(p, t) PROVE True'
    <3> DEFINE i == <<GameID, seq + 1>>
               m == [id |-> i, kind |-> "attack", player |-> p, target |-> t]
    <3>1. /\ seq' = seq + 1 /\ outbox' = outbox \union {m} /\ sending' = sending \union {m}
          /\ UNCHANGED <<link, back, hits, told, gameInbox>>
      BY <2>1 DEF Attack, Submit, ComposeRequestID, wires, history
    <3>2. /\ job[p] = NoJob
          /\ job' = [job EXCEPT ![p] = [id |-> i, target |-> t, result |-> "none"]]
      BY <2>1, <3>1 DEF Attack, ComposeRequestID
    <3>3. m.id = i /\ i[2] = seq + 1 /\ m.player = p /\ m.target = t
      OBVIOUS
    <3> HIDE DEF i, m
    <3>4. /\ job'[p].id = i /\ job'[p].target = t /\ job'[p].result = "none"
          /\ \A q \in Players \ {p} : job'[q] = job[q]
      BY <3>2 DEF TypeOK
    <3>5. ASSUME NEW x, Meant(x, seq, job), x.player \in Players, x.id \in RequestID PROVE Meant(x, seq', job')
      <4>1. x.id[2] <= seq /\ x.id[2] \in Nat
        BY <3>5, Senders DEF Meant
      <4>2. x.id # i
        BY <1>0, <3>3, <4>1
      <4> QED BY <1>0, <3>1, <3>4, <3>5, <4>1, <4>2 DEF Meant
    <3>6. Meant(m, seq', job')
      BY <1>0, <3>1, <3>3, <3>4 DEF Meant
    <3>7. Asked'
      BY <3>1, <3>5, <3>6, Senders DEF True, Asked
    <3>8. Answered'
      BY <3>1, <3>5, Senders DEF True, Answered
    <3>9. \A q \in Players : HasHit(q)' => q # p /\ HasHit(q) /\ job'[q] = job[q]
      BY <3>4 DEF HasHit
    <3> QED BY <3>1, <3>7, <3>8, <3>9 DEF True, Taken, ToldTrue
  <2>2. ASSUME Pickup(p) \/ EnterMap(p) \/ LeaveMap(p) PROVE True'
    <3>1. PICK kind \in {"pickup", "enter", "leave"} : Submit(kind, p, NoTarget)
      BY <2>2 DEF Pickup, EnterMap, LeaveMap
    <3>2. UNCHANGED <<job, link, back, hits, told, gameInbox>>
      BY <2>2 DEF Pickup, EnterMap, LeaveMap, wires, history
    <3>3. /\ seq' = seq + 1
          /\ \A x \in (sending \union outbox)' : x.kind = "attack" => x \in sending \union outbox
      BY <3>1 DEF Submit
    <3>4. ASSUME NEW x, Meant(x, seq, job), x.id \in RequestID PROVE Meant(x, seq', job')
      <4>1. x.id[2] <= seq /\ x.id[2] \in Nat
        BY <3>4, Senders DEF Meant
      <4> QED BY <1>0, <3>2, <3>3, <3>4, <4>1 DEF Meant
    <3>5. Asked'
      BY <3>2, <3>3, <3>4, Senders DEF True, Asked
    <3>6. Answered'
      BY <3>2, <3>4, Senders DEF True, Answered
    <3> QED BY <3>2, <3>3, <3>5, <3>6, OnTheWires
  <2>3. ASSUME LogOff(p) \/ LogIn(p) PROVE True'
    <3>1. UNCHANGED <<seq, outbox, sending, job, link, back, hits, told, gameInbox>>
      BY <2>3 DEF LogOff, LogIn, wires, history
    <3> QED BY <3>1, JobsEnd
  <2>4. ASSUME Return(p) PROVE True'
    <3>1. /\ UNCHANGED <<seq, outbox, sending, link, back, hits, gameInbox>>
          /\ job' = [job EXCEPT ![p] = NoJob]
      BY <2>4 DEF Return, wires
    <3>2. job'[p] = NoJob /\ \A q \in Players : job'[q] \in {job[q], NoJob}
      BY <3>1 DEF TypeOK
    <3>3. \/ told' = told
          \/ /\ HasHit(p)
             /\ told' = told \union {[job |-> job[p].id, answer |-> job[p].result,
                                      player |-> p, target |-> job[p].target]}
      BY <2>4 DEF Return, HasHit
    <3> QED BY <3>1, <3>2, <3>3, JobsEnd
  <2>5. ASSUME TimeOut(p) PROVE True'
    <3>1. /\ UNCHANGED <<seq, outbox, sending, link, back, hits, told, gameInbox>>
          /\ job' = [job EXCEPT ![p] = NoJob]
      BY <2>5 DEF TimeOut, wires, history
    <3>2. \A q \in Players : job'[q] \in {job[q], NoJob}
      BY <3>1 DEF TypeOK
    <3> QED BY <3>1, <3>2, JobsEnd
  <2> QED BY <1>1, <2>1, <2>2, <2>3, <2>4, <2>5 DEF Client
<1>2. ASSUME Sends PROVE True'
  <2>1. ASSUME NEW m \in sending, SendFails(m) PROVE True'
    <3>1. /\ UNCHANGED <<seq, outbox, link, back, hits, told, gameInbox>>
          /\ sending' \subseteq sending
          /\ \A q \in Players : job'[q] \in {job[q], NoJob}
      BY <2>1 DEF SendFails, wires, history
    <3> QED BY <3>1, JobsEnd
  <2>2. ASSUME NEW m \in outbox, GiveUp(m) PROVE True'
    <3>1. /\ UNCHANGED <<seq, job, sending, link, back, hits, told, gameInbox>>
          /\ outbox' \subseteq outbox
      BY <2>2 DEF GiveUp, wires, history
    <3>2. Asked' /\ Answered'
      BY <3>1 DEF True, Asked, Answered, Meant
    <3> QED BY <3>1, <3>2, OnTheWires
  <2>3. ASSUME NEW m \in sending \union outbox, Transmit(m),
               UNCHANGED <<seq, job, back, hits, told, gameInbox>>, sending' \subseteq sending
        PROVE  True'
    <3>1. /\ link' = Append(link, m) /\ (sending \union outbox)' \subseteq sending \union outbox
          /\ link \in Seq(Request) /\ m \in Request
      BY <2>3 DEF Transmit, TypeOK
    <3>2. \A i \in DOMAIN link' : link'[i] = m \/ (i \in DOMAIN link /\ link'[i] = link[i])
      BY <3>1
    <3>3. \A x : Meant(x, seq', job') <=> Meant(x, seq, job)
      BY <2>3 DEF Meant
    <3>4. Asked' /\ Answered'
      BY <2>3, <3>1, <3>2, <3>3 DEF True, Asked, Answered
    <3> QED BY <2>3, <3>4, OnTheWires
  <2> QED BY <1>2, <2>1, <2>2, <2>3 DEF Sends, Send, Resend, history
<1>3. ASSUME HandleRequest PROVE True'
  <2> DEFINE m == Head(link)
  <2>1. link # <<>> /\ m \in Request /\ m = link[1] /\ 1 \in DOMAIN link
    BY <1>3 DEF HandleRequest, TypeOK
  <2>2. DropRequest(m) \/ HandleAttack(m) \/ HandlePickup(m) \/ HandleEnter(m) \/ HandleLeave(m)
    BY <1>3 DEF HandleRequest
  <2>3. \A i \in DOMAIN Tail(link) : i + 1 \in DOMAIN link /\ Tail(link)[i] = link[i + 1]
    BY <2>1 DEF TypeOK
  <2>4. m.kind = "attack" => Meant(m, seq, job)
    BY <2>1 DEF True, Asked
  <2> HIDE DEF m
  <2>5. UNCHANGED gameVars /\ told' = told /\ link' = Tail(link)
    BY <2>2 DEF DropRequest, HandleAttack, HandlePickup, HandleEnter, HandleLeave,
                Receive, history
  <2>6. \A x : Meant(x, seq', job') <=> Meant(x, seq, job)
    BY <2>5 DEF Meant, gameVars
  <2>7. Asked'
    BY <2>3, <2>5, <2>6 DEF True, Asked, gameVars
  <2>8. ASSUME hits' = hits, back' = back \/ \E g \in Grant : back' = Append(back, g)
        PROVE  True'
    <3>1. \A g \in Grant : g.type # "answer"
      BY DEF Grant
    <3>2. \A i \in DOMAIN back' : back'[i].type = "answer" =>
            i \in DOMAIN back /\ back'[i] = back[i]
      <4>1. back \in Seq(Reply) /\ Grant \subseteq Reply
        BY DEF TypeOK, Reply
      <4> QED BY <2>8, <3>1, <4>1, AppendAt
    <3>3. Answered'
      BY <2>6, <2>8, <3>2 DEF True, Answered
    <3> QED BY <2>5, <2>7, <2>8, <3>3, OnTheWires DEF gameVars
  <2>9. ASSUME HandleAttack(m) PROVE True'
    <3>1. AnswerTo(m, TRUE) \in Answer /\ AnswerTo(m, FALSE) \in Answer
      BY <2>1, AnswerTyped
    <3>2. PICK ok \in BOOLEAN : /\ ok => Hit(m)
                                /\ hits \subseteq hits'
                                /\ \E q \in Seq(Answer \union Grant) :
                                     /\ q = back \/ \E g \in Grant : q = Append(back, g)
                                     /\ back' = Append(q, AnswerTo(m, ok))
      <4>1. CASE Miss(m)
        BY <4>1 DEF Miss, TypeOK
      <4>2. CASE Wound(m) \/ Fell(m)
        BY <4>2 DEF Wound, Fell, Hit, TypeOK
      <4>3. ASSUME NEW n \in 0 .. MaxDrop, Slay(m, n)
            PROVE  \E g \in Grant : /\ Hit(m)
                                    /\ Append(back, g) \in Seq(Answer \union Grant)
                                    /\ back' = Append(Append(back, g), AnswerTo(m, TRUE))
        <5>1. m.player \in Players /\ m.target \in Objects /\ grants < MaxGrant
          BY <2>1, <4>3, OnMap DEF Slay, MonsterDies, Owe, TypeOK, Request
        <5>2. GrantTo(m.player, m.target, "attr") \in Grant
          BY <5>1, GrantTyped
        <5>3. Append(back, GrantTo(m.player, m.target, "attr")) \in Seq(Answer \union Grant)
          <6>1. back \in Seq(Answer \union Grant)
            BY DEF TypeOK
          <6> QED BY <5>2, <6>1
        <5> QED BY <4>3, <5>2, <5>3 DEF Slay
      <4>4. CASE \E n \in 0 .. MaxDrop : Slay(m, n)
        BY <4>3, <4>4 DEF Hit
      <4> QED BY <2>9, <4>1, <4>2, <4>4 DEF HandleAttack
    <3>3. PICK q \in Seq(Answer \union Grant) :
             /\ q = back \/ \E g \in Grant : q = Append(back, g)
             /\ back' = Append(q, AnswerTo(m, ok))
      BY <3>2
    <3>4. \A g \in Grant : g.type # "answer"
      BY DEF Grant
    <3>5. \A i \in DOMAIN q : q[i].type = "answer" => i \in DOMAIN back /\ q[i] = back[i]
      <4>1. back \in Seq(Reply) /\ Grant \subseteq Reply
        BY DEF TypeOK, Reply
      <4> QED BY <3>3, <3>4, <4>1, AppendAt
    <3>6. \A i \in DOMAIN back' : back'[i] = AnswerTo(m, ok) \/ (i \in DOMAIN q /\ back'[i] = q[i])
      BY <3>3
    <3>7. /\ AnswerTo(m, ok).id = m.id /\ AnswerTo(m, ok).player = m.player
          /\ AnswerTo(m, ok).target = m.target /\ AnswerTo(m, ok).ok = ok
      BY DEF AnswerTo
    <3>8. Meant(AnswerTo(m, ok), seq', job')
      BY <2>4, <2>6, <2>9, <3>7 DEF HandleAttack, Meant
    <3>9. ok => [id |-> m.id, player |-> m.player, target |-> m.target] \in hits'
      BY <3>2 DEF Hit
    <3>10. ASSUME NEW i \in DOMAIN back', back'[i].type = "answer"
           PROVE  /\ Meant(back'[i], seq', job')
                  /\ back'[i].ok => [id |-> back'[i].id, player |-> back'[i].player,
                                     target |-> back'[i].target] \in hits'
      <4>1. CASE back'[i] = AnswerTo(m, ok)
        BY <3>7, <3>8, <3>9, <4>1
      <4>2. CASE i \in DOMAIN q /\ back'[i] = q[i]
        BY <2>6, <3>2, <3>5, <3>10, <4>2 DEF True, Answered
      <4> QED BY <3>6, <4>1, <4>2
    <3>11. Answered'
      BY <3>10 DEF Answered
    <3> QED BY <2>5, <2>7, <3>2, <3>11, OnTheWires DEF gameVars
  <2>10. ASSUME HandlePickup(m) PROVE True'
    <3>1. ASSUME NEW o \in items, Find(m, o)
          PROVE  \E g \in Grant : back' = Append(back, g)
      <4>1. m.player \in Players /\ o \in Objects /\ grants < MaxGrant
        BY <2>1, <3>1, OnMap DEF Find, Owe, TypeOK, Request
      <4> QED BY <3>1, <4>1, GrantTyped DEF Find
    <3> QED BY <2>8, <2>10, <3>1 DEF HandlePickup
  <2>11. ASSUME DropRequest(m) \/ HandleEnter(m) \/ HandleLeave(m) PROVE True'
    BY <2>8, <2>11 DEF DropRequest, HandleEnter, HandleLeave, history
  <2> QED BY <2>2, <2>9, <2>10, <2>11
<1>4. ASSUME HandleReply PROVE True'
  <2> DEFINE r == Head(back)
  <2>1. back # <<>> /\ r \in Answer \union Grant /\ r = back[1] /\ 1 \in DOMAIN back
    BY <1>4 DEF HandleReply, TypeOK
  <2>2. DropReply(r) \/ HandleAnswer(r) \/ HandleGrant(r)
    BY <1>4 DEF HandleReply
  <2>3. \A i \in DOMAIN Tail(back) : i + 1 \in DOMAIN back /\ Tail(back)[i] = back[i + 1]
    BY <2>1 DEF TypeOK
  <2>4. r.type = "answer" =>
          /\ r \in Answer /\ Meant(r, seq, job)
          /\ r.ok => [id |-> r.id, player |-> r.player, target |-> r.target] \in hits
    BY <2>1, Senders DEF True, Answered
  <2> HIDE DEF r
  <2>5. UNCHANGED <<seq, outbox, sending, link, hits, told>> /\ back' = Tail(back)
    BY <2>2 DEF DropReply, HandleAnswer, HandleGrant, Arrive, gameVars, history
  <2>6. ASSUME \A x : Meant(x, seq, job) /\ x.player \in Players => Meant(x, seq', job')
        PROVE  Asked' /\ Answered'
    <3>1. Asked'
      BY <2>5, <2>6, Senders DEF True, Asked
    <3>2. ASSUME NEW i \in DOMAIN back', back'[i].type = "answer"
          PROVE  /\ Meant(back'[i], seq', job')
                 /\ back'[i].ok => [id |-> back'[i].id, player |-> back'[i].player,
                                    target |-> back'[i].target] \in hits'
      <4>1. i + 1 \in DOMAIN back /\ back'[i] = back[i + 1]
        BY <2>3, <2>5
      <4>2. /\ Meant(back[i + 1], seq, job) /\ back[i + 1].player \in Players
            /\ back[i + 1].ok => [id |-> back[i + 1].id, player |-> back[i + 1].player,
                                  target |-> back[i + 1].target] \in hits
        BY <3>2, <4>1, Senders DEF True, Answered
      <4> QED BY <2>5, <2>6, <4>1, <4>2
    <3> QED BY <3>1, <3>2 DEF Answered
  <2>7. ASSUME DropReply(r) \/ HandleGrant(r) PROVE True'
    <3>1. job' = job /\ gameInbox \subseteq gameInbox'
      BY <2>7 DEF DropReply, HandleGrant, Note, gameVars
    <3>2. Asked' /\ Answered'
      BY <2>5, <2>6, <3>1 DEF Meant
    <3> QED BY <2>5, <3>1, <3>2 DEF True, Taken, ToldTrue, HasHit
  <2>8. ASSUME HandleAnswer(r) PROVE True'
    <3> DEFINE Got(p) == Waits(p, r) /\ job[p].result = "none"
    <3>1. /\ r.type = "answer" /\ r.id \notin gameInbox
          /\ gameInbox' = gameInbox \union {r.id}
          /\ job' = [p \in Players |-> IF Got(p)
               THEN [job[p] EXCEPT !.result = IF r.ok THEN r.id ELSE "failed"]
               ELSE job[p]]
      BY <2>8 DEF HandleAnswer, Known, Note
    <3>2. ASSUME NEW p \in Players, Got(p)
          PROVE  /\ job'[p].id = job[p].id /\ job'[p].target = job[p].target
                 /\ job'[p].result = IF r.ok THEN r.id ELSE "failed"
                 /\ p = r.player /\ job[p] # NoJob
      BY <3>1, <3>2 DEF Waits, TypeOK, Job
    <3>3. \A p \in Players : ~ Got(p) => job'[p] = job[p]
      BY <3>1
    <3>4. ASSUME NEW x, Meant(x, seq, job), x.player \in Players PROVE Meant(x, seq', job')
      BY <2>5, <3>2, <3>3, <3>4 DEF Meant
    <3>5. Asked' /\ Answered'
      BY <2>6, <3>4
    <3>6. ASSUME NEW p \in Players, HasHit(p)'
          PROVE  \/ HasHit(p) /\ job'[p] = job[p] /\ job[p].result # r.id
                 \/ /\ p = r.player /\ job'[p].result = r.id
                    /\ [id |-> r.id, player |-> p, target |-> job'[p].target] \in hits
      <4>1. CASE ~ Got(p)
        <5>1. job'[p] = job[p] /\ HasHit(p)
          BY <3>3, <3>6, <4>1 DEF HasHit
        <5> QED BY <3>1, <5>1 DEF True, Taken
      <4>2. CASE Got(p)
        <5>1. job'[p].result = r.id /\ r.ok
          BY <3>2, <3>6, <4>2 DEF HasHit
        <5>2. job[p].target = r.target
          BY <2>4, <3>1, <3>2, <4>2 DEF Waits, Meant
        <5> QED BY <2>4, <3>1, <3>2, <4>2, <5>1, <5>2
      <4> QED BY <4>1, <4>2
    <3>7. \A t \in told : t.answer # r.id
      BY <3>1 DEF True, Taken
    <3> HIDE DEF Got
    <3>8. ASSUME NEW p \in Players, HasHit(p)'
          PROVE  /\ [id |-> job'[p].result, player |-> p, target |-> job'[p].target] \in hits
                 /\ job'[p].result \in gameInbox'
                 /\ \A t \in told : t.answer # job'[p].result
                 /\ \A q \in Players : HasHit(q)' /\ job'[q].result = job'[p].result => q = p
      <4>1. CASE HasHit(p) /\ job'[p] = job[p] /\ job[p].result # r.id
        <5>1. /\ [id |-> job[p].result, player |-> p, target |-> job[p].target] \in hits
              /\ job[p].result \in gameInbox
              /\ \A t \in told : t.answer # job[p].result
          BY <4>1 DEF True, Taken
        <5>2. ASSUME NEW q \in Players, HasHit(q)', job'[q].result = job'[p].result
              PROVE  q = p
          <6>1. HasHit(q) /\ job'[q] = job[q]
            BY <3>6, <4>1, <5>2
          <6> QED BY <4>1, <5>2, <6>1 DEF True, Taken
        <5>3. job[p].result \in gameInbox'
          BY <3>1, <5>1
        <5>4. /\ [id |-> job'[p].result, player |-> p, target |-> job'[p].target] \in hits
              /\ job'[p].result \in gameInbox'
              /\ \A t \in told : t.answer # job'[p].result
          <6>1. job'[p] = job[p]
            BY <4>1
          <6> QED BY <5>1, <5>3, <6>1, Zenon
        <5> QED BY <5>2, <5>4
      <4>2. CASE /\ p = r.player /\ job'[p].result = r.id
                 /\ [id |-> r.id, player |-> p, target |-> job'[p].target] \in hits
        <5>1. \A q \in Players : HasHit(q)' /\ job'[q].result = job'[p].result => q = p
          BY <3>6, <4>2
        <5> QED BY <3>1, <3>7, <4>2, <5>1
      <4> QED BY <3>6, <3>8, <4>1, <4>2
    <3>9. Taken'
      BY <2>5, <3>1, <3>8 DEF True, Taken, ToldTrue
    <3> QED BY <3>5, <3>9 DEF True
  <2> QED BY <2>2, <2>7, <2>8
<1>5. ASSUME MapLives \/ Reconnect \/ UNCHANGED vars PROVE True'
  <2>1. UNCHANGED <<seq, outbox, sending, job, link, back, hits, told, gameInbox>>
    BY <1>5 DEF MapLives, Reconnect, vars, gameVars, wires, history
  <2> QED BY <2>1, JobsEnd
<1>6. ASSUME Break PROVE True'
  <2>1. /\ UNCHANGED <<seq, outbox, sending, job, hits, told, gameInbox>>
        /\ link' = <<>> /\ back' = <<>>
    BY <1>6 DEF Break, gameVars
  <2>2. Asked' /\ Answered'
    BY <2>1 DEF True, Asked, Answered, Meant
  <2> QED BY <2>1, <2>2, OnTheWires
<1> QED BY <1>1, <1>2, <1>3, <1>4, <1>5, <1>6 DEF Next

-----------------------------------------------------------------------------
\* The variables keep their types: what is waiting, on its way, seen and owed.
THEOREM CombatTyped == Spec => []TypeOK
  BY InitTyped, CombatTyping, PTL DEF Spec

\* Whatever the requests and the connection do, the map takes steps of its own:
\* what MapWorld promises, it promises to the players of a GameServer.
THEOREM CombatImplementsWorld == Spec => WorldSpec
<1>1. Init => WorldInit
  BY DEF Init
<1> QED BY <1>1, MapSteps, CombatTyped, PTL DEF Spec, WorldSpec

\* A spawn point counts what it has made and what has not died.
THEOREM WorldCounts == WorldSpec => []PointsCounted
<1> DEFINE Inv == WorldTypeOK /\ PointsCounted
<1>1. WorldInit => Inv
  BY WorldInitTyped, CountedInit
<1>2. Inv /\ [WorldNext]_world => Inv'
  BY WorldTyped, CountedStep
<1> QED BY <1>1, <1>2, PTL DEF WorldSpec

\* So it does with the players of a GameServer on the map.
THEOREM CombatPointsCounted == Spec => []PointsCounted
  BY CombatImplementsWorld, WorldCounts, PTL

\* A request hits, finds or moves once, however often it is sent and however late
\* it comes.
THEOREM CombatAppliedOnce == Spec => []AppliedOnce
<1> DEFINE Inv == TypeOK /\ RanIsSeen
<1>1. Init => Inv
  BY InitTyped DEF Init, RanIsSeen
<1>2. Inv /\ [Next]_vars => Inv'
  BY CombatTyping, RanOnceStep
<1>3. Inv => AppliedOnce
  BY DEF RanIsSeen, AppliedOnce
<1> QED BY <1>1, <1>2, <1>3, PTL DEF Spec

OwedInv == TypeOK /\ OneForm /\ Owed

LEMMA OwedInit == Init => OwedInv
<1> SUFFICES ASSUME Init PROVE OneForm /\ Owed
  BY InitTyped DEF OwedInv
<1>1. Paying(back) = {}
  BY DEF Init, Paying
<1>2. Goods(back) = {} /\ Numbers(back) = {} /\ Apart(back)
  BY <1>1 DEF Goods, Numbers, Apart
<1> QED BY <1>2 DEF Init, WorldInit, OneForm, Owed

LEMMA OwedAlways == OwedInv /\ [Next]_vars => OwedInv'
<1> SUFFICES ASSUME OwedInv, [Next]_vars PROVE OwedInv'
  OBVIOUS
<1>1. WorldTypeOK /\ [WorldNext]_world
  BY MapSteps DEF OwedInv, TypeOK
<1> QED BY <1>1, CombatTyping, OneFormStep, OwedStep DEF OwedInv

\* A monster pays one killer once and an item goes to one bag, and what was handed
\* out is neither lost nor still to come.
THEOREM CombatRewardedOnce == Spec => []RewardedOnce
<1>1. OwedInv => RewardedOnce
  BY Flying DEF OwedInv, Owed, RewardedOnce
<1> QED BY <1>1, OwedInit, OwedAlways, PTL DEF Spec

\* No reward is forgotten: it is on its way, in somebody's hands or lost for one of
\* the reasons the code has; and one that is taken for a repetition has the id of a
\* request of this GameServer.
THEOREM CombatRewardsAccounted == Spec => []RewardsAccounted
<1> DEFINE Inv == OwedInv /\ Fresh
<1>1. Init => Inv
  <2> SUFFICES ASSUME Init PROVE Fresh
    BY OwedInit
  <2>1. gameInbox = {} /\ earned = {} /\ repeated = {}
    BY DEF Init
  <2> QED BY <2>1 DEF Fresh, RewardsAccounted
<1>2. Inv /\ [Next]_vars => Inv'
  BY OwedAlways, FreshStep DEF OwedInv
<1>3. Inv => RewardsAccounted
  BY DEF Fresh
<1> QED BY <1>1, <1>2, <1>3, PTL DEF Spec

\* So two ServerIDs that differ are enough for what the protocols ask of request
\* ids, that none is met twice: no reward is taken for a repetition.
COROLLARY CombatRewardsKept ==
  ASSUME GameID # MapID PROVE Spec => []RewardsKept
<1>1. TypeOK /\ RewardsAccounted => RewardsKept
  <2> SUFFICES ASSUME TypeOK, RewardsAccounted PROVE repeated = {}
    BY DEF RewardsAccounted, RewardsKept
  <2>1. ASSUME NEW g \in repeated PROVE FALSE
    <3>1. g.id \in GrantID /\ g.id \in RequestID
      BY DEF TypeOK, Grant, RewardsAccounted
    <3> QED BY <3>1 DEF GrantID, RequestID
  <2> QED BY <2>1
<1> QED BY <1>1, CombatTyped, CombatRewardsAccounted, PTL

\* What an attacker is told is true, and no two reports are of one hit.
THEOREM CombatToldTrue == Spec => []ToldTrue
<1> DEFINE Inv == TypeOK /\ True
<1>1. Init => Inv
  <2> SUFFICES ASSUME Init PROVE True
    BY InitTyped
  <2>1. \A p \in Players : ~ HasHit(p)
    BY DEF Init, HasHit
  <2> QED BY <2>1 DEF Init, True, Asked, Answered, Taken, ToldTrue
<1>2. Inv /\ [Next]_vars => Inv'
  BY CombatTyping, TrueStep
<1>3. Inv => ToldTrue
  BY DEF True, Taken
<1> QED BY <1>1, <1>2, <1>3, PTL DEF Spec
=============================================================================
