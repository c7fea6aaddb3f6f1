--------------------------- MODULE ClientPathProofs --------------------------
(***************************************************************************)
(* First the lanes alone (ClientLanes): they keep the promise of one queue *)
(* per client (ClientQueue) for any number of clients, messages and lanes, *)
(* provided the reaper is Patient.  Both theorems follow from an invariant *)
(* that says which lanes may have work: only the one the table names for   *)
(* its owner.                                                              *)
(*                                                                         *)
(* Then, for any number of breaks and any size of the queues too, the      *)
(* whole path (ClientPath): it is type correct, its lanes are those of     *)
(* ClientLanes, so that a Patient reaper keeps the one queue per client    *)
(* here too, the newest session of an account stays the one it is looked   *)
(* up under (NewestMapped), and it is the only one connected (SingleLogin).*)
(* Its variables fall in two halves that meet in the link: the Gateway     *)
(* with its proxy, and GameServer with its lanes.                          *)
(*                                                                         *)
(* Last, nobody is left behind (NobodyLeftBehind): the farewell of a       *)
(* client is the last of his messages wherever they are, and a player who  *)
(* is online is bound to a client whose farewell is still to be handled.   *)
(***************************************************************************)
EXTENDS ClientPath, TLAPS

-----------------------------------------------------------------------------
(* The lanes: their inductive invariant *)

\* The table names a lane only for the client it was made for.
MadeFor == \A c \in Clients : laneOf[c] # 0 => owner[laneOf[c]] = c

Working(l) == queue[l] # <<>> \/ running[l] # Nobody

\* A lane with work is the one the table names.
WorkIsNamed ==
  \A l \in Lanes : Working(l) => owner[l] \in Clients /\ laneOf[owner[l]] = l

\* The dispatcher holds a lane the table still names.
HeldIsNamed == held # Nobody => laneOf[held.client] = held.lane

LanesInv == LanesTypeOK /\ MadeFor /\ WorkIsNamed /\ HeldIsNamed

LEMMA LanesInvInit == LanesInit => LanesInv
  BY ClientLanesAssumption
  DEF LanesInit, LanesInv, LanesTypeOK, MadeFor, WorkIsNamed, HeldIsNamed, Working,
      Lanes, Held

\* A lane nobody owns has no work.
LEMMA FreshLane ==
  ASSUME LanesInv, NEW l \in Lanes, owner[l] = Nobody
  PROVE  queue[l] = <<>> /\ running[l] = Nobody
  BY ClientLanesAssumption
  DEF ClientLanesAssumption, LanesInv, WorkIsNamed, Working

LEMMA FindLaneInv ==
  ASSUME LanesInv, NEW c \in Clients, NEW m \in Messages, FindLane(c, m)
  PROVE  LanesInv'
<1> USE ClientLanesAssumption DEF ClientLanesAssumption, Lanes
<1>1. PICK l \in Lanes :
        /\ held' = [client |-> c, message |-> m, lane |-> l]
        /\ \/ l = laneOf[c] /\ UNCHANGED <<laneOf, owner>>
           \/ /\ laneOf[c] = 0
              /\ owner[l] = Nobody
              /\ laneOf' = [laneOf EXCEPT ![c] = l]
              /\ owner' = [owner EXCEPT ![l] = c]
  BY DEF FindLane
<1>2. UNCHANGED <<queue, running>>
  BY DEF FindLane
<1>3. held' \in Held
  BY <1>1 DEF Held
<1>4. CASE l = laneOf[c] /\ UNCHANGED <<laneOf, owner>>
  BY <1>1, <1>2, <1>3, <1>4
  DEF LanesInv, LanesTypeOK, MadeFor, WorkIsNamed, Working, HeldIsNamed
<1>5. CASE /\ laneOf[c] = 0
           /\ owner[l] = Nobody
           /\ laneOf' = [laneOf EXCEPT ![c] = l]
           /\ owner' = [owner EXCEPT ![l] = c]
  <2>1. LanesTypeOK'
    BY <1>2, <1>3, <1>5 DEF LanesInv, LanesTypeOK
  <2>2. MadeFor'
    BY <1>5 DEF LanesInv, LanesTypeOK, MadeFor
  <2>3. ~ Working(l)
    BY <1>5, FreshLane DEF Working
  <2>4. WorkIsNamed'
    <3> SUFFICES ASSUME NEW k \in Lanes, Working(k)'
                 PROVE  owner'[k] \in Clients /\ laneOf'[owner'[k]] = k
      BY DEF WorkIsNamed
    <3>1. Working(k)
      BY <1>2 DEF Working
    <3>2. k # l /\ owner[k] \in Clients /\ laneOf[owner[k]] = k
      BY <2>3, <3>1 DEF LanesInv, WorkIsNamed
    <3>3. owner[k] # c
      BY <1>5, <3>2
    <3> QED BY <1>5, <3>2, <3>3 DEF LanesInv, LanesTypeOK
  <2>5. HeldIsNamed'
    BY <1>1, <1>5 DEF LanesInv, LanesTypeOK, HeldIsNamed
  <2> QED BY <2>1, <2>2, <2>4, <2>5 DEF LanesInv
<1> QED BY <1>1, <1>4, <1>5

\* The lane the dispatcher holds, and its client.
LEMMA HeldLane ==
  ASSUME LanesInv, held # Nobody
  PROVE  /\ held \in Held /\ held.client \in Clients /\ held.message \in Messages
         /\ held.lane \in Lanes /\ laneOf[held.client] = held.lane
         /\ owner[held.lane] = held.client
<1>1. held \in Held
  BY DEF LanesInv, LanesTypeOK
<1>2. /\ held.client \in Clients /\ held.message \in Messages /\ held.lane \in Lanes
  BY <1>1 DEF Held
<1>3. laneOf[held.client] = held.lane
  BY DEF LanesInv, HeldIsNamed
<1> QED BY <1>1, <1>2, <1>3 DEF LanesInv, MadeFor, Lanes

LEMMA EnqueueInv ==
  ASSUME LanesInv, Enqueue
  PROVE  LanesInv'
<1> USE ClientLanesAssumption DEF ClientLanesAssumption
<1>1. /\ held # Nobody /\ held' = Nobody
      /\ UNCHANGED <<laneOf, owner, running>>
      /\ IF Full(held.lane) THEN UNCHANGED queue
         ELSE queue' = [queue EXCEPT ![held.lane] = Append(@, held.message)]
  BY DEF Enqueue
<1>2. /\ held.client \in Clients /\ held.message \in Messages /\ held.lane \in Lanes
      /\ laneOf[held.client] = held.lane /\ owner[held.lane] = held.client
  BY <1>1, HeldLane
<1>3. queue' \in [Lanes -> Seq(Messages)]
  <2>1. queue \in [Lanes -> Seq(Messages)]
    BY DEF LanesInv, LanesTypeOK
  <2>2. Append(queue[held.lane], held.message) \in Seq(Messages)
    BY <1>2, <2>1
  <2> QED BY <1>1, <1>2, <2>1, <2>2
<1>4. \A l \in Lanes : l # held.lane => queue'[l] = queue[l]
  BY <1>1, <1>2 DEF LanesInv, LanesTypeOK
<1>5. LanesTypeOK'
  BY <1>1, <1>3 DEF LanesInv, LanesTypeOK
<1>6. MadeFor'
  BY <1>1 DEF LanesInv, MadeFor
<1>7. WorkIsNamed'
  BY <1>1, <1>2, <1>4 DEF LanesInv, WorkIsNamed, Working
<1> QED BY <1>1, <1>5, <1>6, <1>7 DEF LanesInv, HeldIsNamed

LEMMA BeginInv ==
  ASSUME LanesInv, NEW l \in Lanes, Begin(l)
  PROVE  LanesInv'
<1>1. /\ queue[l] # <<>> /\ queue[l] \in Seq(Messages)
      /\ UNCHANGED <<laneOf, owner, held>>
      /\ running' = [running EXCEPT ![l] = Head(queue[l])]
      /\ queue' = [queue EXCEPT ![l] = Tail(queue[l])]
  BY DEF Begin, LanesInv, LanesTypeOK
<1>2. Head(queue[l]) \in Messages /\ Tail(queue[l]) \in Seq(Messages)
  BY <1>1
<1>3. LanesTypeOK'
  BY <1>1, <1>2 DEF LanesInv, LanesTypeOK
<1>4. MadeFor' /\ HeldIsNamed'
  BY <1>1 DEF LanesInv, MadeFor, HeldIsNamed
<1>5. WorkIsNamed'
  BY <1>1 DEF LanesInv, LanesTypeOK, WorkIsNamed, Working
<1> QED BY <1>3, <1>4, <1>5 DEF LanesInv

LEMMA EndInv ==
  ASSUME LanesInv, NEW l \in Lanes, End(l)
  PROVE  LanesInv'
  BY DEF End, LanesInv, LanesTypeOK, MadeFor, WorkIsNamed, Working, HeldIsNamed

\* A Patient reaper takes a lane without work, which the dispatcher does not hold.
LEMMA ReapInv ==
  ASSUME Patient, LanesInv, NEW c \in Clients, Reap(c)
  PROVE  LanesInv'
<1> USE ClientLanesAssumption DEF ClientLanesAssumption, Lanes
<1>1. /\ laneOf[c] \in Lanes
      /\ laneOf' = [laneOf EXCEPT ![c] = 0]
      /\ UNCHANGED <<owner, queue, running, held>>
      /\ ~ Working(laneOf[c]) /\ ~ LookedUp(laneOf[c])
  BY DEF Reap, Idle, Working, LanesInv, LanesTypeOK
<1>2. LanesTypeOK'
  BY <1>1 DEF LanesInv, LanesTypeOK
<1>3. MadeFor'
  BY <1>1 DEF LanesInv, LanesTypeOK, MadeFor
<1>4. WorkIsNamed'
  BY <1>1 DEF LanesInv, LanesTypeOK, WorkIsNamed, Working
<1>5. HeldIsNamed'
  <2> SUFFICES ASSUME held # Nobody PROVE laneOf'[held.client] = held.lane
    BY <1>1 DEF HeldIsNamed
  <2>1. held.client # c
    BY <1>1, HeldLane DEF LookedUp
  <2> QED BY <1>1, <2>1, HeldLane DEF LanesInv, LanesTypeOK
<1> QED BY <1>2, <1>3, <1>4, <1>5 DEF LanesInv

LEMMA LanesInvNext ==
  ASSUME Patient, LanesInv, [LanesNext]_laneVars
  PROVE  LanesInv'
<1>1. ASSUME NEW c \in Clients, NEW m \in Messages, FindLane(c, m) PROVE LanesInv'
  BY <1>1, FindLaneInv
<1>2. ASSUME NEW c \in Clients, Reap(c) PROVE LanesInv'
  BY <1>2, ReapInv
<1>3. CASE Enqueue
  BY <1>3, EnqueueInv
<1>4. ASSUME NEW l \in Lanes, Begin(l) \/ End(l) PROVE LanesInv'
  BY <1>4, BeginInv, EndInv
<1>5. CASE UNCHANGED laneVars
  BY <1>5
  DEF laneVars, LanesInv, LanesTypeOK, MadeFor, WorkIsNamed, Working, HeldIsNamed
<1> QED BY <1>1, <1>2, <1>3, <1>4, <1>5 DEF LanesNext

\* Lanes that are reaped and made again never leave work on a lane the table does
\* not name.  (dispatchToLane, runLane, laneReapLoop)
THEOREM LanesInvariant ==
  ASSUME Patient
  PROVE  LanesSpec => []LanesInv
<1>1. LanesInit => LanesInv
  BY LanesInvInit
<1>2. LanesInv /\ [LanesNext]_laneVars => LanesInv'
  BY LanesInvNext
<1> QED BY <1>1, <1>2, PTL DEF LanesSpec

-----------------------------------------------------------------------------
(* The properties *)

LEMMA NamedIsOneAtATime == LanesInv => OneAtATime
  BY DEF LanesInv, WorkIsNamed, Working, OneAtATime

\* One client's messages are never handled side by side.  (client_lane.go)
THEOREM LanesOneAtATime ==
  ASSUME Patient
  PROVE  LanesSpec => []OneAtATime
  BY LanesInvariant, NamedIsOneAtATime, PTL

LEMMA FindLaneStutters ==
  ASSUME LanesInv, NEW c \in Clients, NEW m \in Messages, FindLane(c, m)
  PROVE  UNCHANGED <<Waiting, Busy>>
<1> USE ClientLanesAssumption DEF ClientLanesAssumption
<1>1. UNCHANGED <<queue, running>>
  BY DEF FindLane
<1>2. CASE UNCHANGED laneOf
  BY <1>1, <1>2 DEF Waiting, Busy
<1>3. ASSUME NEW l \in Lanes, laneOf[c] = 0, owner[l] = Nobody,
             laneOf' = [laneOf EXCEPT ![c] = l]
      PROVE  UNCHANGED <<Waiting, Busy>>
  <2>1. queue[l] = <<>> /\ running[l] = Nobody
    BY <1>3, FreshLane
  <2>2. \A d \in Clients :
          /\ (IF laneOf'[d] = 0 THEN <<>> ELSE queue'[laneOf'[d]])
               = (IF laneOf[d] = 0 THEN <<>> ELSE queue[laneOf[d]])
          /\ (IF laneOf'[d] = 0 THEN Nobody ELSE running'[laneOf'[d]])
               = (IF laneOf[d] = 0 THEN Nobody ELSE running[laneOf[d]])
    BY <1>1, <1>3, <2>1 DEF LanesInv, LanesTypeOK, Lanes
  <2> QED BY <2>2 DEF Waiting, Busy
<1> QED BY <1>2, <1>3 DEF FindLane

LEMMA EnqueueAccepts ==
  ASSUME LanesInv, Enqueue
  PROVE  \/ \E c \in Clients, m \in Messages : Promise!Accept(c, m)
         \/ UNCHANGED <<Waiting, Busy>>
<1> USE ClientLanesAssumption DEF ClientLanesAssumption
<1>1. held # Nobody /\ UNCHANGED <<laneOf, owner, running>>
  BY DEF Enqueue
<1>2. UNCHANGED Busy
  BY <1>1 DEF Busy
<1>3. CASE Full(held.lane)
  BY <1>1, <1>2, <1>3 DEF Enqueue, Waiting
<1>4. CASE ~ Full(held.lane)
  <2>1. /\ held.client \in Clients /\ held.message \in Messages /\ held.lane \in Lanes
        /\ laneOf[held.client] = held.lane /\ owner[held.lane] = held.client
    BY <1>1, HeldLane
  <2>2. queue' = [queue EXCEPT ![held.lane] = Append(@, held.message)]
    BY <1>4 DEF Enqueue
  <2>3. \A d \in Clients \ {held.client} : laneOf[d] # 0 => laneOf[d] # held.lane
    BY <2>1 DEF LanesInv, MadeFor
  <2>4. held.lane # 0
    BY <2>1 DEF Lanes
  <2>5. Waiting'[held.client] = Append(Waiting[held.client], held.message)
    BY <1>1, <2>1, <2>2, <2>4 DEF Waiting, LanesInv, LanesTypeOK
  <2>6. \A d \in Clients \ {held.client} : Waiting'[d] = Waiting[d]
    BY <1>1, <2>1, <2>2, <2>3 DEF Waiting, LanesInv, LanesTypeOK, Lanes
  <2>7. Waiting' = [Waiting EXCEPT ![held.client] = Append(@, held.message)]
    <3>1. /\ Waiting = [d \in Clients |-> Waiting[d]]
          /\ Waiting' = [d \in Clients |-> Waiting'[d]]
      BY DEF Waiting
    <3> QED BY <2>1, <2>5, <2>6, <3>1
  <2> QED BY <1>2, <2>1, <2>7 DEF Promise!Accept
<1> QED BY <1>3, <1>4

\* The client of a lane with work, and what ClientQueue sees of it.
LEMMA WorkingLane ==
  ASSUME LanesInv, NEW l \in Lanes, Working(l)
  PROVE  /\ owner[l] \in Clients /\ laneOf[owner[l]] = l /\ l # 0
         /\ Waiting[owner[l]] = queue[l] /\ Busy[owner[l]] = running[l]
         /\ \A d \in Clients \ {owner[l]} : laneOf[d] # l
<1>1. owner[l] \in Clients /\ laneOf[owner[l]] = l /\ l # 0
  BY DEF LanesInv, WorkIsNamed, Lanes
<1>2. Waiting[owner[l]] = queue[l] /\ Busy[owner[l]] = running[l]
  BY <1>1 DEF Waiting, Busy
<1>3. \A d \in Clients \ {owner[l]} : laneOf[d] # l
  BY <1>1 DEF LanesInv, MadeFor
<1> QED BY <1>1, <1>2, <1>3

LEMMA BeginBegins ==
  ASSUME LanesInv, NEW l \in Lanes, Begin(l)
  PROVE  Promise!Begin(owner[l])
<1> DEFINE c == owner[l]
<1>1. /\ running[l] = Nobody /\ queue[l] # <<>>
      /\ queue' = [queue EXCEPT ![l] = Tail(@)]
      /\ running' = [running EXCEPT ![l] = Head(queue[l])]
      /\ UNCHANGED laneOf
  BY DEF Begin
<1>2. /\ c \in Clients /\ laneOf[c] = l /\ l # 0
      /\ Waiting[c] = queue[l] /\ Busy[c] = running[l]
      /\ \A d \in Clients \ {c} : laneOf[d] # l
  BY <1>1, WorkingLane DEF Working
<1> HIDE DEF c
<1>3. Waiting' = [Waiting EXCEPT ![c] = Tail(@)]
  <2>1. Waiting'[c] = Tail(Waiting[c])
    BY <1>1, <1>2 DEF Waiting, LanesInv, LanesTypeOK
  <2>2. \A d \in Clients \ {c} : Waiting'[d] = Waiting[d]
    BY <1>1, <1>2 DEF Waiting, LanesInv, LanesTypeOK, Lanes
  <2> QED BY <1>2, <2>1, <2>2 DEF Waiting
<1>4. Busy' = [Busy EXCEPT ![c] = Head(Waiting[c])]
  <2>1. Busy'[c] = Head(Waiting[c])
    BY <1>1, <1>2 DEF Busy, LanesInv, LanesTypeOK
  <2>2. \A d \in Clients \ {c} : Busy'[d] = Busy[d]
    BY <1>1, <1>2 DEF Busy, LanesInv, LanesTypeOK, Lanes
  <2> QED BY <1>2, <2>1, <2>2 DEF Busy
<1>5. Promise!Begin(c)
  BY <1>1, <1>2, <1>3, <1>4 DEF Promise!Begin
<1> QED BY <1>5 DEF c

LEMMA EndEnds ==
  ASSUME LanesInv, NEW l \in Lanes, End(l)
  PROVE  Promise!End(owner[l])
<1> DEFINE c == owner[l]
<1>1. /\ running[l] # Nobody
      /\ running' = [running EXCEPT ![l] = Nobody]
      /\ UNCHANGED <<laneOf, queue>>
  BY DEF End
<1>2. /\ c \in Clients /\ laneOf[c] = l /\ l # 0
      /\ Busy[c] = running[l]
      /\ \A d \in Clients \ {c} : laneOf[d] # l
  BY <1>1, WorkingLane DEF Working
<1> HIDE DEF c
<1>3. Busy' = [Busy EXCEPT ![c] = Nobody]
  <2>1. Busy'[c] = Nobody
    BY <1>1, <1>2 DEF Busy, LanesInv, LanesTypeOK
  <2>2. \A d \in Clients \ {c} : Busy'[d] = Busy[d]
    BY <1>1, <1>2 DEF Busy, LanesInv, LanesTypeOK, Lanes
  <2> QED BY <1>2, <2>1, <2>2 DEF Busy
<1>4. Waiting' = Waiting
  BY <1>1 DEF Waiting
<1>5. Promise!End(c)
  BY <1>1, <1>2, <1>3, <1>4 DEF Promise!End
<1> QED BY <1>5 DEF c

LEMMA ReapStutters ==
  ASSUME Patient, LanesInv, NEW c \in Clients, Reap(c)
  PROVE  UNCHANGED <<Waiting, Busy>>
<1>1. /\ queue[laneOf[c]] = <<>> /\ running[laneOf[c]] = Nobody
      /\ laneOf' = [laneOf EXCEPT ![c] = 0]
      /\ UNCHANGED <<queue, running>>
  BY DEF Reap, Idle
<1>2. \A d \in Clients :
        /\ (IF laneOf'[d] = 0 THEN <<>> ELSE queue'[laneOf'[d]])
             = (IF laneOf[d] = 0 THEN <<>> ELSE queue[laneOf[d]])
        /\ (IF laneOf'[d] = 0 THEN Nobody ELSE running'[laneOf'[d]])
             = (IF laneOf[d] = 0 THEN Nobody ELSE running[laneOf[d]])
  BY <1>1 DEF LanesInv, LanesTypeOK
<1> QED BY <1>2 DEF Waiting, Busy

LEMMA LanesStep ==
  ASSUME Patient, LanesInv, [LanesNext]_laneVars
  PROVE  [Promise!Next]_<<Waiting, Busy>>
<1>1. ASSUME NEW c \in Clients, NEW m \in Messages, FindLane(c, m)
      PROVE  UNCHANGED <<Waiting, Busy>>
  BY <1>1, FindLaneStutters
<1>2. ASSUME NEW c \in Clients, Reap(c) PROVE UNCHANGED <<Waiting, Busy>>
  BY <1>2, ReapStutters
<1>3. ASSUME Enqueue PROVE [Promise!Next]_<<Waiting, Busy>>
  BY <1>3, EnqueueAccepts DEF Promise!Next
<1>4. ASSUME NEW l \in Lanes, Begin(l) PROVE Promise!Next
  <2>1. owner[l] \in Clients
    BY <1>4, WorkingLane DEF Begin, Working
  <2> QED BY <1>4, <2>1, BeginBegins DEF Promise!Next
<1>5. ASSUME NEW l \in Lanes, End(l) PROVE Promise!Next
  <2>1. owner[l] \in Clients
    BY <1>5, WorkingLane DEF End, Working
  <2> QED BY <1>5, <2>1, EndEnds DEF Promise!Next
<1>6. ASSUME UNCHANGED laneVars PROVE UNCHANGED <<Waiting, Busy>>
  BY <1>6 DEF laneVars, Waiting, Busy
<1> QED BY <1>1, <1>2, <1>3, <1>4, <1>5, <1>6 DEF LanesNext

\* The lanes implement one queue per client: nothing accepted is lost, overtaken or
\* repeated.  (client_lane.go)
THEOREM LanesImplementQueue ==
  ASSUME Patient
  PROVE  LanesSpec => ImplementsQueue
<1>1. LanesInit => Promise!Init
  BY DEF LanesInit, Promise!Init, Waiting, Busy
<1>2. LanesInv /\ [LanesNext]_laneVars => [Promise!Next]_<<Waiting, Busy>>
  BY LanesStep
<1> QED BY <1>1, <1>2, LanesInvariant, PTL DEF LanesSpec, ImplementsQueue, Promise!Spec

-----------------------------------------------------------------------------
(* The whole path *)

USE ClientLanesAssumption, ClientPathAssumption
    DEF ClientLanesAssumption, ClientPathAssumption

-----------------------------------------------------------------------------
(* The types of the two halves *)

GatewayTyped ==
  /\ socket \in [Clients -> BOOLEAN]
  /\ at \in [Clients -> Points]
  /\ account \in [Clients -> BOOLEAN]
  /\ mapped \in Clients \union {Nobody} /\ newest \in Clients \union {Nobody}
  /\ old \in [Clients -> Clients \union {Nobody}]
  /\ sending \in [Clients -> Messages \union {Nobody}]
  /\ sends \in [Clients -> 0 .. MaxSend]
  /\ crossed \in BOOLEAN

\* A goroutine that is sending has a message.
HasMessage == \A c \in Clients : at[c] \in {"send", "queue"} => sending[c] \in Messages

ProxyTyped ==
  /\ up \in BOOLEAN
  /\ breaks \in 0 .. MaxBreak
  /\ pending \in Seq(Mail) /\ Len(pending) <= PendingCap
  /\ flushing \in Seq(Mail) /\ link \in Seq(Mail)
  /\ lost \in BOOLEAN

PathTyped == GatewayTyped /\ HasMessage /\ ProxyTyped

PlayerTyped ==
  /\ online \in BOOLEAN
  /\ known \subseteq Clients /\ bound \subseteq Clients
  /\ step \in [Lanes -> {"begin", "add", "store", "bind", "remove"}]

\* A lane is owned wherever somebody will ask for its owner.
Owned ==
  /\ MadeFor
  /\ held # Nobody => owner[held.lane] \in Clients
  /\ \A l \in Lanes : Working(l) => owner[l] \in Clients

\* Only a handler is past its beginning.
StepsOfHandlers == \A l \in Lanes : step[l] # "begin" => running[l] # Nobody

LanesTyped == LanesTypeOK /\ Owned /\ PlayerTyped /\ StepsOfHandlers

LEMMA TypedIsTypeOK == PathTyped /\ LanesTyped => TypeOK
  BY DEF PathTyped, LanesTyped, GatewayTyped, ProxyTyped, PlayerTyped, TypeOK

LEMMA TypedInit == Init => PathTyped /\ LanesTyped
<1> SUFFICES ASSUME Init PROVE PathTyped /\ LanesTyped
  OBVIOUS
<1>1. at \in [Clients -> Points] /\ socket \in [Clients -> BOOLEAN]
  BY DEF Init, Points
<1>2. account \in [Clients -> BOOLEAN] /\ sends \in [Clients -> 0 .. MaxSend]
  BY DEF Init
<1>3. /\ old \in [Clients -> Clients \union {Nobody}]
      /\ sending \in [Clients -> Messages \union {Nobody}]
  BY DEF Init
<1>4. GatewayTyped /\ HasMessage
  BY <1>1, <1>2, <1>3 DEF Init, GatewayTyped, HasMessage
<1>5. <<>> \in Seq(Mail) /\ Len(<<>>) = 0
  OBVIOUS
<1>6. ProxyTyped
  <2>1. up = FALSE /\ lost = FALSE /\ breaks = 0 /\ 0 \in 0 .. MaxBreak
    BY DEF Init
  <2>2. pending = <<>> /\ flushing = <<>> /\ link = <<>>
    BY DEF Init
  <2>3. pending \in Seq(Mail) /\ Len(pending) <= PendingCap
    BY <1>5, <2>2
  <2>4. flushing \in Seq(Mail) /\ link \in Seq(Mail)
    BY <1>5, <2>2
  <2> QED BY <2>1, <2>3, <2>4 DEF ProxyTyped
<1>7. LanesTypeOK /\ MadeFor
  BY LanesInvInit DEF Init, LanesInv
<1>8. Owned /\ StepsOfHandlers /\ PlayerTyped
  BY <1>7 DEF Init, LanesInit, Owned, Working, StepsOfHandlers, PlayerTyped
<1> QED BY <1>4, <1>6, <1>7, <1>8 DEF PathTyped, LanesTyped

-----------------------------------------------------------------------------
(* The half of the Gateway *)

LEMMA GatewayStepTyped ==
  ASSUME PathTyped, NEW c \in Clients, GatewayStep(c)
  PROVE  PathTyped'
<1>1. UNCHANGED <<proxyVars, lost>>
  BY DEF GatewayStep
<1>2. ProxyTyped'
  BY <1>1 DEF PathTyped, ProxyTyped, proxyVars
<1> SUFFICES GatewayTyped' /\ HasMessage'
  BY <1>2 DEF PathTyped
<1> USE DEF PathTyped, GatewayTyped, HasMessage, Points, Goto, Send
<1>3. CASE Connect(c)
  BY <1>3 DEF Connect
<1>4. CASE HangUp(c)
  BY <1>4 DEF HangUp
<1>5. CASE Verify(c)
  BY <1>5 DEF Verify
<1>6. CASE Store(c)
  BY <1>6 DEF Store
<1>7. CASE Kick(c)
  BY <1>7 DEF Kick
<1>8. CASE Forward(c, "enter") \/ Forward(c, "leave")
  BY <1>8 DEF Forward
<1>9. CASE OnClose(c)
  BY <1>9 DEF OnClose, Farewell
<1>10. CASE RemoveSession(c)
  BY <1>10 DEF RemoveSession
<1>11. CASE Unmap(c)
  BY <1>11 DEF Unmap
<1> QED
  BY <1>3, <1>4, <1>5, <1>6, <1>7, <1>8, <1>9, <1>10, <1>11 DEF GatewayStep

LEMMA SentTyped ==
  ASSUME PathTyped, NEW c \in Clients, Sent(c)
  PROVE  GatewayTyped' /\ HasMessage'
  BY DEF Sent, Goto, PathTyped, GatewayTyped, HasMessage, Points

LEMMA SendStepTyped ==
  ASSUME PathTyped, NEW c \in Clients, SendStep(c)
  PROVE  PathTyped'
<1>1. at[c] \in {"send", "queue"} => Packet(c) \in Mail
  BY DEF PathTyped, HasMessage, Packet, Mail
<1>2. CASE SendDirect(c)
  <2>1. link' \in Seq(Mail)
    BY <1>1, <1>2 DEF SendDirect, PathTyped, ProxyTyped
  <2>2. ProxyTyped'
    BY <1>2, <2>1 DEF SendDirect, PathTyped, ProxyTyped, Older
  <2> QED BY <1>2, <2>2, SentTyped DEF SendDirect, PathTyped
<1>3. CASE FindDown(c)
  BY <1>3
  DEF FindDown, Goto, PathTyped, GatewayTyped, HasMessage, Points, ProxyTyped, proxyVars
<1>4. CASE AddPending(c)
  <2>1. pending' \in Seq(Mail) /\ Len(pending') <= PendingCap
    <3>1. CASE PendingFull
      BY <1>4, <3>1 DEF AddPending, PathTyped, ProxyTyped
    <3>2. CASE ~ PendingFull
      <4>1. /\ pending' = Append(pending, Packet(c)) /\ Packet(c) \in Mail
            /\ pending \in Seq(Mail) /\ Len(pending) < PendingCap
        BY <1>1, <1>4, <3>2 DEF AddPending, PendingFull, PathTyped, ProxyTyped
      <4> QED BY <4>1
    <3> QED BY <3>1, <3>2
  <2>2. ProxyTyped'
    BY <1>4, <2>1 DEF AddPending, PathTyped, ProxyTyped, PendingFull
  <2> QED BY <1>4, <2>2, SentTyped DEF AddPending, PathTyped
<1> QED BY <1>2, <1>3, <1>4 DEF SendStep

LEMMA ProxyStepTyped ==
  ASSUME PathTyped, ProxyStep
  PROVE  PathTyped'
<1>1. GatewayTyped' /\ HasMessage'
  BY DEF ProxyStep, PathTyped, GatewayTyped, HasMessage, gatewayVars
<1>2. CASE Reconnect
  BY <1>1, <1>2 DEF Reconnect, PathTyped, ProxyTyped
<1>3. CASE Break
  <2>1. up' \in BOOLEAN /\ lost' \in BOOLEAN
    BY <1>3 DEF Break, PathTyped, ProxyTyped
  <2>2. breaks' \in 0 .. MaxBreak
    BY <1>3 DEF Break, PathTyped, ProxyTyped
  <2>3. link' \in Seq(Mail)
    BY <1>3 DEF Break
  <2> QED BY <1>1, <1>3, <2>1, <2>2, <2>3 DEF Break, PathTyped, ProxyTyped
<1>4. CASE FlushOne
  <2>1. flushing # <<>> /\ flushing \in Seq(Mail) /\ link \in Seq(Mail)
    BY <1>4 DEF FlushOne, PathTyped, ProxyTyped
  <2>2. /\ Tail(flushing) \in Seq(Mail)
        /\ Append(link, Head(flushing)) \in Seq(Mail)
    BY <2>1
  <2> QED BY <1>1, <1>4, <2>1, <2>2 DEF FlushOne, PathTyped, ProxyTyped
<1> QED BY <1>2, <1>3, <1>4 DEF ProxyStep

\* The steps of GameServer: all they do to this half is to take a packet.
LaneMove == Dispatch \/ Receive \/ Reaper \/ \E l \in Lanes : LaneBegin(l) \/ Handle(l)

LEMMA LaneMoveTakes ==
  ASSUME PathTyped, LaneMove
  PROVE  /\ UNCHANGED <<gatewayVars, up, breaks, pending, flushing>>
         /\ link' = link \/ (link # <<>> /\ link' = Tail(link))
         /\ lost' \in BOOLEAN
  BY DEF PathTyped, ProxyTyped, LaneMove, Dispatch, Receive, Reaper, LaneBegin, Handle,
         gatewayVars, proxyVars, Full

LEMMA PathTypedNext ==
  ASSUME PathTyped, [Next]_vars
  PROVE  PathTyped'
<1>1. ASSUME NEW c \in Clients, GatewayStep(c) \/ SendStep(c) PROVE PathTyped'
  BY <1>1, GatewayStepTyped, SendStepTyped
<1>2. CASE ProxyStep
  BY <1>2, ProxyStepTyped
<1>3. CASE LaneMove
  <2>1. GatewayTyped' /\ HasMessage'
    BY <1>3, LaneMoveTakes DEF PathTyped, GatewayTyped, HasMessage, gatewayVars
  <2>2. link \in Seq(Mail) /\ (link # <<>> => Tail(link) \in Seq(Mail))
    BY DEF PathTyped, ProxyTyped
  <2>3. ProxyTyped'
    BY <1>3, <2>2, LaneMoveTakes DEF PathTyped, ProxyTyped
  <2> QED BY <2>1, <2>3 DEF PathTyped
<1>4. CASE UNCHANGED vars
  BY <1>4
  DEF vars, gatewayVars, proxyVars, PathTyped, GatewayTyped, HasMessage, ProxyTyped
<1> QED BY <1>1, <1>2, <1>3, <1>4 DEF Next, LaneMove

-----------------------------------------------------------------------------
(* The half of the lanes *)

\* What a packet on the link is dispatched with.
LEMMA ReceiveFinds ==
  ASSUME PathTyped, Receive
  PROVE  \E c \in Clients, m \in Messages : FindLane(c, m)
<1>1. Head(link) \in Mail
  BY DEF Receive, PathTyped, ProxyTyped
<1>2. Head(link).client \in Clients /\ Head(link).message \in Messages
  BY <1>1 DEF Mail
<1> QED BY <1>2 DEF Receive

LEMMA HandleLane ==
  ASSUME NEW l \in Lanes, Handle(l)
  PROVE  End(l) \/ UNCHANGED laneVars
  BY DEF Handle, HandleLogin, HandleEnter, EnterAdd, EnterStore, EnterBind, HandleLeave, LeaveRemove,
         Return, Continue

\* Every step is one of the lanes, or leaves them alone.
LEMMA LaneStep ==
  ASSUME PathTyped, [Next]_vars
  PROVE  [LanesNext]_laneVars
<1>1. CASE Dispatch
  BY <1>1 DEF Dispatch, LanesNext
<1>2. ASSUME NEW l \in Lanes, LaneBegin(l) PROVE LanesNext
  BY <1>2 DEF LaneBegin, LanesNext
<1>3. ASSUME NEW c \in Clients, GatewayStep(c) \/ SendStep(c) PROVE UNCHANGED laneVars
  BY <1>3 DEF GatewayStep, SendStep, laneVars
<1>4. CASE ProxyStep
  BY <1>4 DEF ProxyStep, laneVars
<1>5. CASE Receive
  BY <1>5, ReceiveFinds DEF LanesNext
<1>6. ASSUME NEW l \in Lanes, Handle(l) PROVE [LanesNext]_laneVars
  BY <1>6, HandleLane DEF LanesNext
<1>7. CASE Reaper
  BY <1>7 DEF Reaper, LanesNext
<1>8. CASE UNCHANGED vars
  BY <1>8 DEF vars, laneVars
<1> QED BY <1>1, <1>2, <1>3, <1>4, <1>5, <1>6, <1>7, <1>8 DEF Next

\* Types and owners of the lanes do not depend on the patience of the reaper.
LEMMA LanesTypedNext ==
  ASSUME LanesTypeOK, Owned, [LanesNext]_laneVars
  PROVE  LanesTypeOK' /\ Owned'
<1> USE DEF LanesTypeOK, Owned, MadeFor, Working
<1>1. ASSUME NEW c \in Clients, NEW m \in Messages, FindLane(c, m)
      PROVE  LanesTypeOK' /\ Owned'
  <2>1. PICK l \in Lanes :
          /\ held' = [client |-> c, message |-> m, lane |-> l]
          /\ \/ l = laneOf[c] /\ UNCHANGED <<laneOf, owner>>
             \/ /\ laneOf[c] = 0
                /\ owner[l] = Nobody
                /\ laneOf' = [laneOf EXCEPT ![c] = l]
                /\ owner' = [owner EXCEPT ![l] = c]
    BY <1>1 DEF FindLane
  <2>2. held = Nobody /\ UNCHANGED <<queue, running>> /\ held' \in Held
    BY <1>1, <2>1 DEF FindLane, Held
  <2>3. CASE l = laneOf[c] /\ UNCHANGED <<laneOf, owner>>
    <3>1. l # 0
      BY DEF Lanes
    <3>2. owner[l] = c
      BY <2>3, <3>1
    <3> QED BY <2>1, <2>2, <2>3, <3>2
  <2>4. CASE /\ laneOf[c] = 0 /\ owner[l] = Nobody
             /\ laneOf' = [laneOf EXCEPT ![c] = l]
             /\ owner' = [owner EXCEPT ![l] = c]
    <3>1. laneOf' \in [Clients -> 0 .. MaxLane]
      BY <2>4 DEF Lanes
    <3>2. owner' \in [Lanes -> Clients \union {Nobody}]
      BY <2>4
    <3>3. LanesTypeOK'
      BY <2>2, <3>1, <3>2
    <3>4. owner'[l] = c /\ \A k \in Lanes : k # l => owner'[k] = owner[k]
      BY <2>4
    <3>5. ASSUME NEW d \in Clients, laneOf[d] # 0
          PROVE  laneOf[d] \in Lanes /\ laneOf[d] # l
      <4>1. laneOf[d] \in 0 .. MaxLane /\ owner[laneOf[d]] = d /\ d # Nobody
        BY <3>5
      <4>2. owner[l] = Nobody
        BY <2>4
      <4> QED BY <3>5, <4>1, <4>2, SMTT(30) DEF Lanes
    <3>6. MadeFor'
      BY <2>4, <3>4, <3>5
    <3> QED BY <2>1, <2>2, <3>3, <3>4, <3>6
  <2> QED BY <2>1, <2>3, <2>4
<1>2. ASSUME NEW c \in Clients, Reap(c) PROVE LanesTypeOK' /\ Owned'
  BY <1>2 DEF Reap
<1>3. CASE Enqueue
  <2>1. held.lane \in Lanes /\ held.message \in Messages /\ owner[held.lane] \in Clients
    BY <1>3 DEF Enqueue, Held
  <2>2. Append(queue[held.lane], held.message) \in Seq(Messages)
    BY <2>1
  <2>3. /\ queue' \in [Lanes -> Seq(Messages)]
        /\ \A l \in Lanes : l # held.lane => queue'[l] = queue[l]
    BY <1>3, <2>1, <2>2, ZenonT(30) DEF Enqueue
  <2> QED BY <1>3, <2>1, <2>3 DEF Enqueue
<1>4. ASSUME NEW l \in Lanes, Begin(l) PROVE LanesTypeOK' /\ Owned'
  <2>1. queue[l] # <<>> /\ queue[l] \in Seq(Messages)
    BY <1>4 DEF Begin
  <2>2. Head(queue[l]) \in Messages /\ Tail(queue[l]) \in Seq(Messages)
    BY <2>1
  <2> QED BY <1>4, <2>1, <2>2 DEF Begin
<1>5. ASSUME NEW l \in Lanes, End(l) PROVE LanesTypeOK' /\ Owned'
  BY <1>5 DEF End
<1>6. CASE UNCHANGED laneVars
  BY <1>6 DEF laneVars
<1> QED BY <1>1, <1>2, <1>3, <1>4, <1>5, <1>6 DEF LanesNext

LEMMA HandleTyped ==
  ASSUME LanesTyped, NEW l \in Lanes, Handle(l)
  PROVE  PlayerTyped' /\ StepsOfHandlers'
<1> USE DEF LanesTyped, LanesTypeOK, PlayerTyped, StepsOfHandlers
<1>1. running[l] # Nobody => owner[l] \in Clients
  BY DEF Owned, Working
<1>2. ASSUME Return(l) PROVE /\ step' \in [Lanes -> {"begin", "add", "store", "bind", "remove"}]
                             /\ StepsOfHandlers'
  BY <1>2 DEF Return, End
<1>3. ASSUME NEW point \in {"add", "store", "bind", "remove"}, Continue(l, point), running[l] # Nobody
      PROVE  /\ step' \in [Lanes -> {"begin", "add", "store", "bind", "remove"}]
             /\ StepsOfHandlers'
  BY <1>3 DEF Continue, laneVars
<1>4. CASE HandleLogin(l)
  BY <1>1, <1>2, <1>4 DEF HandleLogin
<1>5. CASE HandleEnter(l)
  BY <1>1, <1>2, <1>3, <1>5 DEF HandleEnter
<1>6. CASE EnterAdd(l)
  BY <1>2, <1>3, <1>6 DEF EnterAdd
<1>10. CASE EnterStore(l)
  BY <1>2, <1>3, <1>10 DEF EnterStore
<1>7. CASE EnterBind(l)
  BY <1>1, <1>2, <1>7 DEF EnterBind
<1>8. CASE HandleLeave(l)
  BY <1>2, <1>3, <1>8 DEF HandleLeave
<1>9. CASE LeaveRemove(l)
  BY <1>2, <1>9 DEF LeaveRemove
<1> QED BY <1>4, <1>5, <1>6, <1>7, <1>8, <1>9, <1>10 DEF Handle

LEMMA LanesTypedStep ==
  ASSUME PathTyped, LanesTyped, [Next]_vars
  PROVE  LanesTyped'
<1>1. LanesTypeOK' /\ Owned'
  BY LaneStep, LanesTypedNext DEF LanesTyped
<1> SUFFICES PlayerTyped' /\ StepsOfHandlers'
  BY <1>1 DEF LanesTyped
<1> USE DEF LanesTyped, PlayerTyped, StepsOfHandlers, playerVars
<1>2. ASSUME NEW l \in Lanes, LaneBegin(l) PROVE PlayerTyped' /\ StepsOfHandlers'
  <2>1. Head(queue[l]) \in Messages
    BY <1>2 DEF LaneBegin, Begin, LanesTypeOK
  <2> QED BY <1>2, <2>1 DEF LaneBegin, Begin, LanesTypeOK
<1>3. ASSUME NEW l \in Lanes, Handle(l) PROVE PlayerTyped' /\ StepsOfHandlers'
  BY <1>3, HandleTyped
<1>4. ASSUME UNCHANGED <<playerVars, running>> PROVE PlayerTyped' /\ StepsOfHandlers'
  BY <1>4
<1>5. ASSUME NEW c \in Clients, GatewayStep(c) \/ SendStep(c)
      PROVE  UNCHANGED <<playerVars, running>>
  BY <1>5 DEF GatewayStep, SendStep, laneVars
<1>6. CASE ProxyStep \/ Dispatch \/ Receive \/ Reaper \/ UNCHANGED vars
  BY <1>4, <1>6
  DEF ProxyStep, Dispatch, Enqueue, Receive, FindLane, Reaper, Reap, vars, laneVars
<1> QED BY <1>2, <1>3, <1>4, <1>5, <1>6 DEF Next

\* Every variable has its type, and the proxy queues no more than its limit.
\* (ClientPath as a whole, SendToGameServer)
THEOREM PathTypeOK == Spec => []TypeOK
<1>1. Init => PathTyped /\ LanesTyped
  BY TypedInit
<1>2. PathTyped /\ LanesTyped /\ [Next]_vars => (PathTyped /\ LanesTyped)'
  BY PathTypedNext, LanesTypedStep
<1>3. PathTyped /\ LanesTyped => TypeOK
  BY TypedIsTypeOK
<1> QED BY <1>1, <1>2, <1>3, PTL DEF Spec

-----------------------------------------------------------------------------
(* The lanes of the path *)

\* Seen from its lanes alone, the path is ClientLanes.  (handleGatewayMessage,
\* dispatchToLane)
THEOREM PathImplementsLanes == Spec => LanesSpec
<1>1. Init => PathTyped /\ LanesInit
  BY TypedInit DEF Init
<1>2. PathTyped /\ [Next]_vars => PathTyped' /\ [LanesNext]_laneVars
  BY PathTypedNext, LaneStep
<1> QED BY <1>1, <1>2, PTL DEF Spec, LanesSpec

\* One client's messages are never handled side by side.  (client_lane.go)
THEOREM PathOneAtATime ==
  ASSUME Patient
  PROVE  Spec => []OneAtATime
  BY PathImplementsLanes, LanesOneAtATime, PTL

\* Each client has one queue in GameServer, whatever the Gateway sends it.
\* (client_lane.go)
THEOREM PathImplementsQueue ==
  ASSUME Patient
  PROVE  Spec => ImplementsQueue
  BY PathImplementsLanes, LanesImplementQueue, PTL

-----------------------------------------------------------------------------
(* The sessions of the account *)

\* What the goroutine of a client has done at each of its points.
Progress ==
  \A c \in Clients :
    /\ at[c] = "off" => ~ account[c]
    /\ at[c] \notin {"send", "queue"} => sending[c] = Nobody
    /\ at[c] \in {"remove", "unmap", "gone"} \/ sending[c] = "gone" => ~ socket[c]

\* The account's sessions have logged in.
LoggedIn ==
  /\ newest # Nobody => account[newest]
  /\ mapped # Nobody => account[mapped]

\* Who is about to delete the mapping is still the one that is mapped.
UnmapsItself == ~ crossed => \A c \in Clients : at[c] = "unmap" => mapped = c

\* A login about to be stored knows the newest session, unless that is closed.
KnowsNewest ==
  ~ crossed => \A c \in Clients :
    at[c] = "store" /\ newest # Nobody => old[c] = newest \/ ~ socket[newest]

\* An older session that is still connected is about to be kicked.
RivalsKicked ==
  ~ crossed => \A c \in Clients :
    account[c] /\ socket[c] /\ c # newest =>
      \E d \in Clients \ {c} : at[d] = "kick" /\ old[d] = c

SessionInv ==
  /\ Progress /\ LoggedIn /\ UnmapsItself /\ NewestMapped
  /\ KnowsNewest /\ RivalsKicked

LEMMA SessionInvInit == Init => SessionInv
  BY DEF Init, SessionInv, Progress, LoggedIn, UnmapsItself, NewestMapped, KnowsNewest,
         RivalsKicked

LEMMA VerifyInv ==
  ASSUME GatewayTyped, SessionInv, NEW c \in Clients, Verify(c)
  PROVE  SessionInv'
<1> USE DEF GatewayTyped, SessionInv, Verify, Goto
<1>1. Progress' /\ LoggedIn' /\ UnmapsItself'
  BY DEF Progress, LoggedIn, UnmapsItself
<1>2. NewestMapped'
  BY DEF NewestMapped, LoggedIn
<1>3. KnowsNewest'
  BY DEF KnowsNewest, NewestMapped, Progress
<1>4. RivalsKicked'
  BY DEF RivalsKicked
<1> QED BY <1>1, <1>2, <1>3, <1>4

LEMMA StoreInv ==
  ASSUME GatewayTyped, SessionInv, NEW c \in Clients, Store(c)
  PROVE  SessionInv'
<1> USE DEF GatewayTyped, SessionInv, Store, Goto
<1>1. Progress' /\ LoggedIn' /\ UnmapsItself'
  BY DEF Progress, LoggedIn, UnmapsItself
<1>2. NewestMapped' /\ KnowsNewest'
  BY DEF NewestMapped, KnowsNewest
<1>3. RivalsKicked'
  <2> SUFFICES ASSUME ~ crossed', NEW d \in Clients, account'[d], socket'[d], d # newest'
               PROVE  \E e \in Clients \ {d} : at'[e] = "kick" /\ old'[e] = d
    BY DEF RivalsKicked
  <2>1. ~ crossed /\ account[d] /\ socket[d] /\ d # c
    OBVIOUS
  <2>2. CASE d = newest
    <3>1. old[c] = d
      BY <2>1, <2>2 DEF KnowsNewest
    <3> QED BY <3>1
  <2>3. CASE d # newest
    BY <2>1, <2>3 DEF RivalsKicked
  <2> QED BY <2>2, <2>3
<1> QED BY <1>1, <1>2, <1>3

LEMMA KickInv ==
  ASSUME GatewayTyped, SessionInv, NEW c \in Clients, Kick(c)
  PROVE  SessionInv'
<1> USE DEF GatewayTyped, SessionInv, Kick, Send, Goto
<1>1. Progress' /\ LoggedIn' /\ UnmapsItself'
  BY DEF Progress, LoggedIn, UnmapsItself
<1>2. NewestMapped' /\ KnowsNewest'
  BY DEF NewestMapped, KnowsNewest
<1>3. RivalsKicked'
  BY DEF RivalsKicked, Kicked
<1> QED BY <1>1, <1>2, <1>3

LEMMA UnmapInv ==
  ASSUME GatewayTyped, SessionInv, NEW c \in Clients, Unmap(c)
  PROVE  SessionInv'
<1> USE DEF GatewayTyped, SessionInv, Unmap, Goto
<1>1. Progress' /\ LoggedIn' /\ UnmapsItself'
  BY DEF Progress, LoggedIn, UnmapsItself
<1>2. NewestMapped'
  BY DEF NewestMapped, UnmapsItself
<1>3. KnowsNewest' /\ RivalsKicked'
  BY DEF KnowsNewest, RivalsKicked
<1> QED BY <1>1, <1>2, <1>3

LEMMA RemoveInv ==
  ASSUME GatewayTyped, SessionInv, NEW c \in Clients, RemoveSession(c)
  PROVE  SessionInv'
<1> USE DEF GatewayTyped, SessionInv, RemoveSession, StillMapped, Goto
<1>1. Progress' /\ LoggedIn' /\ UnmapsItself'
  BY DEF Progress, LoggedIn, UnmapsItself
<1>2. NewestMapped'
  BY DEF NewestMapped, LoggedIn
<1>3. KnowsNewest' /\ RivalsKicked'
  BY DEF KnowsNewest, RivalsKicked
<1> QED BY <1>1, <1>2, <1>3

\* Steps between the points where accounts are mapped, and the losses of clients.
LEMMA PassingInv ==
  ASSUME GatewayTyped, SessionInv, NEW c \in Clients,
         \/ Connect(c) \/ HangUp(c) \/ OnClose(c)
         \/ at[c] \in {"send", "queue"} /\ Sent(c)
         \/ Forward(c, "enter") \/ Forward(c, "leave")
  PROVE  SessionInv'
<1> USE DEF GatewayTyped, SessionInv, Connect, HangUp, OnClose, Farewell, Sent, Forward,
            Send, Goto
<1>1. Progress' /\ LoggedIn' /\ UnmapsItself'
  BY DEF Progress, LoggedIn, UnmapsItself
<1>2. NewestMapped'
  BY DEF NewestMapped
<1>3. KnowsNewest'
  BY DEF KnowsNewest, Progress, LoggedIn
<1>4. RivalsKicked'
  BY DEF RivalsKicked, Progress
<1> QED BY <1>1, <1>2, <1>3, <1>4

LEMMA SessionInvNext ==
  ASSUME PathTyped, SessionInv, [Next]_vars
  PROVE  SessionInv'
<1>1. GatewayTyped
  BY DEF PathTyped
<1>2. ASSUME NEW c \in Clients, GatewayStep(c) PROVE SessionInv'
  BY <1>1, <1>2, VerifyInv, StoreInv, KickInv, UnmapInv, RemoveInv, PassingInv
  DEF GatewayStep
<1>3. ASSUME NEW c \in Clients, SendStep(c) PROVE SessionInv'
  <2>1. CASE SendDirect(c) \/ AddPending(c)
    BY <1>1, <2>1, PassingInv DEF SendDirect, AddPending
  <2>2. CASE FindDown(c)
    BY <1>1, <2>2
    DEF FindDown, Goto, GatewayTyped, SessionInv, Progress, LoggedIn, UnmapsItself,
        NewestMapped, KnowsNewest, RivalsKicked
  <2> QED BY <1>3, <2>1, <2>2 DEF SendStep
<1>4. ASSUME UNCHANGED gatewayVars PROVE SessionInv'
  BY <1>4
  DEF gatewayVars, SessionInv, Progress, LoggedIn, UnmapsItself, NewestMapped,
      KnowsNewest, RivalsKicked
<1>5. ProxyStep \/ LaneMove \/ UNCHANGED vars => UNCHANGED gatewayVars
  BY LaneMoveTakes DEF ProxyStep, vars
<1> QED BY <1>2, <1>3, <1>4, <1>5 DEF Next, LaneMove

LEMMA SessionInvariant == Spec => []SessionInv
<1>1. Init => PathTyped /\ SessionInv
  BY TypedInit, SessionInvInit
<1>2. PathTyped /\ SessionInv /\ [Next]_vars => (PathTyped /\ SessionInv)'
  BY PathTypedNext, SessionInvNext
<1> QED BY <1>1, <1>2, PTL DEF Spec

\* The end of an older session takes no mapping from a newer one, however many there
\* are.  (RemoveSession, SetAccountInfo)
THEOREM PathNewestMapped == Spec => []NewestMapped
<1>1. SessionInv => NewestMapped
  BY DEF SessionInv
<1> QED BY <1>1, SessionInvariant, PTL

\* However many clients log in to an account, one stays connected.  (SetAccountInfo)
THEOREM PathSingleLogin == Spec => []SingleLogin
<1>1. SessionInv => SingleLogin
  BY DEF SessionInv, RivalsKicked, SingleLogin
<1> QED BY <1>1, SessionInvariant, PTL

-----------------------------------------------------------------------------
(* Nobody is left behind *)

\* Messages of c, and his farewell, in a queue of packets.
Has(s, c) == \E i \in 1 .. Len(s) : s[i].client = c
Ends(s, c) == \E i \in 1 .. Len(s) : s[i].client = c /\ s[i].message = "gone"
EndsLast(s, c) ==
  \A i \in 1 .. Len(s) : s[i].client = c /\ s[i].message = "gone" =>
    \A j \in (i + 1) .. Len(s) : s[j].client # c

HoldsFor(c) == held # Nobody /\ held.client = c

\* The goroutine of c sends nothing any more, or has still to say goodbye.
Silent(c) == at[c] \in {"remove", "unmap", "gone"}
Active(c) == at[c] \notin {"off", "remove", "unmap", "gone"}

\* Nothing of c is left before the queue, the link, the dispatcher and his lane.
QuietPending(c) == Silent(c) /\ ~ Has(pending, c)
QuietFlushing(c) == QuietPending(c) /\ ~ Has(flushing, c)
QuietLink(c) == QuietFlushing(c) /\ ~ Has(link, c)
QuietHeld(c) == QuietLink(c) /\ ~ HoldsFor(c)

\* The farewell of a client is the last of his messages, wherever it is.
ProxyGoneLast(c) ==
  /\ EndsLast(pending, c) /\ (Ends(pending, c) => Silent(c))
  /\ EndsLast(flushing, c) /\ (Ends(flushing, c) => QuietPending(c))
  /\ EndsLast(link, c) /\ (Ends(link, c) => QuietFlushing(c))
  /\ HoldsFor(c) /\ held.message = "gone" => QuietLink(c)

LaneGoneLast(l) ==
  /\ \A i \in 1 .. Len(queue[l]) :
       queue[l][i] = "gone" => i = Len(queue[l]) /\ QuietHeld(owner[l])
  /\ running[l] = "gone" => queue[l] = <<>> /\ QuietHeld(owner[l])

GoneLast == (\A c \in Clients : ProxyGoneLast(c)) /\ (\A l \in Lanes : LaneGoneLast(l))

\* The lane of c has still to begin with his farewell.
LaneComing(l) ==
  \/ \E i \in 1 .. Len(queue[l]) : queue[l][i] = "gone"
  \/ running[l] = "gone" /\ step[l] = "begin"

\* GameServer will still be told that c has gone.
Coming(c) ==
  \/ Active(c)
  \/ Ends(pending, c) \/ Ends(flushing, c) \/ Ends(link, c)
  \/ HoldsFor(c) /\ held.message = "gone"
  \/ \E l \in Lanes : owner[l] = c /\ LaneComing(l)

\* Nothing of c is under way, but for a farewell that is being handled.
Quiet(c) ==
  /\ ~ Has(pending, c) /\ ~ Has(flushing, c) /\ ~ Has(link, c) /\ ~ HoldsFor(c)
  /\ \A l \in Lanes : owner[l] = c => queue[l] = <<>> /\ running[l] \in {Nobody, "gone"}

Onward == \A c \in Clients : Coming(c) \/ Quiet(c)

\* The step of a handler says what it handles.
StepsNamed ==
  \A l \in Lanes : /\ step[l] \in {"add", "store", "bind"} => running[l] = "enter"
                   /\ step[l] = "remove" => running[l] \in {"leave", "gone"}

\* Only who has connected is bound.
BoundConnected == \A c \in bound : at[c] # "off"

\* An online player is being bound or removed, or a client he is bound to will be
\* reported gone.
Expected ==
  online => \/ \E l \in Lanes : step[l] \in {"bind", "remove"}
            \/ \E c \in bound : Coming(c)

PresenceInv == StepsNamed /\ (~ lost => GoneLast /\ Onward /\ BoundConnected /\ Expected)

-----------------------------------------------------------------------------
(* Queues of packets *)

\* A packet put at the end of a queue that has no farewell of its client.
LEMMA AppendMail ==
  ASSUME NEW s \in Seq(Mail), NEW x \in Mail, NEW c \in Clients
  PROVE  /\ Has(Append(s, x), c) <=> Has(s, c) \/ x.client = c
         /\ Ends(Append(s, x), c) <=> Ends(s, c) \/ (x.client = c /\ x.message = "gone")
         /\ EndsLast(s, c) /\ (Ends(s, c) => x.client # c) => EndsLast(Append(s, x), c)
<1> DEFINE t == Append(s, x)
<1>1. /\ Len(t) = Len(s) + 1 /\ Len(s) \in Nat
      /\ \A i \in 1 .. Len(s) : t[i] = s[i]
      /\ t[Len(s) + 1] = x
  OBVIOUS
<1>2. \A i \in 1 .. Len(t) : i \in 1 .. Len(s) \/ i = Len(s) + 1
  BY <1>1
<1>3. \A i \in 1 .. Len(s) : i \in 1 .. Len(t)
  BY <1>1
<1>4. Len(s) + 1 \in 1 .. Len(t)
  BY <1>1
<1> HIDE DEF t
<1>5. Has(t, c) <=> Has(s, c) \/ x.client = c
  BY <1>1, <1>2, <1>3, <1>4 DEF Has
<1>6. Ends(t, c) <=> Ends(s, c) \/ (x.client = c /\ x.message = "gone")
  BY <1>1, <1>2, <1>3, <1>4 DEF Ends
<1>7. ASSUME EndsLast(s, c), Ends(s, c) => x.client # c PROVE EndsLast(t, c)
  <2> SUFFICES ASSUME NEW i \in 1 .. Len(t), t[i].client = c, t[i].message = "gone",
                      NEW j \in (i + 1) .. Len(t)
               PROVE  t[j].client # c
    BY DEF EndsLast
  <2>1. i \in 1 .. Len(s)
    BY <1>1
  <2>2. Ends(s, c)
    BY <1>1, <2>1 DEF Ends
  <2>3. CASE j = Len(s) + 1
    BY <1>1, <1>7, <2>2, <2>3
  <2>4. CASE j # Len(s) + 1
    <3>1. j \in (i + 1) .. Len(s) /\ j \in 1 .. Len(s)
      BY <1>1, <2>1, <2>4
    <3> QED BY <1>1, <1>7, <2>1, <3>1 DEF EndsLast
  <2> QED BY <2>3, <2>4
<1> QED BY <1>5, <1>6, <1>7 DEF t

\* A packet taken from the front.
LEMMA TailMail ==
  ASSUME NEW s \in Seq(Mail), s # <<>>, NEW c \in Clients
  PROVE  /\ Has(s, c) <=> Head(s).client = c \/ Has(Tail(s), c)
         /\ Ends(s, c) <=> (Head(s).client = c /\ Head(s).message = "gone") \/ Ends(Tail(s), c)
         /\ EndsLast(s, c) =>
              /\ EndsLast(Tail(s), c)
              /\ Head(s).client = c /\ Head(s).message = "gone" => ~ Has(Tail(s), c)
<1> DEFINE t == Tail(s)
<1>1. /\ Len(s) \in Nat /\ Len(s) > 0 /\ Len(t) = Len(s) - 1
      /\ \A i \in 1 .. Len(t) : t[i] = s[i + 1]
      /\ Head(s) = s[1]
  OBVIOUS
<1>2. \A i \in 1 .. Len(s) : i = 1 \/ (i - 1 \in 1 .. Len(t) /\ t[i - 1] = s[i])
  BY <1>1
<1>3. \A i \in 1 .. Len(t) : i + 1 \in 1 .. Len(s)
  BY <1>1
<1>4. 1 \in 1 .. Len(s)
  BY <1>1
<1> HIDE DEF t
<1>5. Has(s, c) <=> Head(s).client = c \/ Has(t, c)
  <2>1. Has(s, c) => Head(s).client = c \/ Has(t, c)
    BY <1>1, <1>2 DEF Has
  <2>2. Head(s).client = c \/ Has(t, c) => Has(s, c)
    BY <1>1, <1>3, <1>4 DEF Has
  <2> QED BY <2>1, <2>2
<1>6. Ends(s, c) <=> (Head(s).client = c /\ Head(s).message = "gone") \/ Ends(t, c)
  BY <1>1, <1>2, <1>3, <1>4 DEF Ends
<1>7. ASSUME EndsLast(s, c) PROVE EndsLast(t, c)
  <2> SUFFICES ASSUME NEW i \in 1 .. Len(t), t[i].client = c, t[i].message = "gone",
                      NEW j \in (i + 1) .. Len(t)
               PROVE  t[j].client # c
    BY DEF EndsLast
  <2>1. i + 1 \in 1 .. Len(s) /\ j \in 1 .. Len(t) /\ j + 1 \in (i + 1 + 1) .. Len(s)
    BY <1>1
  <2> QED BY <1>1, <1>7, <2>1 DEF EndsLast
<1>8. ASSUME EndsLast(s, c), Head(s).client = c, Head(s).message = "gone" PROVE ~ Has(t, c)
  <2> SUFFICES ASSUME NEW i \in 1 .. Len(t) PROVE t[i].client # c
    BY DEF Has
  <2>1. i + 1 \in (1 + 1) .. Len(s)
    BY <1>1
  <2> QED BY <1>1, <1>4, <1>8, <2>1 DEF EndsLast
<1> QED BY <1>5, <1>6, <1>7, <1>8 DEF t

LEMMA EmptyMail ==
  ASSUME NEW c
  PROVE  ~ Has(<<>>, c) /\ ~ Ends(<<>>, c) /\ EndsLast(<<>>, c)
BY DEF Has, Ends, EndsLast

LEMMA EndsHas ==
  ASSUME NEW s, NEW c, Ends(s, c)
  PROVE  Has(s, c)
BY DEF Ends, Has

\* Whoever does not say goodbye any more, or not yet, has no farewell under way.
LEMMA FarewellSilent ==
  ASSUME GoneLast, NEW c \in Clients, ~ Silent(c)
  PROVE  /\ ~ Ends(pending, c) /\ ~ Ends(flushing, c) /\ ~ Ends(link, c)
         /\ ~ (HoldsFor(c) /\ held.message = "gone")
         /\ \A l \in Lanes : owner[l] = c =>
              /\ \A i \in 1 .. Len(queue[l]) : queue[l][i] # "gone"
              /\ running[l] # "gone"
BY DEF GoneLast, ProxyGoneLast, LaneGoneLast, QuietHeld, QuietLink, QuietFlushing,
       QuietPending

-----------------------------------------------------------------------------
(* What the steps do to the messages under way *)

pipe == <<pending, flushing, link, held, owner, queue, running>>

\* A step that keeps the farewells in order, what is coming and what is quiet.
Keeps ==
  /\ GoneLast'
  /\ \A c \in Clients : Coming(c) => Coming(c)'
  /\ \A c \in Clients : Quiet(c) => Quiet(c)' \/ Coming(c)'

\* Lanes with work, whose owners stay, keep what is said of them.
LEMMA LanesKeep ==
  ASSUME LanesInv, GoneLast, UNCHANGED <<queue, running, step>>,
         \A l \in Lanes : Working(l) => owner'[l] = owner[l],
         \A c \in Clients : QuietHeld(c) => QuietHeld(c)'
  PROVE  /\ \A l \in Lanes : LaneGoneLast(l)'
         /\ \A c \in Clients : (\E l \in Lanes : owner[l] = c /\ LaneComing(l))
                             => (\E l \in Lanes : owner[l] = c /\ LaneComing(l))'
<1>1. ASSUME NEW l \in Lanes, (\E i \in 1 .. Len(queue[l]) : queue[l][i] = "gone")
                              \/ running[l] = "gone"
      PROVE  Working(l) /\ owner[l] \in Clients /\ owner'[l] = owner[l]
  <2>1. Working(l)
    BY <1>1 DEF Working
  <2> QED BY <2>1 DEF LanesInv, WorkIsNamed
<1>2. ASSUME NEW l \in Lanes PROVE LaneGoneLast(l)'
  <2>1. LaneGoneLast(l)
    BY DEF GoneLast
  <2> QED BY <1>1, <2>1 DEF LaneGoneLast
<1>3. ASSUME NEW c \in Clients, NEW l \in Lanes, owner[l] = c, LaneComing(l)
      PROVE  owner'[l] = c /\ LaneComing(l)'
  BY <1>1, <1>3 DEF LaneComing
<1> QED BY <1>2, <1>3

\* A step of a session that moves no message.
LEMMA SessionKeeps ==
  ASSUME LanesInv, GoneLast, UNCHANGED <<pipe, step>>,
         \A c \in Clients : /\ Silent(c) => Silent(c)'
                            /\ Active(c) => Active(c)'
  PROVE  Keeps
<1> USE DEF pipe
<1>1. ASSUME NEW c \in Clients
      PROVE  /\ QuietPending(c) => QuietPending(c)'
             /\ QuietFlushing(c) => QuietFlushing(c)'
             /\ QuietLink(c) => QuietLink(c)'
             /\ QuietHeld(c) => QuietHeld(c)'
  BY DEF QuietPending, QuietFlushing, QuietLink, QuietHeld, Has, HoldsFor
<1>2. ASSUME NEW c \in Clients PROVE ProxyGoneLast(c)'
  BY <1>1 DEF GoneLast, ProxyGoneLast, EndsLast, Ends, HoldsFor
<1>3. /\ \A l \in Lanes : LaneGoneLast(l)'
      /\ \A c \in Clients : (\E l \in Lanes : owner[l] = c /\ LaneComing(l))
                          => (\E l \in Lanes : owner[l] = c /\ LaneComing(l))'
  BY <1>1, LanesKeep
<1>4. ASSUME NEW c \in Clients, Coming(c) PROVE Coming(c)'
  BY <1>3, <1>4 DEF Coming, Ends, HoldsFor
<1>5. ASSUME NEW c \in Clients, Quiet(c) PROVE Quiet(c)'
  BY <1>5 DEF Quiet, Has, HoldsFor
<1> QED BY <1>2, <1>3, <1>4, <1>5 DEF Keeps, GoneLast

\* The points of a session that sends nothing.
LEMMA GatewayPoints ==
  ASSUME GatewayTyped, NEW c \in Clients, GatewayStep(c) \/ FindDown(c)
  PROVE  \A d \in Clients : /\ Silent(d) => Silent(d)'
                            /\ Active(d) => Active(d)'
                            /\ at[d] # "off" => at'[d] # "off"
<1>1. at \in [Clients -> Points]
  BY DEF GatewayTyped
<1>2. \/ UNCHANGED at
      \/ \E p \in Points : /\ at' = [at EXCEPT ![c] = p]
                           /\ p # "off"
                           /\ Silent(c) => p \in {"remove", "unmap", "gone"}
                           /\ Active(c) => p \notin {"remove", "unmap", "gone"}
  BY DEF GatewayStep, Connect, HangUp, Verify, Store, Kick, Forward, OnClose, Farewell,
         RemoveSession, Unmap, FindDown, Send, Goto, Points, Silent, Active
<1> QED BY <1>1, <1>2 DEF Silent, Active

LEMMA GatewayKeeps ==
  ASSUME LanesInv, GatewayTyped, GoneLast, NEW c \in Clients,
         GatewayStep(c) \/ (FindDown(c) /\ UNCHANGED <<laneVars, playerVars>>)
  PROVE  Keeps
<1>1. UNCHANGED <<pipe, step>>
  BY DEF GatewayStep, FindDown, pipe, laneVars, proxyVars, playerVars
<1> QED BY <1>1, GatewayPoints, SessionKeeps

\* What Sent leaves the goroutine at.
LEMMA SentPoints ==
  ASSUME GatewayTyped, NEW c \in Clients, at[c] \in {"send", "queue"}, Sent(c)
  PROVE  /\ \A d \in Clients : d # c => at'[d] = at[d]
         /\ IF sending[c] = "gone" THEN Silent(c)' ELSE Active(c)'
         /\ Active(c) /\ ~ Silent(c)
         /\ at'[c] # "off"
BY DEF GatewayTyped, Sent, Goto, Silent, Active

LEMMA PacketMail ==
  ASSUME PathTyped, NEW c \in Clients, at[c] \in {"send", "queue"}
  PROVE  Packet(c) \in Mail /\ Packet(c).client = c /\ Packet(c).message = sending[c]
BY DEF PathTyped, HasMessage, Packet, Mail

\* A message that is put on the link overtakes none of its client.
LEMMA SendDirectKeeps ==
  ASSUME LanesInv, PathTyped, GoneLast, NEW c \in Clients, SendDirect(c), ~ lost',
         UNCHANGED <<laneVars, playerVars>>
  PROVE  Keeps
<1>1. /\ at[c] = "send" /\ Sent(c)
      /\ link' = Append(link, Packet(c)) /\ ~ Older(c)
      /\ UNCHANGED <<pending, flushing, held, owner, queue, running, step>>
  BY DEF SendDirect, laneVars, playerVars
<1>2. pending \in Seq(Mail) /\ flushing \in Seq(Mail) /\ link \in Seq(Mail) /\ GatewayTyped
  BY DEF PathTyped, ProxyTyped
<1>3. Packet(c) \in Mail /\ Packet(c).client = c /\ Packet(c).message = sending[c]
  BY <1>1, PacketMail
<1>4. ~ Has(pending, c) /\ ~ Has(flushing, c)
  <2> DEFINE s == pending \o flushing
  <2>1. \A i \in 1 .. Len(s) : s[i].client # c
    BY <1>1, <1>2, SMTT(30) DEF Older
  <2>2. /\ \A i \in 1 .. Len(pending) : i \in 1 .. Len(s) /\ s[i] = pending[i]
        /\ \A i \in 1 .. Len(flushing) : /\ Len(pending) + i \in 1 .. Len(s)
                                         /\ s[Len(pending) + i] = flushing[i]
    BY <1>2
  <2> QED BY <2>1, <2>2 DEF Has
<1>5. /\ \A d \in Clients : d # c => at'[d] = at[d]
      /\ IF sending[c] = "gone" THEN Silent(c)' ELSE Active(c)'
      /\ Active(c) /\ ~ Silent(c)
  BY <1>1, <1>2, SentPoints
<1>6. /\ ~ Ends(link, c) /\ ~ (HoldsFor(c) /\ held.message = "gone")
      /\ \A l \in Lanes : owner[l] = c =>
           /\ \A i \in 1 .. Len(queue[l]) : queue[l][i] # "gone"
           /\ running[l] # "gone"
  BY <1>5, FarewellSilent
<1>7. ASSUME NEW d \in Clients
      PROVE  /\ Has(link', d) <=> Has(link, d) \/ d = c
             /\ Ends(link', d) <=> Ends(link, d) \/ (d = c /\ sending[c] = "gone")
             /\ EndsLast(link, d) => EndsLast(link', d)
  BY <1>1, <1>2, <1>3, <1>6, AppendMail
<1>8. ASSUME NEW d \in Clients, d # c
      PROVE  /\ QuietPending(d) => QuietPending(d)'
             /\ QuietFlushing(d) => QuietFlushing(d)'
             /\ QuietLink(d) => QuietLink(d)'
             /\ QuietHeld(d) => QuietHeld(d)'
  BY <1>1, <1>5, <1>7, <1>8
  DEF QuietPending, QuietFlushing, QuietLink, QuietHeld, Silent, HoldsFor
<1>9. ~ QuietHeld(c)
  BY <1>5 DEF QuietHeld, QuietLink, QuietFlushing, QuietPending
<1>10. ASSUME NEW d \in Clients PROVE ProxyGoneLast(d)'
  <2>1. ProxyGoneLast(d)
    BY DEF GoneLast
  <2>2. CASE d # c
    BY <1>1, <1>5, <1>7, <1>8, <2>1, <2>2 DEF ProxyGoneLast, Silent, HoldsFor
  <2>3. CASE d = c
    <3>1. Silent(c)' => QuietFlushing(c)'
      BY <1>1, <1>4 DEF QuietFlushing, QuietPending
    <3>2. ~ Ends(pending, c) /\ ~ Ends(flushing, c)
      BY <1>4, EndsHas
    <3> QED BY <1>1, <1>5, <1>6, <1>7, <2>1, <2>3, <3>1, <3>2 DEF ProxyGoneLast, HoldsFor
  <2> QED BY <2>2, <2>3
<1>11. /\ \A l \in Lanes : LaneGoneLast(l)'
       /\ \A d \in Clients : (\E l \in Lanes : owner[l] = d /\ LaneComing(l))
                           => (\E l \in Lanes : owner[l] = d /\ LaneComing(l))'
  BY <1>1, <1>8, <1>9, LanesKeep
<1>12. ASSUME NEW d \in Clients, Coming(d) PROVE Coming(d)'
  <2>1. CASE d = c
    BY <1>5, <1>7, <2>1 DEF Coming
  <2>2. CASE d # c
    BY <1>1, <1>5, <1>7, <1>11, <1>12, <2>2 DEF Coming, Active, HoldsFor
  <2> QED BY <2>1, <2>2
<1>13. ASSUME NEW d \in Clients, Quiet(d) PROVE Quiet(d)' \/ Coming(d)'
  <2>1. CASE d = c
    BY <1>5, <1>7, <2>1 DEF Coming
  <2>2. CASE d # c
    BY <1>1, <1>7, <1>13, <2>2 DEF Quiet, HoldsFor
  <2> QED BY <2>1, <2>2
<1> QED BY <1>10, <1>11, <1>12, <1>13 DEF Keeps, GoneLast

\* Neither does one that is queued for the next connection.
LEMMA AddPendingKeeps ==
  ASSUME LanesInv, PathTyped, GoneLast, NEW c \in Clients, AddPending(c), ~ lost',
         UNCHANGED <<laneVars, playerVars>>
  PROVE  Keeps
<1>1. /\ at[c] = "queue" /\ Sent(c)
      /\ pending' = Append(pending, Packet(c))
      /\ UNCHANGED <<link, flushing, held, owner, queue, running, step>>
  BY DEF AddPending, laneVars, playerVars
<1>2. pending \in Seq(Mail) /\ GatewayTyped
  BY DEF PathTyped, ProxyTyped
<1>3. Packet(c) \in Mail /\ Packet(c).client = c /\ Packet(c).message = sending[c]
  BY <1>1, PacketMail
<1>5. /\ \A d \in Clients : d # c => at'[d] = at[d]
      /\ IF sending[c] = "gone" THEN Silent(c)' ELSE Active(c)'
      /\ Active(c) /\ ~ Silent(c)
  BY <1>1, <1>2, SentPoints
<1>6. /\ ~ Ends(pending, c) /\ ~ Ends(flushing, c) /\ ~ Ends(link, c)
      /\ ~ (HoldsFor(c) /\ held.message = "gone")
  BY <1>5, FarewellSilent
<1>7. ASSUME NEW d \in Clients
      PROVE  /\ Has(pending', d) <=> Has(pending, d) \/ d = c
             /\ Ends(pending', d) <=> Ends(pending, d) \/ (d = c /\ sending[c] = "gone")
             /\ EndsLast(pending, d) => EndsLast(pending', d)
  BY <1>1, <1>2, <1>3, <1>6, AppendMail
<1>8. ASSUME NEW d \in Clients, d # c
      PROVE  /\ QuietPending(d) => QuietPending(d)'
             /\ QuietFlushing(d) => QuietFlushing(d)'
             /\ QuietLink(d) => QuietLink(d)'
             /\ QuietHeld(d) => QuietHeld(d)'
  BY <1>1, <1>5, <1>7, <1>8
  DEF QuietPending, QuietFlushing, QuietLink, QuietHeld, Silent, HoldsFor
<1>9. ~ QuietHeld(c)
  BY <1>5 DEF QuietHeld, QuietLink, QuietFlushing, QuietPending
<1>10. ASSUME NEW d \in Clients PROVE ProxyGoneLast(d)'
  <2>1. ProxyGoneLast(d)
    BY DEF GoneLast
  <2>2. CASE d # c
    BY <1>1, <1>5, <1>7, <1>8, <2>1, <2>2 DEF ProxyGoneLast, Silent, HoldsFor
  <2>3. CASE d = c
    BY <1>1, <1>5, <1>6, <1>7, <2>1, <2>3 DEF ProxyGoneLast, HoldsFor
  <2> QED BY <2>2, <2>3
<1>11. /\ \A l \in Lanes : LaneGoneLast(l)'
       /\ \A d \in Clients : (\E l \in Lanes : owner[l] = d /\ LaneComing(l))
                           => (\E l \in Lanes : owner[l] = d /\ LaneComing(l))'
  BY <1>1, <1>8, <1>9, LanesKeep
<1>12. ASSUME NEW d \in Clients, Coming(d) PROVE Coming(d)'
  <2>1. CASE d = c
    BY <1>5, <1>7, <2>1 DEF Coming
  <2>2. CASE d # c
    BY <1>1, <1>5, <1>7, <1>11, <1>12, <2>2 DEF Coming, Active, HoldsFor
  <2> QED BY <2>1, <2>2
<1>13. ASSUME NEW d \in Clients, Quiet(d) PROVE Quiet(d)' \/ Coming(d)'
  <2>1. CASE d = c
    BY <1>5, <1>7, <2>1 DEF Coming
  <2>2. CASE d # c
    BY <1>1, <1>7, <1>13, <2>2 DEF Quiet, HoldsFor
  <2> QED BY <2>1, <2>2
<1> QED BY <1>10, <1>11, <1>12, <1>13 DEF Keeps, GoneLast

\* The queue that waited for the connection is flushed in its order.
LEMMA ProxyKeeps ==
  ASSUME LanesInv, PathTyped, GoneLast, ProxyStep, ~ lost'
  PROVE  Keeps
<1>1. /\ pending \in Seq(Mail) /\ flushing \in Seq(Mail) /\ link \in Seq(Mail)
      /\ UNCHANGED <<at, held, owner, queue, running, step>>
  BY DEF PathTyped, ProxyTyped, ProxyStep, laneVars, gatewayVars, playerVars
<1>2. CASE Break
  <2>1. UNCHANGED <<pending, flushing, link>>
    BY <1>2 DEF Break
  <2>2. UNCHANGED <<pipe, step>>
    BY <1>1, <2>1 DEF pipe
  <2> QED BY <1>1, <2>2, SessionKeeps DEF Silent, Active
<1>3. ASSUME \A c \in Clients :
               /\ ProxyGoneLast(c)'
               /\ QuietHeld(c) => QuietHeld(c)'
               /\ Has(pending, c)' => Has(pending, c)
               /\ Has(flushing, c)' => Has(pending, c) \/ Has(flushing, c)
               /\ Has(link, c)' => Has(flushing, c) \/ Has(link, c)
               /\ Ends(pending, c) => Ends(pending, c)' \/ Ends(flushing, c)'
               /\ Ends(flushing, c) => Ends(flushing, c)' \/ Ends(link, c)'
               /\ Ends(link, c) => Ends(link, c)'
      PROVE  Keeps
  <2>1. /\ \A l \in Lanes : LaneGoneLast(l)'
        /\ \A c \in Clients : (\E l \in Lanes : owner[l] = c /\ LaneComing(l))
                            => (\E l \in Lanes : owner[l] = c /\ LaneComing(l))'
    BY <1>1, <1>3, LanesKeep
  <2>2. ASSUME NEW c \in Clients, Coming(c) PROVE Coming(c)'
    BY <1>1, <1>3, <2>1, <2>2 DEF Coming, Active, HoldsFor
  <2>3. ASSUME NEW c \in Clients, Quiet(c) PROVE Quiet(c)'
    BY <1>1, <1>3, <2>3 DEF Quiet, HoldsFor
  <2> QED BY <1>3, <2>1, <2>2, <2>3 DEF Keeps, GoneLast
<1>4. CASE Reconnect
  <2>1. flushing = <<>> /\ flushing' = pending /\ pending' = <<>> /\ link' = link
    BY <1>4 DEF Reconnect
  <2>2. ASSUME NEW c \in Clients
        PROVE  /\ ProxyGoneLast(c)'
               /\ QuietHeld(c) => QuietHeld(c)'
               /\ Has(pending, c)' => Has(pending, c)
               /\ Has(flushing, c)' => Has(pending, c) \/ Has(flushing, c)
               /\ Has(link, c)' => Has(flushing, c) \/ Has(link, c)
               /\ Ends(pending, c) => Ends(pending, c)' \/ Ends(flushing, c)'
               /\ Ends(flushing, c) => Ends(flushing, c)' \/ Ends(link, c)'
               /\ Ends(link, c) => Ends(link, c)'
    BY <1>1, <2>1, EmptyMail
    DEF GoneLast, ProxyGoneLast, QuietHeld, QuietLink, QuietFlushing, QuietPending, Silent,
        HoldsFor
  <2> QED BY <1>3, <2>2
<1>5. CASE FlushOne
  <2>1. /\ flushing # <<>> /\ flushing' = Tail(flushing)
        /\ link' = Append(link, Head(flushing)) /\ pending' = pending
    BY <1>5 DEF FlushOne
  <2> DEFINE x == Head(flushing)
  <2>2. x \in Mail
    BY <1>1, <2>1
  <2> HIDE DEF x
  <2>3. ASSUME NEW c \in Clients
        PROVE  /\ ProxyGoneLast(c)'
               /\ QuietHeld(c) => QuietHeld(c)'
               /\ Has(pending, c)' => Has(pending, c)
               /\ Has(flushing, c)' => Has(pending, c) \/ Has(flushing, c)
               /\ Has(link, c)' => Has(flushing, c) \/ Has(link, c)
               /\ Ends(pending, c) => Ends(pending, c)' \/ Ends(flushing, c)'
               /\ Ends(flushing, c) => Ends(flushing, c)' \/ Ends(link, c)'
               /\ Ends(link, c) => Ends(link, c)'
    <3>1. /\ Has(flushing, c) <=> x.client = c \/ Has(flushing', c)
          /\ Ends(flushing, c) <=> (x.client = c /\ x.message = "gone") \/ Ends(flushing', c)
          /\ EndsLast(flushing, c) =>
               /\ EndsLast(flushing', c)
               /\ x.client = c /\ x.message = "gone" => ~ Has(flushing', c)
      BY <1>1, <2>1, TailMail DEF x
    <3>2. /\ Has(link', c) <=> Has(link, c) \/ x.client = c
          /\ Ends(link', c) <=> Ends(link, c) \/ (x.client = c /\ x.message = "gone")
          /\ EndsLast(link, c) /\ (Ends(link, c) => x.client # c) => EndsLast(link', c)
      BY <1>1, <2>1, <2>2, AppendMail DEF x
    <3>3. ProxyGoneLast(c)
      BY DEF GoneLast
    <3>4. /\ QuietPending(c)' <=> QuietPending(c)
          /\ QuietFlushing(c) => QuietFlushing(c)' /\ x.client # c
          /\ QuietLink(c) => QuietLink(c)'
          /\ QuietHeld(c) => QuietHeld(c)'
      BY <1>1, <2>1, <3>1, <3>2
      DEF QuietHeld, QuietLink, QuietFlushing, QuietPending, Silent, HoldsFor
    <3>5. ProxyGoneLast(c)'
      <4>1. EndsLast(link', c) /\ EndsLast(flushing', c)
        BY <3>1, <3>2, <3>3, <3>4 DEF ProxyGoneLast
      <4>2. x.client = c /\ x.message = "gone" => QuietFlushing(c)'
        BY <3>1, <3>3, <3>4 DEF ProxyGoneLast, QuietFlushing
      <4>3. Ends(link', c) => QuietFlushing(c)'
        BY <3>2, <3>3, <3>4, <4>2 DEF ProxyGoneLast
      <4>4. Ends(flushing', c) => QuietPending(c)'
        BY <3>1, <3>3, <3>4 DEF ProxyGoneLast
      <4>5. /\ EndsLast(pending', c) /\ (Ends(pending', c) => Silent(c)')
            /\ HoldsFor(c)' /\ held'.message = "gone" => QuietLink(c)'
        BY <1>1, <2>1, <3>3, <3>4 DEF ProxyGoneLast, HoldsFor, Silent
      <4> QED BY <4>1, <4>3, <4>4, <4>5 DEF ProxyGoneLast
    <3> QED BY <2>1, <3>1, <3>2, <3>4, <3>5
  <2> QED BY <1>3, <2>3
<1> QED BY <1>2, <1>4, <1>5 DEF ProxyStep

\* A lane with a message of c has it because it is his.
LEMMA WorkOf ==
  ASSUME LanesInv, NEW l \in Lanes, Working(l)
  PROVE  /\ owner[l] \in Clients
         /\ \A k \in Lanes : owner[k] = owner[l] /\ k # l => ~ Working(k)
BY DEF LanesInv, WorkIsNamed

\* The packet that is dispatched next was the next on the link.
LEMMA ReceiveKeeps ==
  ASSUME LanesInv, PathTyped, GoneLast, Receive
  PROVE  Keeps
<1> DEFINE x == Head(link)
<1>1. /\ link \in Seq(Mail) /\ link # <<>> /\ link' = Tail(link)
      /\ UNCHANGED <<at, pending, flushing, queue, running, step>>
  BY DEF PathTyped, ProxyTyped, Receive, gatewayVars, playerVars, FindLane
<1>2. x \in Mail
  BY <1>1
<1>3. /\ x.client \in Clients /\ held = Nobody /\ held' # Nobody
      /\ held'.client = x.client /\ held'.message = x.message
      /\ \A l \in Lanes : owner'[l] = owner[l] \/ (owner[l] = Nobody /\ owner'[l] = x.client)
  <2>1. x.client \in Clients /\ x.message \in Messages
    BY <1>2 DEF Mail
  <2>2. PICK l \in Lanes :
          /\ held' = [client |-> x.client, message |-> x.message, lane |-> l]
          /\ \/ UNCHANGED owner
             \/ owner[l] = Nobody /\ owner' = [owner EXCEPT ![l] = x.client]
    BY DEF Receive, FindLane
  <2>3. owner \in [Lanes -> Clients \union {Nobody}]
    BY DEF LanesInv, LanesTypeOK
  <2>4. held' \in Held
    BY <2>1, <2>2 DEF Held
  <2>5. held = Nobody /\ held' # Nobody
    BY <2>4 DEF Receive, FindLane
  <2> QED BY <2>1, <2>2, <2>3, <2>5
<1> HIDE DEF x
<1>4. ASSUME NEW c \in Clients
      PROVE  /\ Has(link, c) <=> x.client = c \/ Has(link', c)
             /\ Ends(link, c) <=> (x.client = c /\ x.message = "gone") \/ Ends(link', c)
             /\ EndsLast(link, c) =>
                  /\ EndsLast(link', c)
                  /\ x.client = c /\ x.message = "gone" => ~ Has(link', c)
  BY <1>1, TailMail DEF x
<1>5. ASSUME NEW c \in Clients
      PROVE  /\ QuietFlushing(c)' <=> QuietFlushing(c)
             /\ QuietPending(c)' <=> QuietPending(c)
             /\ QuietLink(c) => QuietLink(c)' /\ x.client # c
             /\ QuietHeld(c) => QuietHeld(c)'
  BY <1>1, <1>3, <1>4 DEF QuietHeld, QuietLink, QuietFlushing, QuietPending, Silent, HoldsFor
<1>6. ASSUME NEW c \in Clients PROVE ProxyGoneLast(c)'
  <2>1. ProxyGoneLast(c)
    BY DEF GoneLast
  <2>2. x.client = c /\ x.message = "gone" => QuietLink(c)'
    BY <1>4, <1>5, <2>1 DEF ProxyGoneLast, QuietLink
  <2> QED BY <1>1, <1>3, <1>4, <1>5, <2>1, <2>2 DEF ProxyGoneLast, HoldsFor, Silent
<1>7. \A l \in Lanes : Working(l) => owner'[l] = owner[l]
  BY <1>3, WorkOf
<1>8. /\ \A l \in Lanes : LaneGoneLast(l)'
      /\ \A c \in Clients : (\E l \in Lanes : owner[l] = c /\ LaneComing(l))
                          => (\E l \in Lanes : owner[l] = c /\ LaneComing(l))'
  BY <1>1, <1>5, <1>7, LanesKeep
<1>9. ASSUME NEW c \in Clients, Coming(c) PROVE Coming(c)'
  BY <1>1, <1>3, <1>4, <1>8, <1>9 DEF Coming, Active, HoldsFor
<1>10. ASSUME NEW c \in Clients, Quiet(c) PROVE Quiet(c)'
  <2>1. \A l \in Lanes : owner'[l] = c => queue[l] = <<>> /\ running[l] \in {Nobody, "gone"}
    BY <1>3, <1>10, FreshLane DEF Quiet
  <2> QED BY <1>1, <1>3, <1>4, <1>10, <2>1 DEF Quiet, HoldsFor
<1> QED BY <1>6, <1>8, <1>9, <1>10 DEF Keeps, GoneLast

\* The dispatcher puts it last in the queue of its client's lane.
LEMMA DispatchKeeps ==
  ASSUME LanesInv, GoneLast, Dispatch, ~ lost'
  PROVE  Keeps
<1>0. PICK k \in Lanes, c \in Clients, m \in Messages :
        held.lane = k /\ held.client = c /\ held.message = m /\ owner[k] = c
  BY HeldLane DEF Dispatch, Enqueue
<1>1. HoldsFor(c) /\ queue[k] \in Seq(Messages)
  BY <1>0 DEF Dispatch, Enqueue, LanesInv, LanesTypeOK, HoldsFor
<1>2. owner[k] = c
  BY <1>0
<1>3. /\ held # Nobody /\ held' = Nobody
      /\ queue' = [queue EXCEPT ![k] = Append(@, m)]
      /\ UNCHANGED <<at, pending, flushing, link, owner, running, step>>
  BY <1>0 DEF Dispatch, Enqueue, gatewayVars, proxyVars, playerVars
<1>4. /\ queue'[k] = Append(queue[k], m) /\ Len(queue'[k]) = Len(queue[k]) + 1
      /\ Len(queue[k]) \in Nat
      /\ \A i \in 1 .. Len(queue[k]) : queue'[k][i] = queue[k][i]
      /\ queue'[k][Len(queue'[k])] = m
      /\ \A l \in Lanes : l # k => queue'[l] = queue[l]
  <2>1. queue \in [Lanes -> Seq(Messages)]
    BY DEF LanesInv, LanesTypeOK
  <2>2. queue'[k] = Append(queue[k], m) /\ \A l \in Lanes : l # k => queue'[l] = queue[l]
    BY <1>1, <1>3, <2>1
  <2> QED BY <1>1, <2>2
<1>5. ~ QuietHeld(c)
  BY <1>1 DEF QuietHeld
<1>6. running[k] # "gone" /\ \A i \in 1 .. Len(queue[k]) : queue[k][i] # "gone"
  BY <1>1, <1>2, <1>5 DEF GoneLast, LaneGoneLast
<1>7. ASSUME NEW d
      PROVE  /\ QuietLink(d)' <=> QuietLink(d)
             /\ QuietFlushing(d)' <=> QuietFlushing(d)
             /\ QuietPending(d)' <=> QuietPending(d)
             /\ QuietHeld(d)' <=> QuietLink(d)
             /\ QuietHeld(d) => QuietLink(d)
  BY <1>3 DEF QuietHeld, QuietLink, QuietFlushing, QuietPending, Silent, HoldsFor
<1>8. ASSUME NEW d \in Clients PROVE ProxyGoneLast(d)'
  BY <1>3, <1>7 DEF GoneLast, ProxyGoneLast, HoldsFor, Silent
<1>9. ASSUME NEW l \in Lanes PROVE LaneGoneLast(l)'
  <2>1. CASE l # k
    BY <1>3, <1>4, <1>7, <2>1 DEF GoneLast, LaneGoneLast
  <2>2. CASE l = k
    <3>1. m = "gone" => QuietLink(c)
      BY <1>0, <1>1 DEF GoneLast, ProxyGoneLast
    <3>2. ASSUME NEW i \in 1 .. Len(queue'[k]), queue'[k][i] = "gone"
          PROVE  i = Len(queue'[k]) /\ QuietHeld(c)'
      <4>1. i \notin 1 .. Len(queue[k])
        BY <1>4, <1>6, <3>2
      <4>2. i = Len(queue'[k])
        BY <1>4, <4>1
      <4> QED BY <1>4, <1>7, <3>1, <3>2, <4>2
    <3> QED BY <1>2, <1>3, <1>6, <2>2, <3>2 DEF LaneGoneLast
  <2> QED BY <2>1, <2>2
<1>10. ASSUME NEW l \in Lanes, LaneComing(l) PROVE LaneComing(l)'
  <2>1. CASE l # k
    BY <1>3, <1>4, <1>10, <2>1 DEF LaneComing
  <2>2. CASE l = k
    BY <1>6, <1>10, <2>2 DEF LaneComing
  <2> QED BY <2>1, <2>2
<1>11. m = "gone" => LaneComing(k)'
  <2> SUFFICES ASSUME m = "gone" PROVE \E i \in 1 .. Len(queue'[k]) : queue'[k][i] = "gone"
    BY DEF LaneComing
  <2>1. Len(queue'[k]) \in 1 .. Len(queue'[k])
    BY <1>4
  <2> QED BY <1>4, <2>1
<1>12. ASSUME NEW d \in Clients, Coming(d) PROVE Coming(d)'
  <2>1. CASE HoldsFor(d) /\ held.message = "gone"
    BY <1>0, <1>3, <1>11, <2>1 DEF Coming, HoldsFor
  <2>2. CASE \E l \in Lanes : owner[l] = d /\ LaneComing(l)
    BY <1>3, <1>10, <2>2 DEF Coming
  <2> QED BY <1>3, <1>12, <2>1, <2>2 DEF Coming, Active
<1>13. ASSUME NEW d \in Clients, Quiet(d) PROVE Quiet(d)'
  <2>1. d # c
    BY <1>1, <1>13 DEF Quiet
  <2> QED BY <1>2, <1>3, <1>4, <1>13, <2>1 DEF Quiet, HoldsFor
<1> QED BY <1>8, <1>9, <1>12, <1>13 DEF Keeps, GoneLast

\* The goroutine of a lane takes the next message.
LEMMA LaneBeginKeeps ==
  ASSUME LanesInv, StepsOfHandlers, StepsNamed, GoneLast, PlayerTyped, NEW k \in Lanes, LaneBegin(k)
  PROVE  Keeps
<1>1. /\ running[k] = Nobody /\ queue[k] # <<>> /\ queue[k] \in Seq(Messages)
      /\ running' = [running EXCEPT ![k] = Head(queue[k])]
      /\ queue' = [queue EXCEPT ![k] = Tail(@)]
      /\ UNCHANGED <<at, pending, flushing, link, held, owner, step>>
  BY DEF LaneBegin, Begin, gatewayVars, proxyVars, playerVars, LanesInv, LanesTypeOK
<1>2. /\ running'[k] = queue[k][1] /\ queue'[k] = Tail(queue[k])
      /\ Len(queue[k]) \in Nat /\ Len(queue[k]) > 0 /\ Len(queue'[k]) = Len(queue[k]) - 1
      /\ \A i \in 1 .. Len(queue'[k]) : queue'[k][i] = queue[k][i + 1]
      /\ \A l \in Lanes : l # k => queue'[l] = queue[l] /\ running'[l] = running[l]
  <2>1. queue \in [Lanes -> Seq(Messages)] /\ running \in [Lanes -> Messages \union {Nobody}]
    BY DEF LanesInv, LanesTypeOK
  <2>2. /\ running'[k] = Head(queue[k]) /\ queue'[k] = Tail(queue[k])
        /\ \A l \in Lanes : l # k => queue'[l] = queue[l] /\ running'[l] = running[l]
    BY <1>1, <2>1
  <2>3. ASSUME NEW s \in Seq(Messages), s # <<>>
        PROVE  /\ Head(s) = s[1] /\ Len(s) \in Nat /\ Len(s) > 0 /\ Len(Tail(s)) = Len(s) - 1
               /\ \A i \in 1 .. Len(Tail(s)) : Tail(s)[i] = s[i + 1]
    BY <2>3
  <2>4. /\ Head(queue[k]) = queue[k][1] /\ Len(queue[k]) \in Nat /\ Len(queue[k]) > 0
        /\ Len(Tail(queue[k])) = Len(queue[k]) - 1
        /\ \A i \in 1 .. Len(Tail(queue[k])) : Tail(queue[k])[i] = queue[k][i + 1]
    BY <1>1, <2>3
  <2> QED BY <2>2, <2>4
<1>3. step[k] = "begin"
  <2>1. step[k] \in {"begin", "add", "store", "bind", "remove"}
    BY DEF PlayerTyped
  <2> QED BY <1>1, <2>1 DEF StepsOfHandlers
<1>4. ASSUME NEW d
      PROVE  /\ QuietLink(d)' <=> QuietLink(d)
             /\ QuietFlushing(d)' <=> QuietFlushing(d)
             /\ QuietPending(d)' <=> QuietPending(d)
             /\ QuietHeld(d)' <=> QuietHeld(d)
  BY <1>1 DEF QuietHeld, QuietLink, QuietFlushing, QuietPending, Silent, HoldsFor
<1>5. ASSUME NEW d \in Clients PROVE ProxyGoneLast(d)'
  BY <1>1, <1>4 DEF GoneLast, ProxyGoneLast, HoldsFor, Silent
<1>6. ASSUME NEW l \in Lanes PROVE LaneGoneLast(l)'
  <2>1. CASE l # k
    BY <1>1, <1>2, <1>4, <2>1 DEF GoneLast, LaneGoneLast
  <2>2. CASE l = k
    <3>1. LaneGoneLast(k)
      BY DEF GoneLast
    <3>2. running'[k] = "gone" => queue'[k] = <<>> /\ QuietHeld(owner[k])
      <4>1. 1 \in 1 .. Len(queue[k])
        BY <1>2
      <4>2. running'[k] = "gone" => 1 = Len(queue[k]) /\ QuietHeld(owner[k])
        BY <1>2, <3>1, <4>1 DEF LaneGoneLast
      <4>3. ASSUME 1 = Len(queue[k]) PROVE queue'[k] = <<>>
        <5>1. queue'[k] \in Seq(Messages) /\ Len(queue'[k]) = 0
          BY <1>1, <1>2, <4>3
        <5> QED BY <5>1
      <4> QED BY <4>2, <4>3
    <3>3. ASSUME NEW i \in 1 .. Len(queue'[k]), queue'[k][i] = "gone"
          PROVE  i = Len(queue'[k]) /\ QuietHeld(owner[k])
      <4>1. i + 1 \in 1 .. Len(queue[k]) /\ queue[k][i + 1] = "gone"
        BY <1>2, <3>3
      <4>2. i + 1 = Len(queue[k]) /\ QuietHeld(owner[k])
        BY <3>1, <4>1 DEF LaneGoneLast
      <4> QED BY <1>2, <4>2
    <3> QED BY <1>1, <1>4, <2>2, <3>2, <3>3 DEF LaneGoneLast
  <2> QED BY <2>1, <2>2
<1>7. ASSUME NEW l \in Lanes, LaneComing(l) PROVE LaneComing(l)'
  <2>1. CASE l # k
    BY <1>1, <1>2, <1>7, <2>1 DEF LaneComing
  <2>2. CASE l = k
    <3>1. PICK i \in 1 .. Len(queue[k]) : queue[k][i] = "gone"
      BY <1>1, <1>7, <2>2 DEF LaneComing
    <3>2. CASE i = 1
      BY <1>1, <1>2, <1>3, <2>2, <3>1, <3>2 DEF LaneComing
    <3>3. CASE i # 1
      <4>1. i - 1 \in 1 .. Len(queue'[k]) /\ queue'[k][i - 1] = "gone"
        BY <1>2, <3>1, <3>3
      <4> QED BY <2>2, <4>1 DEF LaneComing
    <3> QED BY <3>2, <3>3
  <2> QED BY <2>1, <2>2
<1>8. ASSUME NEW d \in Clients, Coming(d) PROVE Coming(d)'
  BY <1>1, <1>7, <1>8 DEF Coming, Active, HoldsFor
<1>9. ASSUME NEW d \in Clients, Quiet(d) PROVE Quiet(d)'
  <2>1. owner[k] # d
    BY <1>1, <1>9 DEF Quiet
  <2> QED BY <1>1, <1>2, <1>9, <2>1 DEF Quiet, HoldsFor
<1> QED BY <1>5, <1>6, <1>8, <1>9 DEF Keeps, GoneLast

LEMMA ReaperKeeps ==
  ASSUME LanesInv, GoneLast, Reaper
  PROVE  Keeps
<1>1. UNCHANGED <<pipe, step, at>>
  BY DEF Reaper, Reap, pipe, gatewayVars, proxyVars, playerVars
<1> QED BY <1>1, SessionKeeps DEF Silent, Active

\* A handler takes nothing from the queues; only where a farewell is begun with
\* something that was coming does not come any more.
LEMMA HandleKeeps ==
  ASSUME LanesInv, StepsNamed, GoneLast, PlayerTyped, NEW k \in Lanes, Handle(k)
  PROVE  /\ GoneLast'
         /\ \A c \in Clients :
              Coming(c) => Coming(c)' \/ /\ c = owner[k] /\ Quiet(c)'
                                         /\ running[k] = "gone" /\ step[k] = "begin"
                                         /\ HandleLeave(k)
         /\ \A c \in Clients : Quiet(c) => Quiet(c)'
<1>1. /\ UNCHANGED <<at, pending, flushing, link, held, owner, queue>>
      /\ running[k] # Nobody
      /\ Continue(k, "add") \/ Continue(k, "store") \/ Continue(k, "bind") \/ Continue(k, "remove") \/ Return(k)
  <2>1. step[k] \in {"add", "store", "bind", "remove"} => running[k] # Nobody
    BY DEF StepsNamed
  <2> QED BY <2>1
      DEF Handle, HandleLogin, HandleEnter, EnterAdd, EnterStore, EnterBind, HandleLeave, LeaveRemove,
          Return, End, Continue, laneVars, gatewayVars, proxyVars
<1>2. /\ \A l \in Lanes : l # k => running'[l] = running[l] /\ step'[l] = step[l]
      /\ running'[k] \in {running[k], Nobody}
  <2>1. running \in [Lanes -> Messages \union {Nobody}]
        /\ step \in [Lanes -> {"begin", "add", "store", "bind", "remove"}]
    BY DEF LanesInv, LanesTypeOK, PlayerTyped
  <2> QED BY <1>1, <2>1 DEF Return, End, Continue, laneVars
<1>3. running[k] = "gone" /\ step[k] = "begin" => HandleLeave(k)
  BY DEF Handle, HandleLogin, HandleEnter, EnterAdd, EnterStore, EnterBind, LeaveRemove
<1>4. ASSUME NEW d
      PROVE  /\ QuietLink(d)' <=> QuietLink(d)
             /\ QuietFlushing(d)' <=> QuietFlushing(d)
             /\ QuietPending(d)' <=> QuietPending(d)
             /\ QuietHeld(d)' <=> QuietHeld(d)
  BY <1>1 DEF QuietHeld, QuietLink, QuietFlushing, QuietPending, Silent, HoldsFor
<1>5. ASSUME NEW d \in Clients PROVE ProxyGoneLast(d)'
  BY <1>1, <1>4 DEF GoneLast, ProxyGoneLast, HoldsFor, Silent
<1>6. ASSUME NEW l \in Lanes PROVE LaneGoneLast(l)'
  <2>1. running'[l] = "gone" => running[l] = "gone"
    BY <1>2
  <2> QED BY <1>1, <1>4, <2>1 DEF GoneLast, LaneGoneLast
<1>7. ASSUME NEW d \in Clients, Quiet(d) PROVE Quiet(d)'
  BY <1>1, <1>2, <1>7 DEF Quiet, HoldsFor
<1>8. ASSUME NEW d \in Clients, Coming(d), ~ (d = owner[k] /\ running[k] = "gone" /\ step[k] = "begin")
      PROVE  Coming(d)'
  <2>1. ASSUME NEW l \in Lanes, owner[l] = d, LaneComing(l) PROVE LaneComing(l)'
    BY <1>1, <1>2, <1>8, <2>1 DEF LaneComing
  <2> QED BY <1>1, <1>8, <2>1 DEF Coming, Active, HoldsFor
<1>9. ASSUME NEW d \in Clients, d = owner[k], running[k] = "gone" PROVE Quiet(d)'
  <2>1. queue[k] = <<>> /\ QuietHeld(d)
    BY <1>9 DEF GoneLast, LaneGoneLast
  <2>2. \A l \in Lanes : owner[l] = d /\ l # k => queue[l] = <<>> /\ running[l] = Nobody
    BY <1>1, <1>9, WorkOf DEF Working
  <2>3. ~ Has(pending, d) /\ ~ Has(flushing, d) /\ ~ Has(link, d) /\ ~ HoldsFor(d)
    BY <2>1 DEF QuietHeld, QuietLink, QuietFlushing, QuietPending
  <2> QED BY <1>1, <1>2, <1>9, <2>1, <2>2, <2>3 DEF Quiet, HoldsFor
<1> QED BY <1>3, <1>5, <1>6, <1>7, <1>8, <1>9 DEF GoneLast

-----------------------------------------------------------------------------
(* The player who is online *)

\* A step that keeps what is coming, and does nothing to the player.
LEMMA KeepsPresence ==
  ASSUME Keeps, Onward, BoundConnected, Expected, PlayerTyped,
         UNCHANGED <<bound, online, step>>,
         \A c \in Clients : at[c] # "off" => at'[c] # "off"
  PROVE  Onward' /\ BoundConnected' /\ Expected'
<1>1. Onward'
  BY DEF Keeps, Onward
<1>2. BoundConnected'
  BY DEF BoundConnected, PlayerTyped
<1>3. Expected'
  BY DEF Keeps, Expected, PlayerTyped
<1> QED BY <1>1, <1>2, <1>3

\* A handler with an enter has it from a client who will be reported gone.
LEMMA EntersComing ==
  ASSUME LanesInv, GoneLast, Onward, NEW k \in Lanes, running[k] = "enter"
  PROVE  owner[k] \in Clients /\ Coming(owner[k]) /\ at[owner[k]] # "off"
<1>1. "enter" # Nobody
  BY ClientLanesAssumption, ClientPathAssumption
<1>2. owner[k] \in Clients
  BY <1>1, WorkOf DEF Working
<1>3. Coming(owner[k])
  BY <1>1, <1>2 DEF Onward, Quiet
<1>4. Silent(owner[k]) => at[owner[k]] # "off"
  BY DEF Silent
<1>5. Active(owner[k]) => at[owner[k]] # "off"
  BY DEF Active
<1>6. ~ Silent(owner[k]) => Active(owner[k])
  BY <1>2, <1>3, FarewellSilent DEF Coming, LaneComing
<1> QED BY <1>2, <1>3, <1>4, <1>5, <1>6

\* Handlers take over from each other: who leaves the player online is followed by
\* another, or by a farewell.
LEMMA HandlePresence ==
  ASSUME LanesInv, LanesTyped, StepsNamed, GoneLast, Onward, BoundConnected, Expected,
         NEW k \in Lanes, Handle(k)
  PROVE  GoneLast' /\ Onward' /\ BoundConnected' /\ Expected'
<1> DEFINE Expecting == \/ \E l \in Lanes : step[l] \in {"bind", "remove"}
                        \/ \E c \in bound : Coming(c)
<1>0. PlayerTyped /\ step \in [Lanes -> {"begin", "add", "store", "bind", "remove"}] /\ bound \subseteq Clients
  BY DEF LanesTyped, PlayerTyped
<1>1. /\ GoneLast'
      /\ \A c \in Clients :
           Coming(c) => Coming(c)' \/ /\ c = owner[k] /\ Quiet(c)'
                                      /\ running[k] = "gone" /\ step[k] = "begin"
                                      /\ HandleLeave(k)
      /\ \A c \in Clients : Quiet(c) => Quiet(c)'
  BY <1>0, HandleKeeps
<1>2. Onward'
  BY <1>1 DEF Onward
<1>3. UNCHANGED at
  BY DEF Handle, gatewayVars
<1>4. /\ \A l \in Lanes : l # k => step'[l] = step[l]
      /\ Return(k) => step'[k] = "begin"
      /\ \A p : Continue(k, p) => step'[k] = p
  BY <1>0 DEF Handle, HandleLogin, HandleEnter, EnterAdd, EnterStore, EnterBind, HandleLeave, LeaveRemove,
              Return, Continue
\* what another handler, or a client who is bound, promises
<1>5. ASSUME Expecting, bound \subseteq bound', step[k] \notin {"bind", "remove"},
             running[k] # "gone" \/ step[k] # "begin" \/ owner[k] \notin bound
      PROVE  Expected'
  <2>1. CASE \E l \in Lanes : step[l] \in {"bind", "remove"}
    BY <1>4, <1>5, <2>1 DEF Expected
  <2>2. CASE \E c \in bound : Coming(c)
    BY <1>0, <1>1, <1>5, <2>2 DEF Expected
  <2> QED BY <1>5, <2>1, <2>2
<1>6. ASSUME bound' = bound \/ (bound' = bound \union {owner[k]} /\ running[k] = "enter")
      PROVE  BoundConnected'
  BY <1>3, <1>6, EntersComing DEF BoundConnected
<1> HIDE DEF Expecting
<1>7. online => Expecting
  BY DEF Expected, Expecting
<1>8. CASE HandleLogin(k)
  <2>1. running[k] = "login" /\ UNCHANGED <<bound, online>>
    BY <1>8 DEF HandleLogin
  <2>2. step[k] \notin {"bind", "remove"}
    BY <2>1 DEF StepsNamed
  <2>3. ASSUME ~ online' PROVE Expected'
    BY <2>3 DEF Expected
  <2> QED BY <1>1, <1>2, <1>5, <1>6, <1>7, <2>1, <2>2, <2>3
<1>9. CASE HandleEnter(k)
  <2>1. /\ running[k] = "enter" /\ step[k] = "begin" /\ UNCHANGED online
        /\ bound' = bound \/ bound' = bound \union {owner[k]}
    BY <1>9 DEF HandleEnter
  <2>2. ASSUME ~ online' PROVE Expected'
    BY <2>2 DEF Expected
  <2> QED BY <1>1, <1>2, <1>5, <1>6, <1>7, <2>1, <2>2
<1>10. CASE EnterAdd(k)
  <2>1. step[k] = "add" /\ UNCHANGED <<bound, online>>
    BY <1>10 DEF EnterAdd
  <2>2. CASE online
    BY <1>1, <1>2, <1>5, <1>6, <1>7, <2>1, <2>2
  <2>3. CASE ~ online
    BY <1>1, <1>2, <1>6, <2>1, <2>3 DEF Expected
  <2> QED BY <2>2, <2>3
<1>14. CASE EnterStore(k)
  <2>1. step'[k] = "bind" /\ UNCHANGED bound
    BY <1>4, <1>14 DEF EnterStore
  <2> QED BY <1>1, <1>2, <1>6, <2>1 DEF Expected
<1>11. CASE EnterBind(k)
  <2>1. step[k] = "bind" /\ running[k] = "enter" /\ bound' = bound \union {owner[k]}
    BY <1>11 DEF EnterBind, StepsNamed
  <2>2. PICK c \in Clients : c = owner[k] /\ Coming(c)
    BY <1>0, <2>1, EntersComing
  <2>3. Coming(c)'
    BY <1>1, <2>1, <2>2
  <2>4. Expected'
    BY <2>1, <2>2, <2>3 DEF Expected
  <2> QED BY <1>1, <1>2, <1>6, <2>1, <2>4
<1>12. CASE HandleLeave(k)
  <2>1. step[k] = "begin" /\ running[k] \in {"leave", "gone"} /\ UNCHANGED <<bound, online>>
    BY <1>12 DEF HandleLeave
  <2>2. CASE online /\ (running[k] = "gone" => owner[k] \in bound)
    <3>1. step'[k] = "remove"
      BY <1>4, <1>12, <2>2 DEF HandleLeave
    <3> QED BY <1>1, <1>2, <1>6, <2>1, <3>1 DEF Expected
  <2>3. CASE ~ online
    BY <1>1, <1>2, <1>6, <2>1, <2>3 DEF Expected
  <2>4. CASE running[k] = "gone" /\ owner[k] \notin bound /\ online
    BY <1>1, <1>2, <1>5, <1>6, <1>7, <2>1, <2>4
  <2> QED BY <2>1, <2>2, <2>3, <2>4
<1>13. CASE LeaveRemove(k)
  <2>1. ~ online' /\ UNCHANGED bound
    BY <1>13 DEF LeaveRemove
  <2> QED BY <1>1, <1>2, <1>6, <2>1 DEF Expected
<1> QED BY <1>8, <1>9, <1>10, <1>11, <1>12, <1>13, <1>14 DEF Handle

\* A handler says what it handles, whatever the messages' order.
LEMMA StepsNamedNext ==
  ASSUME LanesTyped, StepsNamed, [Next]_vars
  PROVE  StepsNamed'
<1>0. /\ step \in [Lanes -> {"begin", "add", "store", "bind", "remove"}]
      /\ running \in [Lanes -> Messages \union {Nobody}]
  BY DEF LanesTyped, LanesTypeOK, PlayerTyped
<1>1. ASSUME NEW k \in Lanes, LaneBegin(k) PROVE StepsNamed'
  <2>1. step[k] = "begin" /\ UNCHANGED step
    BY <1>0, <1>1 DEF LaneBegin, Begin, playerVars, LanesTyped, StepsOfHandlers
  <2>2. \A l \in Lanes : l # k => running'[l] = running[l]
    BY <1>0, <1>1 DEF LaneBegin, Begin
  <2> QED BY <2>1, <2>2 DEF StepsNamed
<1>2. ASSUME NEW k \in Lanes, Handle(k) PROVE StepsNamed'
  <2>1. ASSUME Return(k) PROVE StepsNamed'
    <3>1. step'[k] = "begin" /\ \A l \in Lanes : l # k => /\ step'[l] = step[l]
                                                          /\ running'[l] = running[l]
      BY <1>0, <2>1 DEF Return, End
    <3> QED BY <3>1 DEF StepsNamed
  <2>2. ASSUME NEW p \in {"add", "store", "bind", "remove"}, Continue(k, p),
               IF p = "remove" THEN running[k] \in {"leave", "gone"} ELSE running[k] = "enter"
        PROVE  StepsNamed'
    <3>1. /\ step'[k] = p /\ UNCHANGED running
          /\ \A l \in Lanes : l # k => step'[l] = step[l]
      BY <1>0, <2>2 DEF Continue, laneVars
    <3> QED BY <2>2, <3>1 DEF StepsNamed
  <2>3. CASE HandleLogin(k) \/ EnterBind(k) \/ LeaveRemove(k)
    BY <2>1, <2>3 DEF HandleLogin, EnterBind, LeaveRemove
  <2>4. CASE HandleEnter(k)
    BY <2>1, <2>2, <2>4 DEF HandleEnter
  <2>5. CASE EnterAdd(k) \/ EnterStore(k)
    BY <2>1, <2>2, <2>5 DEF EnterAdd, EnterStore, StepsNamed
  <2>6. CASE HandleLeave(k)
    BY <2>1, <2>2, <2>6 DEF HandleLeave
  <2> QED BY <1>2, <2>3, <2>4, <2>5, <2>6 DEF Handle
<1>3. ASSUME UNCHANGED <<step, running>> PROVE StepsNamed'
  BY <1>3 DEF StepsNamed
<1>4. ASSUME NEW c \in Clients, GatewayStep(c) \/ SendStep(c) PROVE UNCHANGED <<step, running>>
  BY <1>4 DEF GatewayStep, SendStep, laneVars, playerVars
<1>5. CASE ProxyStep \/ Dispatch \/ Receive \/ Reaper \/ UNCHANGED vars
  BY <1>3, <1>5
  DEF ProxyStep, Dispatch, Enqueue, Receive, FindLane, Reaper, Reap, vars, laneVars, playerVars
<1> QED BY <1>1, <1>2, <1>3, <1>4, <1>5 DEF Next

LEMMA LostForGood ==
  ASSUME PathTyped, [Next]_vars, lost
  PROVE  lost'
BY DEF Next, Dispatch, LaneBegin, GatewayStep, SendStep, SendDirect, FindDown, AddPending,
       ProxyStep, Reconnect, Break, FlushOne, Receive, Handle, Reaper, vars

LEMMA PresenceInit == Init => PresenceInv
<1> SUFFICES ASSUME Init PROVE PresenceInv
  OBVIOUS
<1> USE DEF Init, LanesInit
<1>1. StepsNamed
  BY DEF StepsNamed
<1>2. ASSUME NEW c \in Clients PROVE ProxyGoneLast(c) /\ Quiet(c)
  BY EmptyMail DEF ProxyGoneLast, Quiet, HoldsFor
<1>3. ASSUME NEW l \in Lanes PROVE LaneGoneLast(l)
  <2>1. Nobody # "gone"
    BY ClientLanesAssumption, ClientPathAssumption
  <2> QED BY <2>1 DEF LaneGoneLast
<1> QED BY <1>1, <1>2, <1>3 DEF PresenceInv, GoneLast, Onward, BoundConnected, Expected

LEMMA PresenceNext ==
  ASSUME LanesInv, PathTyped, LanesTyped, PresenceInv, [Next]_vars
  PROVE  PresenceInv'
<1>1. StepsNamed /\ StepsNamed'
  BY StepsNamedNext DEF PresenceInv
<1> SUFFICES ASSUME ~ lost' PROVE GoneLast' /\ Onward' /\ BoundConnected' /\ Expected'
  BY <1>1 DEF PresenceInv
<1>2. GoneLast /\ Onward /\ BoundConnected /\ Expected
  BY LostForGood DEF PresenceInv
<1>3. GatewayTyped /\ PlayerTyped /\ StepsOfHandlers
  BY DEF PathTyped, LanesTyped
<1>4. ASSUME Keeps, UNCHANGED <<bound, online, step>>,
             \A c \in Clients : at[c] # "off" => at'[c] # "off"
      PROVE  GoneLast' /\ Onward' /\ BoundConnected' /\ Expected'
  BY <1>2, <1>3, <1>4, KeepsPresence DEF Keeps
<1>5. ASSUME NEW c \in Clients, GatewayStep(c) \/ (FindDown(c) /\ SendStep(c))
      PROVE  GoneLast' /\ Onward' /\ BoundConnected' /\ Expected'
  <2>1. Keeps
    BY <1>2, <1>3, <1>5, GatewayKeeps DEF SendStep
  <2>2. UNCHANGED <<bound, online, step>>
    BY <1>5 DEF GatewayStep, SendStep, playerVars
  <2> QED BY <1>3, <1>4, <1>5, <2>1, <2>2, GatewayPoints
<1>6. ASSUME NEW c \in Clients, SendDirect(c) \/ AddPending(c), SendStep(c)
      PROVE  GoneLast' /\ Onward' /\ BoundConnected' /\ Expected'
  <2>1. Keeps
    BY <1>2, <1>6, SendDirectKeeps, AddPendingKeeps DEF SendStep
  <2>2. UNCHANGED <<bound, online, step>>
    BY <1>6 DEF SendStep, playerVars
  <2>3. \A d \in Clients : at[d] # "off" => at'[d] # "off"
    BY <1>3, <1>6, SentPoints DEF SendDirect, AddPending
  <2> QED BY <1>4, <2>1, <2>2, <2>3
<1>7. CASE ProxyStep \/ Receive \/ Dispatch \/ Reaper
  <2>1. Keeps
    BY <1>2, <1>7, ProxyKeeps, ReceiveKeeps, DispatchKeeps, ReaperKeeps
  <2>2. UNCHANGED <<at, bound, online, step>>
    BY <1>7 DEF ProxyStep, Receive, Dispatch, Reaper, gatewayVars, playerVars
  <2> QED BY <1>4, <2>1, <2>2
<1>8. ASSUME NEW k \in Lanes, LaneBegin(k)
      PROVE  GoneLast' /\ Onward' /\ BoundConnected' /\ Expected'
  <2>1. Keeps
    BY <1>1, <1>2, <1>3, <1>8, LaneBeginKeeps
  <2>2. UNCHANGED <<at, bound, online, step>>
    BY <1>8 DEF LaneBegin, gatewayVars, playerVars
  <2> QED BY <1>4, <2>1, <2>2
<1>9. ASSUME NEW k \in Lanes, Handle(k)
      PROVE  GoneLast' /\ Onward' /\ BoundConnected' /\ Expected'
  BY <1>1, <1>2, <1>9, HandlePresence
<1>10. CASE UNCHANGED vars
  <2>1. UNCHANGED <<pipe, at, bound, online, step>>
    BY <1>10 DEF vars, laneVars, gatewayVars, proxyVars, playerVars, pipe
  <2>2. Keeps
    BY <1>2, <2>1, SessionKeeps DEF Silent, Active
  <2> QED BY <1>4, <2>1, <2>2
<1> QED BY <1>5, <1>6, <1>7, <1>8, <1>9, <1>10 DEF Next, SendStep

LEMMA PresentIsExpected ==
  ASSUME PlayerTyped, StepsOfHandlers, PresenceInv
  PROVE  NobodyLeftBehind
<1> SUFFICES ASSUME Drained, ~ lost, online PROVE FALSE
  BY DEF NobodyLeftBehind
<1>1. \A l \in Lanes : step[l] = "begin"
  BY DEF Drained, StepsOfHandlers
<1>2. PICK c \in bound : Coming(c)
  BY <1>1 DEF PresenceInv, Expected
<1>3. c \in Clients /\ Nobody # "gone"
  BY ClientLanesAssumption, ClientPathAssumption DEF PlayerTyped
<1>4. ~ Active(c) /\ ~ HoldsFor(c)
  BY <1>3 DEF Drained, Active, HoldsFor
<1>5. ~ Ends(pending, c) /\ ~ Ends(flushing, c) /\ ~ Ends(link, c)
  BY EmptyMail DEF Drained
<1>6. \A l \in Lanes : ~ LaneComing(l)
  BY <1>3 DEF Drained, LaneComing
<1> QED BY <1>2, <1>4, <1>5, <1>6 DEF Coming

\* When the connections of an account are closed and every message was handled, none
\* of them lost or overtaken, its player is not online, for any number of connections
\* and of takeovers between them.  (OnClose, handlePlayerLeaveGame, EnterGame)
THEOREM PathNobodyLeftBehind ==
  ASSUME Patient
  PROVE  Spec => []NobodyLeftBehind
<1>1. Spec => []LanesInv
  BY PathImplementsLanes, LanesInvariant, PTL
<1>2. Init => PathTyped /\ LanesTyped /\ PresenceInv
  BY TypedInit, PresenceInit
<1>3. /\ LanesInv /\ PathTyped /\ LanesTyped /\ PresenceInv /\ [Next]_vars
      => (PathTyped /\ LanesTyped /\ PresenceInv)'
  BY PathTypedNext, LanesTypedStep, PresenceNext
<1>4. LanesTyped /\ PresenceInv => NobodyLeftBehind
  BY PresentIsExpected DEF LanesTyped
<1> QED BY <1>1, <1>2, <1>3, <1>4, PTL DEF Spec
=============================================================================
