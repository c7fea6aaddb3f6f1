----------------------------- MODULE ClientLanes -----------------------------
(***************************************************************************)
(* The lanes of GameServer (GameServer/net/service/client_lane.go): a      *)
(* queue and a goroutine for every client whose messages arrive over the   *)
(* one connection from the Gateway, and the reaper of idle lanes.          *)
(*                                                                         *)
(* The goroutine of the connection dispatches: it finds or makes the lane  *)
(* of the client, then puts the message into its queue.  The reaper takes  *)
(* a lane from the table; its goroutine goes on with what it has.          *)
(***************************************************************************)
EXTENDS Integers, Sequences

CONSTANTS
  Clients,      \* client sessions of the Gateway
  Messages,
  Nobody,       \* no client, no message
  MaxLane,      \* bound: lanes ever made
  LaneCap,      \* clientLaneQueueSize
  Patient       \* TRUE: the reaper's five minutes are longer than any handler and
                \* than the dispatch of any message

\* lanes, numbered as they are made; 0 is none
Lanes == 1 .. MaxLane

\* a message that is being dispatched
Held == [client : Clients, message : Messages, lane : Lanes]

ASSUME ClientLanesAssumption ==
  /\ Nobody \notin Clients \union Messages \union Held
  /\ MaxLane \in Nat
  /\ LaneCap \in Nat \ {0}
  /\ Patient \in BOOLEAN

VARIABLES
  laneOf,       \* laneOf[c]: TCPService.clientLanes[c]
  owner,        \* owner[l]: the client lane l was made for
  queue,        \* queue[l]: the channel jobs
  running,      \* running[l]: the message the goroutine of the lane is handling
  held          \* the message between its lane's lookup and its queue

laneVars == <<laneOf, owner, queue, running, held>>

LanesTypeOK ==
  /\ laneOf \in [Clients -> 0 .. MaxLane]
  /\ owner \in [Lanes -> Clients \union {Nobody}]
  /\ queue \in [Lanes -> Seq(Messages)]
  /\ running \in [Lanes -> Messages \union {Nobody}]
  /\ held \in Held \union {Nobody}

LanesInit ==
  /\ laneOf = [c \in Clients |-> 0]
  /\ owner = [l \in Lanes |-> Nobody]
  /\ queue = [l \in Lanes |-> <<>>]
  /\ running = [l \in Lanes |-> Nobody]
  /\ held = Nobody

-----------------------------------------------------------------------------
(* dispatchToLane *)

\* Load, or LoadOrStore and a new goroutine
FindLane(c, m) ==
  /\ held = Nobody
  /\ \E l \in Lanes :
       /\ held' = [client |-> c, message |-> m, lane |-> l]
       /\ \/ l = laneOf[c] /\ UNCHANGED <<laneOf, owner>>
          \/ /\ laneOf[c] = 0
             /\ owner[l] = Nobody
             /\ \A k \in 1 .. l - 1 : owner[k] # Nobody
             /\ laneOf' = [laneOf EXCEPT ![c] = l]
             /\ owner' = [owner EXCEPT ![l] = c]
  /\ UNCHANGED <<queue, running>>

Full(l) == Len(queue[l]) >= LaneCap

\* Mutant of Enqueue: a full queue makes room for the newest message.
EnqueueNewest ==
  /\ held # Nobody
  /\ held' = Nobody
  /\ LET q == queue[held.lane] IN
       queue' = [queue EXCEPT ![held.lane] =
                   Append(IF Full(held.lane) THEN Tail(q) ELSE q, held.message)]
  /\ UNCHANGED <<laneOf, owner, running>>

\* a full queue drops the message
Enqueue ==
  /\ held # Nobody
  /\ held' = Nobody
  /\ IF Full(held.lane) THEN UNCHANGED queue
     ELSE queue' = [queue EXCEPT ![held.lane] = Append(@, held.message)]
  /\ UNCHANGED <<laneOf, owner, running>>

-----------------------------------------------------------------------------
(* runLane *)

Begin(l) ==
  /\ running[l] = Nobody
  /\ queue[l] # <<>>
  /\ running' = [running EXCEPT ![l] = Head(queue[l])]
  /\ queue' = [queue EXCEPT ![l] = Tail(@)]
  /\ UNCHANGED <<laneOf, owner, held>>

\* the handler returns, or panics
End(l) ==
  /\ running[l] # Nobody
  /\ running' = [running EXCEPT ![l] = Nobody]
  /\ UNCHANGED <<laneOf, owner, queue, held>>

-----------------------------------------------------------------------------
(* laneReapLoop *)

LookedUp(l) == held # Nobody /\ held.lane = l

\* Mutant of Idle: an empty queue is enough.
IdleAtOnce(l) == queue[l] = <<>> /\ ~ LookedUp(l)

\* Not used for five minutes and nothing queued.  A Patient reaper never takes a lane
\* that is running, or that the dispatcher has just looked up.
Idle(l) ==
  /\ queue[l] = <<>>
  /\ Patient => running[l] = Nobody /\ ~ LookedUp(l)

Reap(c) ==
  /\ laneOf[c] # 0
  /\ Idle(laneOf[c])
  /\ laneOf' = [laneOf EXCEPT ![c] = 0]
  /\ UNCHANGED <<owner, queue, running, held>>

-----------------------------------------------------------------------------
(* Specification *)

LanesNext ==
  \/ \E c \in Clients : (\E m \in Messages : FindLane(c, m)) \/ Reap(c)
  \/ Enqueue
  \/ \E l \in Lanes : Begin(l) \/ End(l)

LanesSpec == LanesInit /\ [][LanesNext]_laneVars

-----------------------------------------------------------------------------
(* Properties *)

\* Two messages of one client are never handled at the same time, although his lane
\* may be reaped and made again in between.  (client_lane.go: one client's messages
\* stay strictly serial)
OneAtATime ==
  \A k, l \in Lanes :
    running[k] # Nobody /\ running[l] # Nobody /\ owner[k] = owner[l] => k = l

Waiting == [c \in Clients |-> IF laneOf[c] = 0 THEN <<>> ELSE queue[laneOf[c]]]

Busy == [c \in Clients |-> IF laneOf[c] = 0 THEN Nobody ELSE running[laneOf[c]]]

Promise == INSTANCE ClientQueue WITH waiting <- Waiting, busy <- Busy

\* Lanes that come and go keep what is promised: each client has one queue, nothing
\* in it is lost, overtaken or repeated.  (client_lane.go)
ImplementsQueue == Promise!Spec
=============================================================================
