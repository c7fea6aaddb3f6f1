------------------------------ MODULE ClientPath ------------------------------
(***************************************************************************)
(* The way of a client's messages from his TCP connection to his player's  *)
(* actor: the sessions of the Gateway (GatewayServer/client/connection,    *)
(* client/auth, client/message_handler.go), its proxy with the queue for   *)
(* the time without a GameServer (proxy/game_server_proxy.go), the lanes   *)
(* (ClientLanes), and the sessions and the presence of the player in       *)
(* GameServer (handler/message, session/session_manager.go,                *)
(* game/player/login_service.go).                                          *)
(*                                                                         *)
(* All clients are connections of one account with one player, one after   *)
(* the other or at the same time: what is hard is how they take over from  *)
(* each other.  A session closed by the client or kicked by a newer one    *)
(* says goodbye to GameServer on its own, beside the login of the other.   *)
(***************************************************************************)
EXTENDS ClientLanes, FiniteSets

CONSTANTS
  PendingCap,   \* 100 in SendToGameServer
  MaxLink,      \* bound: packets on their way to GameServer
  MaxSend,      \* bound: game messages and further logins of a client
  MaxBreak      \* bound: how often the connection to GameServer breaks

\* "login": AccountLoginNotify; "enter"; "leave": LEAVE_GAME with the player's id;
\* "gone": the LEAVE_GAME without an id that OnClose sends
ASSUME ClientPathAssumption ==
  /\ Messages = {"login", "enter", "leave", "gone"}
  /\ PendingCap \in Nat /\ MaxLink \in Nat /\ MaxSend \in Nat /\ MaxBreak \in Nat

\* What the Gateway's goroutine of a client is about to do.  SetAccountInfo: "store",
\* "kick"; SendToGameServer: "send", "queue"; RemoveSession: "remove", "unmap".
Points == {"off", "idle", "store", "kick", "send", "queue", "remove", "unmap", "gone"}

Mail == [client : Clients, message : Messages]

VARIABLES
  socket,       \* socket[c]: whether the client's connection is open
  at,           \* at[c]: the point the goroutine of c is at
  account,      \* account[c]: SessionInfo.AccountID is set
  mapped,       \* accountMap of the account
  old,          \* old[c]: the session SetAccountInfo found in it
  sending,      \* sending[c]: the message c's goroutine is sending
  sends,        \* sends[c]: game messages sent and further logins
  up,           \* the proxy's client is connected
  breaks,
  pending,      \* pendingQueue
  flushing,     \* what flushPendingMessages has taken and still to send
  link,         \* packets on their way to GameServer
  known,        \* clients with a session in the SessionManager
  bound,        \* those whose session has a player id
  online,       \* the player has an actor
  step,         \* step[l]: how far the handler on lane l is
  newest,       \* history: the client who was mapped last
  crossed,      \* history: that happened while another was between two of his steps
  lost          \* history: a message was lost, or overtaken by a later one of its client

gatewayVars == <<socket, at, account, mapped, old, sending, sends, newest, crossed>>
proxyVars == <<up, breaks, pending, flushing, link>>
playerVars == <<known, bound, online, step>>
vars == <<laneVars, gatewayVars, proxyVars, playerVars, lost>>

TypeOK ==
  /\ LanesTypeOK
  /\ socket \in [Clients -> BOOLEAN]
  /\ at \in [Clients -> Points]
  /\ account \in [Clients -> BOOLEAN]
  /\ {mapped, newest} \subseteq Clients \union {Nobody}
  /\ old \in [Clients -> Clients \union {Nobody}]
  /\ sending \in [Clients -> Messages \union {Nobody}]
  /\ sends \in [Clients -> 0 .. MaxSend]
  /\ {up, online, crossed, lost} \subseteq BOOLEAN
  /\ breaks \in 0 .. MaxBreak
  /\ pending \in Seq(Mail) /\ Len(pending) <= PendingCap
  /\ flushing \in Seq(Mail) /\ link \in Seq(Mail)
  /\ known \subseteq Clients /\ bound \subseteq Clients
  /\ step \in [Lanes -> {"begin", "add", "store", "bind", "remove"}]

Init ==
  /\ LanesInit
  /\ socket = [c \in Clients |-> FALSE]
  /\ at = [c \in Clients |-> "off"]
  /\ account = [c \in Clients |-> FALSE]
  /\ mapped = Nobody /\ newest = Nobody
  /\ old = [c \in Clients |-> Nobody]
  /\ sending = [c \in Clients |-> Nobody]
  /\ sends = [c \in Clients |-> 0]
  /\ up = FALSE /\ breaks = 0
  /\ pending = <<>> /\ flushing = <<>> /\ link = <<>>
  /\ known = {} /\ bound = {} /\ online = FALSE
  /\ step = [l \in Lanes |-> "begin"]
  /\ crossed = FALSE /\ lost = FALSE

-----------------------------------------------------------------------------
(* Connections of clients: ClientHandler, ClientConnMgr, AuthHandler *)

Goto(c, point) == at' = [at EXCEPT ![c] = point]

Send(c, m) ==
  /\ Goto(c, "send")
  /\ sending' = [sending EXCEPT ![c] = m]

\* OnConnect
Connect(c) ==
  /\ at[c] = "off"
  /\ Goto(c, "idle")
  /\ socket' = [socket EXCEPT ![c] = TRUE]
  /\ UNCHANGED <<account, mapped, old, sending, sends, newest, crossed>>

\* the client closes his connection, or loses it
HangUp(c) ==
  /\ socket[c]
  /\ socket' = [socket EXCEPT ![c] = FALSE]
  /\ UNCHANGED <<at, account, mapped, old, sending, sends, newest, crossed>>

\* HandleTokenVerify, SetAccountInfo: the session the account has now, which is that of
\* the client himself if he logs in again.  (RemoveSession comes after OnClose's other
\* steps: his session exists.)
Verify(c) ==
  /\ at[c] = "idle" /\ socket[c]
  /\ account[c] => sends[c] < MaxSend
  /\ sends' = [sends EXCEPT ![c] = IF account[c] THEN @ + 1 ELSE @]
  /\ old' = [old EXCEPT ![c] = mapped]
  /\ Goto(c, "store")
  /\ UNCHANGED <<socket, account, mapped, sending, newest, crossed>>

Store(c) ==
  /\ at[c] = "store"
  /\ account' = [account EXCEPT ![c] = TRUE]
  /\ mapped' = c /\ newest' = c
  /\ crossed' = (crossed \/ \E d \in Clients \ {c} : at[d] \in {"store", "unmap"})
  /\ Goto(c, "kick")
  /\ UNCHANGED <<socket, old, sending, sends>>

\* Mutant of Kicked: the old session is left alone.
KickedNobody(c) == {}

\* the session kickFn closes
Kicked(c) == {old[c]} \ {c, Nobody}

\* the old session is closed, and GameServer told of the new one
Kick(c) ==
  /\ at[c] = "kick"
  /\ socket' = [d \in Clients |-> socket[d] /\ d \notin Kicked(c)]
  /\ Send(c, "login")
  /\ old' = [old EXCEPT ![c] = Nobody]
  /\ UNCHANGED <<account, mapped, sends, newest, crossed>>

\* HandleMessage: only an authenticated session gets through
Forward(c, m) ==
  /\ at[c] = "idle" /\ socket[c] /\ account[c]
  /\ sends[c] < MaxSend
  /\ sends' = [sends EXCEPT ![c] = @ + 1]
  /\ Send(c, m)
  /\ UNCHANGED <<socket, account, mapped, old, newest, crossed>>

\* Mutant of Farewell: a closed connection is not reported to GameServer.
FarewellToNobody(c) == Goto(c, "remove") /\ UNCHANGED sending

\* the message OnClose sends for the client
Farewell(c) == Send(c, "gone")

OnClose(c) ==
  /\ at[c] = "idle" /\ ~ socket[c]
  /\ Farewell(c)
  /\ UNCHANGED <<socket, account, mapped, old, sends, newest, crossed>>

\* Mutant of StillMapped: whoever is mapped is removed.
AnyMapped(c) == account[c]

\* the account's current session is the one that is being removed
StillMapped(c) == account[c] /\ mapped = c

\* RemoveSession, in two steps: the comparison ...
RemoveSession(c) ==
  /\ at[c] = "remove"
  /\ Goto(c, IF StillMapped(c) THEN "unmap" ELSE "gone")
  /\ UNCHANGED <<socket, account, mapped, old, sending, sends, newest, crossed>>

\* ... and the deletion
Unmap(c) ==
  /\ at[c] = "unmap"
  /\ mapped' = Nobody
  /\ Goto(c, "gone")
  /\ UNCHANGED <<socket, account, old, sending, sends, newest, crossed>>

GatewayStep(c) ==
  /\ \/ Connect(c) \/ HangUp(c) \/ Verify(c) \/ Store(c) \/ Kick(c)
     \/ Forward(c, "enter") \/ Forward(c, "leave")
     \/ OnClose(c) \/ RemoveSession(c) \/ Unmap(c)
  /\ UNCHANGED <<laneVars, proxyVars, playerVars, lost>>

-----------------------------------------------------------------------------
(* The proxy: SendToGameServer, flushPendingMessages *)

Sent(c) ==
  /\ Goto(c, IF sending[c] = "gone" THEN "remove" ELSE "idle")
  /\ sending' = [sending EXCEPT ![c] = Nobody]
  /\ UNCHANGED <<socket, account, mapped, old, sends, newest, crossed>>

Room == Len(link) < MaxLink

Packet(c) == [client |-> c, message |-> sending[c]]

Older(c) ==
  \E i \in DOMAIN (pending \o flushing) : (pending \o flushing)[i].client = c

\* With a connection the message is sent, and overtakes those of its client that are
\* still queued.  A send that fails, as the connection breaks after it was asked for,
\* loses the message like a Break does.
SendDirect(c) ==
  /\ at[c] = "send"
  /\ up /\ Room
  /\ link' = Append(link, Packet(c))
  /\ lost' = (lost \/ Older(c))
  /\ Sent(c)
  /\ UNCHANGED <<up, breaks, pending, flushing>>

\* Without one it will be queued; this is asked without the lock of the queue.
FindDown(c) ==
  /\ at[c] = "send"
  /\ ~ up
  /\ Goto(c, "queue")
  /\ UNCHANGED <<socket, account, mapped, old, sending, sends, newest, crossed, proxyVars, lost>>

\* Mutant of PendingFull: one more.
PendingFullLate == Len(pending) > PendingCap

PendingFull == Len(pending) >= PendingCap

AddPending(c) ==
  /\ at[c] = "queue"
  /\ pending' = IF PendingFull THEN pending ELSE Append(pending, Packet(c))
  /\ lost' = (lost \/ PendingFull)
  /\ Sent(c)
  /\ UNCHANGED <<up, breaks, flushing, link>>

SendStep(c) ==
  /\ SendDirect(c) \/ FindDown(c) \/ AddPending(c)
  /\ UNCHANGED <<laneVars, playerVars>>

\* The connection is made; its callback, flushPendingMessages, takes the queue, and no
\* message that is queued in between is any different from one queued before.
Reconnect ==
  /\ ~ up /\ flushing = <<>>
  /\ up' = TRUE
  /\ flushing' = pending
  /\ pending' = <<>>
  /\ UNCHANGED <<breaks, link, lost>>

\* what is on its way is lost with it
Break ==
  /\ up
  /\ breaks < MaxBreak
  /\ breaks' = breaks + 1
  /\ up' = FALSE
  /\ link' = <<>>
  /\ lost' = (lost \/ link # <<>>)
  /\ UNCHANGED <<pending, flushing>>

FlushOne ==
  /\ flushing # <<>>
  /\ Room
  /\ flushing' = Tail(flushing)
  /\ link' = IF up THEN Append(link, Head(flushing)) ELSE link
  /\ lost' = (lost \/ ~ up)
  /\ UNCHANGED <<up, breaks, pending>>

ProxyStep ==
  /\ Reconnect \/ Break \/ FlushOne
  /\ UNCHANGED <<laneVars, gatewayVars, playerVars>>

-----------------------------------------------------------------------------
(* GameServer: dispatch, and the handlers on the lanes *)

Receive ==
  /\ link # <<>>
  /\ FindLane(Head(link).client, Head(link).message)
  /\ link' = Tail(link)
  /\ UNCHANGED <<gatewayVars, up, breaks, pending, flushing, playerVars, lost>>

Dispatch ==
  /\ Enqueue
  /\ lost' = (lost \/ Full(held.lane))
  /\ UNCHANGED <<gatewayVars, proxyVars, playerVars>>

Return(l) == End(l) /\ step' = [step EXCEPT ![l] = "begin"]

Continue(l, point) == step' = [step EXCEPT ![l] = point] /\ UNCHANGED laneVars

\* handleAccountLoginNotify
HandleLogin(l) ==
  /\ running[l] = "login"
  /\ known' = known \union {owner[l]}
  /\ Return(l)
  /\ UNCHANGED <<bound, online>>

\* EnterGame: without a session nothing is done; a player who is online is bound to
\* this session, another is loaded
HandleEnter(l) ==
  /\ running[l] = "enter" /\ step[l] = "begin"
  /\ \/ owner[l] \notin known /\ Return(l) /\ UNCHANGED bound
     \/ owner[l] \in known /\ online /\ Return(l) /\ bound' = bound \union {owner[l]}
     \/ owner[l] \in known /\ ~ online /\ Continue(l, "add") /\ UNCHANGED bound
  /\ UNCHANGED <<known, online>>

\* AddPlayer looks whether another lane has been faster, which is an error ...
EnterAdd(l) ==
  /\ step[l] = "add"
  /\ IF online THEN Return(l) ELSE Continue(l, "store")
  /\ UNCHANGED <<known, bound, online>>

\* ... and stores the new actor, over that of a lane that has looked at the same time.
EnterStore(l) ==
  /\ step[l] = "store"
  /\ online' = TRUE
  /\ Continue(l, "bind")
  /\ UNCHANGED <<known, bound>>

\* BindPlayer
EnterBind(l) ==
  /\ step[l] = "bind"
  /\ bound' = bound \union {owner[l]}
  /\ Return(l)
  /\ UNCHANGED <<known, online>>

\* handlePlayerLeaveGame and the start of LeaveGame: a message without a player's id
\* is for the player its session was bound to
HandleLeave(l) ==
  /\ running[l] \in {"leave", "gone"} /\ step[l] = "begin"
  /\ IF online /\ (running[l] = "gone" => owner[l] \in bound)
     THEN Continue(l, "remove")
     ELSE Return(l)
  /\ UNCHANGED <<known, bound, online>>

\* the end of LeaveGame: whoever is the player's actor now is removed
LeaveRemove(l) ==
  /\ step[l] = "remove"
  /\ online' = FALSE
  /\ Return(l)
  /\ UNCHANGED <<known, bound>>

LaneBegin(l) ==
  /\ Begin(l)
  /\ UNCHANGED <<gatewayVars, proxyVars, playerVars, lost>>

Handle(l) ==
  /\ \/ HandleLogin(l) \/ HandleEnter(l) \/ EnterAdd(l) \/ EnterStore(l)
     \/ EnterBind(l) \/ HandleLeave(l) \/ LeaveRemove(l)
  /\ UNCHANGED <<gatewayVars, proxyVars, lost>>

\* a lane that is reaped when its client has gone makes no difference any more
Reaper ==
  /\ \E c \in Clients : at[c] = "idle" /\ Reap(c)
  /\ UNCHANGED <<gatewayVars, proxyVars, playerVars, lost>>

-----------------------------------------------------------------------------
(* Specification *)

\* no packet between lookup and queue, no idle lane with something to do
Settled ==
  /\ held = Nobody
  /\ \A l \in Lanes : running[l] = Nobody => queue[l] = <<>>

\* Enqueue and Begin follow at once: with a Patient reaper no other step could tell the
\* difference, but for a queue that overflows a little earlier.
Next ==
  \/ Dispatch
  \/ \E l \in Lanes : LaneBegin(l)
  \/ /\ Patient => Settled
     /\ \/ \E c \in Clients : GatewayStep(c) \/ SendStep(c)
        \/ ProxyStep
        \/ Receive
        \/ \E l \in Lanes : Handle(l)
        \/ Reaper

Spec == Init /\ [][Next]_vars

-----------------------------------------------------------------------------
(* Properties *)

\* The account is looked up under its newest session, as long as that is there: the
\* end of an older one takes nothing from it, unless the two crossed between the
\* comparison and the deletion.  (RemoveSession, SetAccountInfo)
NewestMapped ==
  ~ crossed =>
    mapped = IF newest = Nobody \/ at[newest] = "gone" THEN Nobody ELSE newest

\* One account is not logged in twice: once every login has kicked whom it found, only
\* the newest session of the account has a connection, unless two logins crossed.
\* (SetAccountInfo, kickFn)
SingleLogin ==
  ~ crossed /\ (\A c \in Clients : at[c] # "kick") =>
    \A c \in Clients : account[c] /\ socket[c] => c = newest

Drained ==
  /\ \A c \in Clients : at[c] \in {"off", "gone"}
  /\ pending = <<>> /\ flushing = <<>> /\ link = <<>> /\ held = Nobody
  /\ \A l \in Lanes : queue[l] = <<>> /\ running[l] = Nobody

\* Nobody is left behind: when all connections of an account are closed and every
\* message was handled, the player is not online, however their logins, takeovers,
\* logouts and ends were interleaved; unless a message was lost or overtaken.
\* (OnClose, handlePlayerLeaveGame, EnterGame)
NobodyLeftBehind == Drained /\ ~ lost => ~ online
=============================================================================
