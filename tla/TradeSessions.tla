---------------------------- MODULE TradeSessions ----------------------------
(***************************************************************************)
(* Trades between players: the sessions of the TradeManager                *)
(* (GameServer/game/trade/trade_manager.go) and the handler that confirms  *)
(* and swaps (GameServer/handler/message/trade_handler.go, game/trade/     *)
(* trade_swap.go).                                                         *)
(*                                                                         *)
(* Every operation of the manager holds its mutex and is one action.  The  *)
(* handler of the second confirmation goes on without it: it looks up both *)
(* actors, finishes the session, and moves the gold in up to four steps,   *)
(* on the lane of the player who confirmed, beside the lane of the other.  *)
(* Here a step that takes gold succeeds or fails as it likes; TradeGold    *)
(* composes this module with the gold itself.                              *)
(***************************************************************************)
EXTENDS LaneOwners, Integers, FiniteSets

CONSTANTS
  Offers,       \* the amounts a player may offer
  MaxTrade      \* bound: trades ever started

ASSUME TradeAssumption ==
  /\ Offers \subseteq Nat /\ 0 \in Offers
  /\ MaxTrade \in Nat

\* the sessions, numbered as they are started; 0 is none
Trades == 1 .. MaxTrade

\* What the handler on a lane is about to do: "lookup" of the actors, "finish" the
\* session, the steps of ExecuteSwap.
Steps == {"idle", "lookup", "finish", "takeA", "takeB", "refund", "giveA", "giveB"}

Swapping == {"takeA", "takeB", "refund", "giveA", "giveB"}

\* the two offers, that of A first
Terms == Offers \X Offers

Session == [a: Players, b: Players, offers: Terms, confirmed: SUBSET Players,
            completing: BOOLEAN]

ASSUME NoSession == Nobody \notin Session

\* the snapshot Confirm has returned to the handler
Snapshot == [step: Steps, trade: 0 .. MaxTrade, offers: Terms]

NoSnapshot == [step |-> "idle", trade |-> 0, offers |-> <<0, 0>>]

VARIABLES
  table,        \* table[p]: TradeManager.sessions[p]
  trades,       \* trades[s]: session s, Nobody until it is started
  handler,      \* handler[l]: what the trade handler on lane l is at
  agreed,       \* history: agreed[s][p]: the terms when p last confirmed s
  swaps         \* history: swaps[s]: swaps begun for session s

tradeVars == <<table, trades, handler, agreed, swaps>>

TradeTypeOK ==
  /\ table \in [Players -> 0 .. MaxTrade]
  /\ trades \in [Trades -> Session \union {Nobody}]
  /\ handler \in [Lanes -> Snapshot]
  /\ agreed \in [Trades -> [Players -> Terms \union {Nobody}]]
  /\ swaps \in [Trades -> Nat]

TradeInit ==
  /\ table = [p \in Players |-> 0]
  /\ trades = [s \in Trades |-> Nobody]
  /\ handler = [l \in Lanes |-> NoSnapshot]
  /\ agreed = [s \in Trades |-> [p \in Players |-> Nobody]]
  /\ swaps = [s \in Trades |-> 0]

-----------------------------------------------------------------------------
(* TradeManager *)

Parties(s) == {trades[s].a, trades[s].b}

Idling(l) == handler[l].step = "idle"

\* Start: both are in no session
Start(l, other) ==
  LET p == Owner[l] IN
  /\ Idling(l)
  /\ other # p
  /\ table[p] = 0 /\ table[other] = 0
  /\ \E s \in Trades :
       /\ trades[s] = Nobody
       /\ \A r \in 1 .. s - 1 : trades[r] # Nobody
       /\ trades' = [trades EXCEPT ![s] =
            [a |-> p, b |-> other, offers |-> <<0, 0>>, confirmed |-> {}, completing |-> FALSE]]
       /\ table' = [table EXCEPT ![p] = s, ![other] = s]
  /\ UNCHANGED <<handler, agreed, swaps>>

\* the terms of session s with p's offer changed
Offering(s, p, amount) ==
  IF p = trades[s].a THEN <<amount, trades[s].offers[2]>> ELSE <<trades[s].offers[1], amount>>

\* Mutant of StillConfirmed: a changed offer keeps the confirmations.
StillConfirmedByAll(s) == trades[s].confirmed

\* whose confirmations a changed offer leaves
StillConfirmed(s) == {}

\* SetGold: another amount takes both confirmations back, the same amount none
SetGold(l, amount) ==
  LET p == Owner[l]
      s == table[p]
  IN /\ Idling(l)
     /\ s # 0
     /\ ~ trades[s].completing
     /\ Offering(s, p, amount) # trades[s].offers
     /\ trades' = [trades EXCEPT ![s].offers = Offering(s, p, amount), ![s].confirmed = StillConfirmed(s)]
     /\ UNCHANGED <<table, handler, agreed, swaps>>

\* Mutant of FirstTime: every confirmation of both goes on to swap.
EveryTime(s) == TRUE

\* no handler has gone on with session s
FirstTime(s) == ~ trades[s].completing

\* Confirm: the first time both have confirmed, the handler goes on to swap
Confirm(l) ==
  LET p == Owner[l]
      s == table[p]
      both == trades[s].confirmed \union {p} = Parties(s)
      ready == both /\ FirstTime(s)
  IN /\ Idling(l)
     /\ s # 0
     /\ trades' = [trades EXCEPT ![s].confirmed = @ \union {p},
                                 ![s].completing = @ \/ ready]
     /\ agreed' = [agreed EXCEPT ![s][p] = trades[s].offers]
     /\ handler' = IF ready
                   THEN [handler EXCEPT ![l] =
                          [step |-> "lookup", trade |-> s, offers |-> trades[s].offers]]
                   ELSE handler
     /\ UNCHANGED <<table, swaps>>

\* Cancel by p, whoever has him as a partner, completing or not
Cancel(p) ==
  /\ table[p] # 0
  /\ table' = [x \in Players |-> IF x \in Parties(table[p]) THEN 0 ELSE table[x]]
  /\ UNCHANGED <<trades, handler, agreed, swaps>>

\* the message TRADE_CANCEL
CancelTrade(l) == Idling(l) /\ Cancel(Owner[l])

\* the offline hook of a logout on lane l
CancelOffline(l) ==
  /\ Idling(l)
  /\ \/ Cancel(Owner[l])
     \/ table[Owner[l]] = 0 /\ UNCHANGED tradeVars

-----------------------------------------------------------------------------
(* TradeHandler, after a Confirm that was ready *)

Step(l, step) == handler' = [handler EXCEPT ![l].step = step]

Done(l) == handler' = [handler EXCEPT ![l] = NoSnapshot]

\* GetPlayer for both; Finish is called in any case
Lookup(l) ==
  /\ handler[l].step = "lookup"
  /\ Step(l, "finish")
  /\ UNCHANGED <<table, trades, agreed, swaps>>

\* Finish deletes by player, not by session; offline parties end the matter
Finish(l, online) ==
  LET s == handler[l].trade IN
  /\ handler[l].step = "finish"
  /\ table' = [x \in Players |-> IF x \in Parties(s) THEN 0 ELSE table[x]]
  /\ IF online
     THEN Step(l, "takeA") /\ swaps' = [swaps EXCEPT ![s] = @ + 1]
     ELSE Done(l) /\ UNCHANGED swaps
  /\ UNCHANGED <<trades, agreed>>

\* ExecuteSwap: take from A, from B, and give; what was taken from A is given back
\* when B cannot pay
TakeA(l, ok) ==
  /\ handler[l].step = "takeA"
  /\ IF ok THEN Step(l, "takeB") ELSE Done(l)
  /\ UNCHANGED <<table, trades, agreed, swaps>>

TakeB(l, ok) ==
  /\ handler[l].step = "takeB"
  /\ Step(l, IF ok THEN "giveA" ELSE "refund")
  /\ UNCHANGED <<table, trades, agreed, swaps>>

Refund(l) ==
  /\ handler[l].step = "refund"
  /\ Done(l)
  /\ UNCHANGED <<table, trades, agreed, swaps>>

GiveA(l) ==
  /\ handler[l].step = "giveA"
  /\ Step(l, "giveB")
  /\ UNCHANGED <<table, trades, agreed, swaps>>

GiveB(l) ==
  /\ handler[l].step = "giveB"
  /\ Done(l)
  /\ UNCHANGED <<table, trades, agreed, swaps>>

-----------------------------------------------------------------------------
(* Specification *)

ManagerStep(l) ==
  \/ \E other \in Players : Start(l, other)
  \/ \E amount \in Offers : SetGold(l, amount)
  \/ Confirm(l)
  \/ CancelTrade(l)
  \/ CancelOffline(l)

SwapStep(l) ==
  \/ Lookup(l)
  \/ \E online \in BOOLEAN : Finish(l, online)
  \/ \E ok \in BOOLEAN : TakeA(l, ok) \/ TakeB(l, ok)
  \/ Refund(l) \/ GiveA(l) \/ GiveB(l)

TradeNext == \E l \in Lanes : ManagerStep(l) \/ SwapStep(l)

TradeSpec == TradeInit /\ [][TradeNext]_tradeVars

-----------------------------------------------------------------------------
(* Properties *)

\* Nobody pays a price he has not confirmed: while gold is moved for a session, its
\* amounts are the terms the manager held when each party's last Confirm was handled,
\* although offers, confirmations and cancellations come from two lanes in any order.
\* (SetGold takes the confirmations back.  What a client was showing his player at
\* that moment the server does not know.)
SwapAsAgreed ==
  \A l \in Lanes : handler[l].step \in Swapping =>
    \A p \in Parties(handler[l].trade) :
      agreed[handler[l].trade][p] = handler[l].offers

\* A session is swapped at most once, however often both confirm, and never by two
\* lanes at a time.  (Session.completing)
SwappedOnce ==
  /\ \A s \in Trades : swaps[s] <= 1
  /\ \A k, l \in Lanes :
       handler[k].step # "idle" /\ handler[l].step # "idle" /\ handler[k].trade = handler[l].trade
       => k = l
=============================================================================
