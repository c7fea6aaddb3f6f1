------------------------------ MODULE TradeGold ------------------------------
(***************************************************************************)
(* Trades that move gold: PlayerGold and TradeSessions composed.  A lane   *)
(* is in one handler at a time; a swap works on the actors it has looked   *)
(* up, whether or not they are still the current ones; the logout of a     *)
(* player cancels his trade between the copy of his gold to the cache and  *)
(* the removal of his actor (LoginService.LeaveGame, RunOfflineHooks).     *)
(* saveLoop, which only copies what an actor has, is left to PlayerGold.   *)
(***************************************************************************)
EXTENDS PlayerGold, TradeSessions

ASSUME TradeGoldAssumption == IsFiniteSet(Lanes) /\ IsFiniteSet(Mails)

VARIABLES
  pair          \* pair[l]: the actors the swap on lane l works on, A's first

vars == <<goldVars, tradeVars, pair>>

TypeOK ==
  /\ GoldTypeOK
  /\ TradeTypeOK
  /\ pair \in [Lanes -> (0 .. MaxLogin) \X (0 .. MaxLogin)]

Init ==
  /\ GoldInit
  /\ TradeInit
  /\ pair = [l \in Lanes |-> <<0, 0>>]

-----------------------------------------------------------------------------
(* Steps of one part *)

\* trade messages of a player who has entered the game and whose lane has nothing
\* else to do: the partner need not be online
ManagerOnly(l) ==
  /\ job[l].at = "idle"
  /\ Online(Owner[l])
  /\ \/ \E other \in Players : Start(l, other)
     \/ \E amount \in Offers : SetGold(l, amount)
     \/ Confirm(l)
     \/ CancelTrade(l)
  /\ UNCHANGED <<goldVars, pair>>

\* what a lane does with gold that is no business of the trades
GoldOnly(l) ==
  /\ Idling(l)
  /\ LaneStep(l)
  /\ ~ LogoutHooks(l)
  /\ UNCHANGED <<tradeVars, pair>>

Reward ==
  /\ \E p \in Players : Earn(p)
  /\ UNCHANGED <<tradeVars, pair>>

\* the hook NewTradeHandler has registered
LogoutAndCancel(l) ==
  /\ LogoutHooks(l)
  /\ CancelOffline(l)
  /\ UNCHANGED pair

-----------------------------------------------------------------------------
(* The handler of the second confirmation *)

LookupActors(l) ==
  /\ Lookup(l)
  /\ pair' = [pair EXCEPT ![l] =
       <<current[trades[handler[l].trade].a], current[trades[handler[l].trade].b]>>]
  /\ UNCHANGED goldVars

FinishTrade(l) ==
  /\ Finish(l, pair[l][1] # 0 /\ pair[l][2] # 0)
  /\ UNCHANGED <<goldVars, pair>>

\* what the swap leaves alone
OtherGold == <<row, current, owner, cache, job, todo, reading, ticking, mail, paid,
               earned, failures, pair>>

\* AddGold by a handler; nothing is added when nothing was offered
GiveGold(a, amount) ==
  IF amount = 0 THEN UNCHANGED <<gold, ledger, quiet>> ELSE Pay(a, amount)

\* Mutant of TakeGold: ReduceGold without its check.
TakeGoldUnchecked(a, amount) ==
  IF amount = 0 THEN UNCHANGED <<gold, ledger, quiet>> ELSE Pay(a, 0 - amount)

\* ReduceGold is refused when there is less
TakeGold(a, amount) ==
  IF amount = 0 \/ gold[a] < amount THEN UNCHANGED <<gold, ledger, quiet>>
  ELSE Pay(a, 0 - amount)

TakeFromA(l) ==
  LET amount == handler[l].offers[1] IN
  /\ TakeA(l, gold[pair[l][1]] >= amount)
  /\ TakeGold(pair[l][1], amount)
  /\ UNCHANGED OtherGold

TakeFromB(l) ==
  LET amount == handler[l].offers[2] IN
  /\ TakeB(l, gold[pair[l][2]] >= amount)
  /\ TakeGold(pair[l][2], amount)
  /\ UNCHANGED OtherGold

\* Mutant of Refunded: ExecuteSwap without its roll back.
RefundedNothing(l) == 0

\* what A gets back when B cannot pay
Refunded(l) == handler[l].offers[1]

RefundA(l) ==
  /\ Refund(l)
  /\ GiveGold(pair[l][1], Refunded(l))
  /\ UNCHANGED OtherGold

GiveToA(l) ==
  /\ GiveA(l)
  /\ GiveGold(pair[l][1], handler[l].offers[2])
  /\ UNCHANGED OtherGold

GiveToB(l) ==
  /\ GiveB(l)
  /\ GiveGold(pair[l][2], handler[l].offers[1])
  /\ UNCHANGED OtherGold

-----------------------------------------------------------------------------
(* Specification *)

Next ==
  \/ \E l \in Lanes :
       \/ ManagerOnly(l) \/ GoldOnly(l) \/ LogoutAndCancel(l)
       \/ LookupActors(l) \/ FinishTrade(l)
       \/ TakeFromA(l) \/ TakeFromB(l) \/ RefundA(l) \/ GiveToA(l) \/ GiveToB(l)
  \/ Reward

Spec == Init /\ [][Next]_vars

-----------------------------------------------------------------------------
(* Properties *)

\* what has been taken from one party and not yet given to the other
Taken(l) ==
  LET x == handler[l].offers[1]
      y == handler[l].offers[2]
  IN CASE handler[l].step \in {"takeB", "refund"} -> x
       [] handler[l].step = "giveA" -> x + y
       [] handler[l].step = "giveB" -> x
       [] OTHER -> 0

\* what p has, wherever it is kept
Worth(p) == IF Online(p) THEN gold[current[p]] ELSE row[p]

Sums == INSTANCE Functions

Total(f) == Sums!SumFunction(f)

\* Trades neither make nor destroy gold: what the players have, plus what a swap has
\* taken and not yet given, is what they began with plus what they were paid, through
\* failed and rolled back swaps, logins and logouts, unless one of them was disturbed
\* (a logout had read his gold before it was moved, and the others of PlayerGold).
\* (ExecuteSwap, LeaveGame)
GoldConserved ==
  (\A p \in Players : ledger[p] # Nobody) =>
    Total([p \in Players |-> Worth(p)]) + Total([l \in Lanes |-> Taken(l)])
      = Total(Wealth) + Total(paid) + earned
=============================================================================
