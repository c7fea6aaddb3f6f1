----------------------------- MODULE MCTradeGold -----------------------------
(* Constants of TradeGold for TLC.                                         *)
EXTENDS TradeGold, TLC

CONSTANTS anna, ben, lane1, lane2

LaneEach == lane1 :> anna @@ lane2 :> ben
OneForAnna == anna :> 1 @@ ben :> 0
NoMails == [m \in {} |-> anna]
=============================================================================
