----------------------------- MODULE MCPlayerGold -----------------------------
(* Constants of PlayerGold for TLC.                                        *)
EXTENDS PlayerGold, TLC

CONSTANTS anna, first, second, letter

\* anna's client, and the connection it has after a reconnect
BothAnna == first :> anna @@ second :> anna
ToAnna == letter :> anna
OnePiece == anna :> 1
=============================================================================
