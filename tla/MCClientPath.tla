----------------------------- MODULE MCClientPath -----------------------------
(* Constants of ClientPath for TLC.                                        *)
EXTENDS ClientPath, TLC

CONSTANTS phone, tablet

Protocol == {"login", "enter", "leave", "gone"}

\* Once a message was lost or the connection broke, only one client goes on: the first
\* connection, before which messages are queued as well, is met by both.
TroubledAlone == lost \/ breaks > 0 => \E c \in Clients : at[c] = "off"

\* the two connections play the same part
Alike == Permutations(Clients)
=============================================================================
