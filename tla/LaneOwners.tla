----------------------------- MODULE LaneOwners -----------------------------
(***************************************************************************)
(* The lanes of GameServer (GameServer/net/service/client_lane.go) as its  *)
(* handlers see them: a lane is a goroutine that runs the messages of one  *)
(* client, one after the other, on behalf of one player.                   *)
(***************************************************************************)
CONSTANTS
  Players,
  Lanes,        \* lanes of the players' clients; a reconnected client has a new one
  Owner,        \* Owner[l]: the player lane l works for
  Nobody        \* no player, no entry

ASSUME LaneAssumption ==
  /\ Owner \in [Lanes -> Players]
  /\ Nobody \notin Players
=============================================================================
