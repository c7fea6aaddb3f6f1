------------------------------ MODULE Ownership ------------------------------
(***************************************************************************)
(* What player migration promises, whatever messages it takes: a player is *)
(* copied to a second server before any copy is dropped, so there is a     *)
(* server that holds it at all times.                                      *)
(***************************************************************************)
CONSTANTS Players, Servers

VARIABLE owners      \* owners[p]: the servers on which player p lives

Init == owners \in [Players -> {{s} : s \in Servers}]

\* The player is landed on one more server.
Copy(p, s) ==
  owners' = [owners EXCEPT ![p] = @ \union {s}]

\* One copy is dropped, by a commit on the source or an undo on the target;
\* never the last one.
Drop(p, s) ==
  /\ owners[p] # {s}
  /\ owners' = [owners EXCEPT ![p] = @ \ {s}]

Next == \E p \in Players, s \in Servers : Copy(p, s) \/ Drop(p, s)

Spec == Init /\ [][Next]_owners
=============================================================================
