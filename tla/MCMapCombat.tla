----------------------------- MODULE MCMapCombat ----------------------------
(* Values of the constants for the runs of MapCombat. *)
EXTENDS MapCombat, TLC

CONSTANTS ann, bob, hill, pond

OneEach == [s \in Points |-> 1]

\* players and spawn points are interchangeable
Alike == Permutations(Players) \union Permutations(Points)
=============================================================================
