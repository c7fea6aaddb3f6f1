--------------------------- MODULE MCCrossActivity ---------------------------
(* Constants of CrossActivity for TLC.                                     *)
EXTENDS CrossActivity

CONSTANTS p1, p2, near, far, h1, h2

\* one player in each of two realms
OneEach == [p \in Players |-> IF p = p1 THEN near ELSE far]

=============================================================================
