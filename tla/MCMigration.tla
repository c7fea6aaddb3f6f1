---------------------------- MODULE MCMigration ----------------------------
(* Small instances of Migration.  Every player is born on server a. *)
EXTENDS Migration

CONSTANTS a, b, t, c1, c2, p, q

BirthA == [x \in Players |-> a]

BirthAB == [x \in Players |-> IF x = p THEN a ELSE b]

NoLoss == {}

AllButComplete == MsgTypes \ {"Complete"}
=============================================================================
