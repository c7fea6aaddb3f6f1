--------------------------- MODULE MCPlayerAssets ---------------------------
(* Constants of PlayerAssets for TLC.                                      *)
EXTENDS PlayerAssets

CONSTANTS anna, lane1, lane2, sword, potion

=============================================================================
