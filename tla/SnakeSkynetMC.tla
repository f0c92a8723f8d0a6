--------------------------- MODULE SnakeSkynetMC ---------------------------
(* Small instances of SnakeSkynet for TLC. *)
EXTENDS SnakeSkynet

CONSTANTS p1, p2

MCTwo == {p1, p2}
=============================================================================
