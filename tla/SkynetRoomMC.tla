---------------------------- MODULE SkynetRoomMC ----------------------------
(* SkynetRoom on a board with room for two snakes in a line, or two lines. *)
EXTENDS SkynetRoom

Site(a, b) == [x |-> a, y |-> b]

MCSpawnSites == {Site(2, 2), Site(5, 2), Site(3, 3)}
\* Ahead of a snake, where two of them meet, and under one of the sites.
MCFoodSites == {Site(3, 2), Site(4, 3), Site(4, 2)}

ASSUME NotCrowded == NeverCrowded
=============================================================================
