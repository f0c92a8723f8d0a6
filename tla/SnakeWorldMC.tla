---------------------------- MODULE SnakeWorldMC ----------------------------
(* SnakeWorld on the smallest board with two disjoint spawning places.     *)
EXTENDS SnakeWorld

At(a, b) == [x |-> a, y |-> b]

MCSpawnSites == {At(2, 2), At(2, 3)}
\* Food right ahead of a snake, beside it, and under the body of one of them.
MCFoodSites == {At(1, 2), At(3, 2), At(3, 4)}
=============================================================================
