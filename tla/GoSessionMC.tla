---------------------------- MODULE GoSessionMC ----------------------------
(* Instances of GoSession for TLC: two heartbeat goroutines at a time.      *)
EXTENDS GoSession, TLC

CONSTANTS b1, b2

TwoBeats == {b1, b2}
Symmetry == Permutations(TwoBeats)

=============================================================================
