---------------------------- MODULE CppServerMC ----------------------------
(* Instances of CppServer for TLC: two clients with two descriptors.        *)
EXTENDS CppServer, TLC

CONSTANTS c1, c2

TwoClients == {c1, c2}
Symmetry == Permutations(TwoClients)

=============================================================================
