----------------------------- MODULE CppTimersMC -----------------------------
(* Instances of CppTimers for TLC.                                          *)
EXTENDS CppTimers

CONSTANTS s1, s2

=============================================================================
