------------------------------ MODULE MCSetup ------------------------------
(* Instances of Setup for TLC. *)
EXTENDS Setup, TLC

CONSTANTS w1, w2, b1, b2, u1, u2

Symmetry == Permutations(Workers) \cup Permutations(Backups) \cup Permutations(Usernames)
=============================================================================
