------------------------------ MODULE MCClient ------------------------------
(* Instances of Client for TLC. *)
EXTENDS Client, TLC

CONSTANTS r1, r2, r3, m1, m2, m3, listener

ClientSymmetry == Permutations(Requests) \cup Permutations(Messages)

=============================================================================
