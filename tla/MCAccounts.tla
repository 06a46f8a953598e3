------------------------------ MODULE MCAccounts ------------------------------
(* Instances of Accounts for TLC. *)
EXTENDS Accounts, TLC

CONSTANTS c1, c2, old, new, f1, f2, f3

AccountSymmetry == Permutations(Calls) \cup Permutations(Passwords) \cup Permutations(Files)

=============================================================================
