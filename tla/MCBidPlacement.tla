---------------------------- MODULE MCBidPlacement ----------------------------
(* Instances of BidPlacement for TLC. *)
EXTENDS BidPlacement, TLC

CONSTANTS r1, r2, r3, alice, bob, olga

MCUsers == {alice, bob, olga}
TwoRequests == {r1, r2}
ThreeRequests == {r1, r2, r3}
RequestSymmetry == Permutations(Requests)

NoFaults == {}
SaveFaults == {"save_fails"}
ManyFaults == AllFaults \ {"script_fails", "save_fails"}
LiveFaults == {"script_fails", "reply_lost", "save_fails", "save_unacked", "undo_fails"}

=============================================================================
