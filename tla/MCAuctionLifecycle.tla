-------------------------- MODULE MCAuctionLifecycle --------------------------
(* Instances of AuctionLifecycle for TLC. *)
EXTENDS AuctionLifecycle, TLC

CONSTANTS alice, bob, olga

MCUsers == {alice, bob, olga}
TwoBidders == {alice, bob}
OneBidder == {alice}

\* The two bidders are interchangeable (safety runs only).
BidderSymmetry == Permutations(TwoBidders)

=============================================================================
