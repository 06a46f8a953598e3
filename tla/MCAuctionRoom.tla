---------------------------- MODULE MCAuctionRoom ----------------------------
(* Instances of AuctionRoom for TLC. *)
EXTENDS AuctionRoom, TLC

CONSTANTS s1, s2, a1, a2, alice, bob, c1, c2, c3

\* Two tabs of one user.
SameUser == [s \in Sockets |-> alice]

RoomSymmetry == Permutations(Calls) \cup Permutations(Auctions) \cup Permutations(Sockets)

=============================================================================
