------------------------------ MODULE MCBidLive ------------------------------
(* A fair instance of OrderlyBids for TLC. *)
EXTENDS MCBidPlacement, OrderlyBids

==============================================================================
