------------------------------ MODULE OpenAuction ------------------------------
(***************************************************************************)
(* What a bidder is promised: an open ascending auction.  Offers arrive    *)
(* one at a time while the sale is open, each from somebody who does not   *)
(* lead yet and is not the owner, each above the last by at least the      *)
(* absolute increment.  Every offer may be put on record once.  When the   *)
(* sale is closed the last offer wins, and the result never changes.       *)
(*                                                                         *)
(* BidPlacement is shown to implement this specification.                  *)
(***************************************************************************)
EXTENDS Integers, Sequences

CONSTANTS Users, Owner, Amounts, Null, StartPrice, MinAbsolute

\* What the theorems assume of the constants.
OpenAssumption ==
  /\ Null \notin Users
  /\ StartPrice \in Nat \ {0}
  /\ MinAbsolute \in Nat \ {0}

VARIABLES open,      (* offers are taken                                   *)
          offers,    (* the offers taken, oldest first                     *)
          recorded,  (* the offers on record                               *)
          result     (* Null, then [winner, price]                         *)

vars == <<open, offers, recorded, result>>

Offer == [user : Users \ {Owner}, amount : Amounts \cap Nat]

Leader(s) == IF s = <<>> THEN Null ELSE s[Len(s)].user
Floor(s)  == IF s = <<>> THEN StartPrice ELSE s[Len(s)].amount

Init ==
  /\ open = TRUE
  /\ offers = <<>>
  /\ recorded = {}
  /\ result = Null

TakeOffer(o) ==
  /\ open
  /\ o.user # Leader(offers)
  /\ o.amount >= Floor(offers) + MinAbsolute
  /\ offers' = Append(offers, o)
  /\ UNCHANGED <<open, recorded, result>>

Record(i) ==
  /\ offers[i] \notin recorded
  /\ recorded' = recorded \cup {offers[i]}
  /\ UNCHANGED <<open, offers, result>>

Close ==
  /\ open
  /\ open' = FALSE
  /\ UNCHANGED <<offers, recorded, result>>

Settle ==
  /\ ~open
  /\ result = Null
  /\ result' = [winner |-> Leader(offers), price |-> Floor(offers)]
  /\ UNCHANGED <<open, offers, recorded>>

Next ==
  \/ \E o \in Offer : TakeOffer(o)
  \/ \E i \in 1..Len(offers) : Record(i)
  \/ Close
  \/ Settle

Spec == Init /\ [][Next]_vars

-----------------------------------------------------------------------------

TypeOK ==
  /\ open \in BOOLEAN
  /\ offers \in Seq(Offer)
  /\ recorded \subseteq {offers[i] : i \in 1..Len(offers)}
  /\ result \in {Null} \cup [winner : Users \cup {Null}, price : Nat]

\* Offers strictly ascend, so no two of them can tie, whichever pair one takes.
OffersAscend ==
  \A i, j \in 1..Len(offers) : i < j => offers[i].amount < offers[j].amount

\* A result is only there once the sale is closed, and it is the best offer of
\* the whole sale, not just of the moment it was drawn.
ResultIsBest ==
  result # Null =>
    /\ ~open
    /\ result.winner = Leader(offers)
    /\ \A i \in 1..Len(offers) : offers[i].amount <= result.price

=============================================================================
