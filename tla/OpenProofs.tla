------------------------------- MODULE OpenProofs -------------------------------
(***************************************************************************)
(* Proofs about OpenAuction, for any users, amounts and start price: the   *)
(* promise that BidPlacement is compared with keeps what it is there for.  *)
(***************************************************************************)
EXTENDS OpenAuction, TLAPS

OfferInv == OffersAscend /\ \A i \in 1..Len(offers) : offers[i].amount > StartPrice

ResultInv == result # Null => ~open /\ result = [winner |-> Leader(offers), price |-> Floor(offers)]

OpenInv == TypeOK /\ OfferInv /\ ResultInv

\* What taking an offer does to the sequence of offers.
LEMMA Appended ==
  ASSUME TypeOK, NEW o \in Offer, TakeOffer(o)
  PROVE  /\ offers' \in Seq(Offer)
         /\ Len(offers') = Len(offers) + 1
         /\ offers'[Len(offers) + 1] = o
         /\ \A i \in 1..Len(offers) : offers'[i] = offers[i]
  BY DEF TypeOK, TakeOffer

\* The last offer is the highest, and with no offer the floor is the start price.
LEMMA FloorIsHighest ==
  ASSUME OpenAssumption, TypeOK, OfferInv
  PROVE  /\ Floor(offers) \in Nat
         /\ Floor(offers) >= StartPrice
         /\ \A i \in 1..Len(offers) : offers[i].amount <= Floor(offers)
<1>1. CASE offers = <<>>
  BY <1>1 DEF Floor, OpenAssumption
<1>2. CASE offers # <<>>
  <2>1. Len(offers) \in 1..Len(offers) /\ Floor(offers) = offers[Len(offers)].amount
    BY <1>2 DEF TypeOK, Floor
  <2>2. \A i \in 1..Len(offers) : offers[i].amount \in Nat
    <3>1. \A i \in 1..Len(offers) : offers[i] \in Offer
      BY DEF TypeOK
    <3> QED
      BY <3>1 DEF Offer
  <2>3. \A i \in 1..Len(offers) : i < Len(offers) => offers[i].amount < offers[Len(offers)].amount
    BY <2>1 DEF OfferInv, OffersAscend
  <2>4. ASSUME NEW i \in 1..Len(offers) PROVE offers[i].amount <= Floor(offers)
    <3>1. i < Len(offers) \/ i = Len(offers)
      BY DEF TypeOK
    <3> QED
      BY <2>1, <2>2, <2>3, <3>1
  <2>5. Floor(offers) >= StartPrice
    BY <2>1, <2>2 DEF OfferInv, OpenAssumption
  <2> QED
    BY <2>1, <2>2, <2>4, <2>5
<1> QED
  BY <1>1, <1>2

LEMMA InitOpen == Init => OpenInv
<1> SUFFICES ASSUME Init PROVE OpenInv
  OBVIOUS
<1>1. TypeOK
  BY DEF Init, TypeOK
<1>2. OfferInv /\ ResultInv
  BY DEF Init, OfferInv, OffersAscend, ResultInv
<1> QED
  BY <1>1, <1>2 DEF OpenInv

LEMMA TakeOfferKeeps ==
  ASSUME OpenAssumption, OpenInv, NEW o \in Offer, TakeOffer(o)
  PROVE  OpenInv'
<1> DEFINE n == Len(offers)
<1>0. TypeOK /\ OfferInv /\ ResultInv /\ n \in Nat
  BY DEF OpenInv, TypeOK
<1>1. /\ offers' \in Seq(Offer) /\ Len(offers') = n + 1 /\ offers'[n + 1] = o
      /\ \A i \in 1..n : offers'[i] = offers[i]
  BY <1>0, Appended
<1>2. open /\ UNCHANGED <<open, recorded, result>> /\ o.amount >= Floor(offers) + MinAbsolute
  BY DEF TakeOffer
<1>3. TypeOK'
  <2>1. recorded' \subseteq {offers'[i] : i \in 1..Len(offers')}
    BY <1>0, <1>1, <1>2 DEF TypeOK
  <2> QED
    BY <1>0, <1>1, <1>2, <2>1, Zenon DEF TypeOK
<1>4. \A i \in 1..n : offers[i].amount < o.amount
  <2>1. Floor(offers) \in Nat /\ \A i \in 1..n : offers[i].amount <= Floor(offers)
    BY <1>0, FloorIsHighest
  <2>2. \A i \in 1..n : offers[i] \in Offer
    BY <1>0 DEF TypeOK
  <2>3. \A i \in 1..n : offers[i].amount \in Nat
    BY <2>2 DEF Offer
  <2> QED
    BY <1>2, <2>1, <2>3 DEF Offer, OpenAssumption
<1>5. OfferInv'
  <2>1. ASSUME NEW i \in 1..(n + 1), NEW j \in 1..(n + 1), i < j
        PROVE  offers'[i].amount < offers'[j].amount
    <3>1. CASE j = n + 1
      BY <1>0, <1>1, <1>4, <2>1, <3>1
    <3>2. CASE j # n + 1
      <4>1. i \in 1..n /\ j \in 1..n
        BY <1>0, <2>1, <3>2
      <4> QED
        BY <1>0, <1>1, <2>1, <4>1 DEF OfferInv, OffersAscend
    <3> QED
      BY <3>1, <3>2
  <2>2. ASSUME NEW i \in 1..(n + 1) PROVE offers'[i].amount > StartPrice
    <3>1. CASE i = n + 1
      BY <1>0, <1>1, <1>2, <3>1, FloorIsHighest DEF Offer, OpenAssumption
    <3>2. CASE i # n + 1
      <4>1. i \in 1..n
        BY <1>0, <3>2
      <4> QED
        BY <1>0, <1>1, <4>1 DEF OfferInv
    <3> QED
      BY <3>1, <3>2
  <2> QED
    BY <1>1, <2>1, <2>2 DEF OfferInv, OffersAscend
<1>6. ResultInv'
  BY <1>0, <1>2 DEF ResultInv
<1> QED
  BY <1>3, <1>5, <1>6 DEF OpenInv

LEMMA NextOpen ==
  ASSUME OpenAssumption
  PROVE  OpenInv /\ [Next]_vars => OpenInv'
<1> SUFFICES ASSUME OpenInv, [Next]_vars PROVE OpenInv'
  OBVIOUS
<1> USE DEF OpenInv
<1>1. CASE UNCHANGED vars
  BY <1>1 DEF vars, TypeOK, OfferInv, OffersAscend, ResultInv, Leader, Floor
<1>2. ASSUME NEW o \in Offer, TakeOffer(o) PROVE OpenInv'
  BY <1>2, TakeOfferKeeps
<1>3. ASSUME NEW i \in 1..Len(offers), Record(i) PROVE OpenInv'
  <2>1. TypeOK'
    BY <1>3 DEF Record, TypeOK
  <2>2. OfferInv' /\ ResultInv'
    BY <1>3 DEF Record, OfferInv, OffersAscend, ResultInv, Leader, Floor
  <2> QED
    BY <2>1, <2>2
<1>4. CASE Close
  <2>1. TypeOK'
    BY <1>4 DEF Close, TypeOK
  <2>2. OfferInv' /\ ResultInv'
    BY <1>4 DEF Close, OfferInv, OffersAscend, ResultInv, Leader, Floor
  <2> QED
    BY <2>1, <2>2
<1>5. CASE Settle
  <2>1. Leader(offers) \in Users \cup {Null}
    <3>1. offers # <<>> => offers[Len(offers)] \in Offer
      BY DEF TypeOK
    <3> QED
      BY <3>1 DEF Leader, Offer
  <2>2. Floor(offers) \in Nat
    BY FloorIsHighest
  <2>3. TypeOK'
    BY <1>5, <2>1, <2>2 DEF Settle, TypeOK
  <2>4. OfferInv' /\ ResultInv'
    BY <1>5 DEF Settle, OfferInv, OffersAscend, ResultInv, Leader, Floor
  <2> QED
    BY <2>3, <2>4
<1> QED
  BY <1>1, <1>2, <1>3, <1>4, <1>5 DEF Next

LEMMA OpenIsInvariant ==
  ASSUME OpenAssumption
  PROVE  Spec => []OpenInv
  BY InitOpen, NextOpen, PTL DEF Spec

\* However many offers come, each is above all that came before it (the script
\* of placeBid compares with the last one only).
THEOREM OffersAlwaysAscend ==
  ASSUME OpenAssumption
  PROVE  Spec => []OffersAscend
<1>1. OpenInv => OffersAscend
  BY DEF OpenInv, OfferInv
<1> QED
  BY <1>1, OpenIsInvariant, PTL

\* The result is the leader and a price that no offer of the whole sale exceeds
\* (the end processor reads the two keys of the moment, never the offers).
THEOREM ResultIsAlwaysBest ==
  ASSUME OpenAssumption
  PROVE  Spec => []ResultIsBest
<1>1. OpenInv => ResultIsBest
  <2> SUFFICES ASSUME OpenInv, result # Null PROVE ResultIsBest
    BY DEF ResultIsBest
  <2>1. ~open /\ result.winner = Leader(offers) /\ result.price = Floor(offers)
    BY DEF OpenInv, ResultInv
  <2> QED
    BY <2>1, FloorIsHighest DEF OpenInv, ResultIsBest
<1> QED
  BY <1>1, OpenIsInvariant, PTL

=================================================================================
