------------------------------ MODULE AuctionKeys ------------------------------
(***************************************************************************)
(* The Redis keys of one auction, and what each operation of RedisService  *)
(* does to them.  The four keys are one record:                            *)
(*                                                                         *)
(*   active   auction:<id>:active exists (it carries the TTL of the sale)  *)
(*   price    auction:<id>:price, the leading amount, or Null              *)
(*   owner    auction:<id>:owner, or Null                                  *)
(*   bidder   auction:<id>:bidder, the leading user, or Null               *)
(*                                                                         *)
(* Every operator here is one atomic Redis command, MULTI block or script. *)
(* Operations that take several commands are actions of the modules that   *)
(* use this one.  Prices are whole numbers of the smallest currency unit.  *)
(***************************************************************************)
EXTENDS Integers

CONSTANTS Users,         (* the user ids                                   *)
          Null,          (* a missing key, a null column, an unset local   *)
          MinAbsolute,   (* config.bid.minIncrementAbsolute                *)
          Percent        (* config.bid.minIncrementPercent                 *)

ASSUME KeysAssumption ==
  /\ Null \notin Users
  /\ Null \notin Nat
  /\ MinAbsolute \in Nat \ {0}
  /\ Percent \in Nat

Price == Nat \cup {Null}
UserOrNull == Users \cup {Null}

Keys == [active : BOOLEAN, price : Price, owner : UserOrNull, bidder : UserOrNull]

NoKeys == [active |-> FALSE, price |-> Null, owner |-> Null, bidder |-> Null]

-----------------------------------------------------------------------------

\* Mutated form: rounds down, and forgets the floor.
CalcMinIncrementNoFloor(price) == (price * Percent) \div 100

\* bid.constants.ts: ceil(price * percent / 100), but never below the floor.
CalcMinIncrement(price) ==
  LET computed == (price * Percent + 99) \div 100
  IN  IF price <= 0 \/ computed < MinAbsolute THEN MinAbsolute ELSE computed

\* A key that is missing counts as 0, in the script (price) and in placeBid.
OrZero(price) == IF price = Null THEN 0 ELSE price

\* Mutated forms of BID_SCRIPT: one check is left to the caller of the script.
BidVerdictIgnoringActive(k, user, amount, minIncrement) ==
  IF k.bidder = user THEN "ALREADY_LEADING"
  ELSE IF amount < OrZero(k.price) + minIncrement THEN "TOO_LOW"
  ELSE "ACCEPTED"

BidVerdictIgnoringLeader(k, user, amount, minIncrement) ==
  IF ~k.active THEN "AUCTION_INACTIVE"
  ELSE IF amount < OrZero(k.price) + minIncrement THEN "TOO_LOW"
  ELSE "ACCEPTED"

BidVerdictIgnoringAmount(k, user, amount, minIncrement) ==
  IF ~k.active THEN "AUCTION_INACTIVE"
  ELSE IF k.bidder = user THEN "ALREADY_LEADING"
  ELSE "ACCEPTED"

\* BID_SCRIPT, in the order of its checks.
BidVerdict(k, user, amount, minIncrement) ==
  IF ~k.active THEN "AUCTION_INACTIVE"
  ELSE IF k.bidder = user THEN "ALREADY_LEADING"
  ELSE IF amount < OrZero(k.price) + minIncrement THEN "TOO_LOW"
  ELSE "ACCEPTED"

\* Mutated form: the bidder is SET with NX, as in initializeAuction.
AfterBidKeepingBidder(k, user, amount) ==
  [k EXCEPT !.price = amount, !.bidder = IF @ = Null THEN user ELSE @]

AfterBid(k, user, amount) == [k EXCEPT !.price = amount, !.bidder = user]

\* Mutated form: SET without NX.
InitializedAgain(k, startingPrice, ownerId) ==
  [k EXCEPT !.active = TRUE, !.price = startingPrice, !.owner = ownerId]

\* initializeAuction: three SET NX in a MULTI block.  The bidder key is not set.
Initialized(k, startingPrice, ownerId) ==
  [k EXCEPT !.active = TRUE,
            !.price  = IF @ = Null THEN startingPrice ELSE @,
            !.owner  = IF @ = Null THEN ownerId ELSE @]

\* restoreAuction: SETs without NX; the bidder key only if there is a bidder.
Restored(k, price, ownerId, bidderId) ==
  [active |-> TRUE, price |-> price, owner |-> ownerId,
   bidder |-> IF bidderId = Null THEN k.bidder ELSE bidderId]

\* The TTL of the active key runs out; the other keys outlive it by an hour.
ActiveExpired(k) == [k EXCEPT !.active = FALSE]

=============================================================================
