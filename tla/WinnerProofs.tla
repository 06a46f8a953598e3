----------------------------- MODULE WinnerProofs -----------------------------
(***************************************************************************)
(* Proofs that the best bid wins, and that BidPlacement implements the     *)
(* open ascending auction of OpenAuction.  Both need that no insert fails  *)
(* and that the end job reads the final keys (BidRollbackRace shows what   *)
(* happens otherwise); that the best bid has a row needs in addition that  *)
(* no accepted bid loses its process or its reply on the way to the table. *)
(***************************************************************************)
EXTENDS BidProofs

FinalKeysAreRead == Faults \cap {"read_fails", "early_end"} = {}

NothingIsLost == Faults \cap {"reply_lost", "crash"} = {}

-----------------------------------------------------------------------------
(* What one step of a call does to the bids that count. *)

SameBid(r) == req'[r].user = req[r].user /\ req'[r].amount = req[r].amount

\* Nothing is accepted, saved or given up.
Passes(r) ==
  /\ UNCHANGED <<keys, rows, accepted>>
  /\ Claims' = Claims

\* The process of a bid that was accepted may die before the insert.
Dies(r) ==
  /\ Fault("crash")
  /\ UNCHANGED <<keys, rows, accepted>>
  /\ Claims' \subseteq Claims

Records(r) ==
  /\ UNCHANGED <<keys, accepted>>
  /\ r \in Claims /\ r \notin rows
  /\ rows' = rows \cup {r}
  /\ Claims' = Claims

TakesTheLead(r) ==
  /\ req[r].pc = "script" /\ LocalVerdict(r) = "PASS" /\ Verdict(r) = "ACCEPTED"
  /\ ApplyBid(r)
  /\ UNCHANGED rows
  /\ Claims' \subseteq Claims \cup {r}
  /\ \/ Claims' = Claims \cup {r}
     \/ Fault("reply_lost")

\* A step that leaves everything but one call alone, and does not touch claims.
LEMMA PassesMeans ==
  ASSUME TypeOK, NEW r \in Requests, UNCHANGED <<keys, rows, accepted>>,
         \A s \in Requests \ {r} : req'[s] = req[s],
         req[r].pc # "save", req'[r].pc # "save"
  PROVE  Passes(r)
  BY DEF Passes, Claims, TypeOK

LEMMA CallStep ==
  ASSUME RollbackFree, TypeOK, LedgerInv, NEW r \in Requests,
         Submit(r) \/ Serve(r) \/ Fail(r)
  PROVE  /\ UNCHANGED <<auction, end, announced>>
         /\ \A s \in Requests \ {r} : req'[s] = req[s]
         /\ \/ Submit(r)
            \/ req[r].pc # "idle" /\ SameBid(r)
         /\ Passes(r) \/ Dies(r) \/ Records(r) \/ TakesTheLead(r)
<1>0. /\ req[r] \in Request
      /\ \A s \in rows : s \in Requests /\ req[s].pc = "done"
      /\ req[r].pc \notin {"ttl", "undoPrice", "undoBidder"}
  BY DEF TypeOK, LedgerInv
<1>1. CASE Submit(r)
  <2>1. req'[r].pc # "save"
    BY <1>1 DEF Submit, TypeOK, Idle
  <2>2. Passes(r)
    BY <1>1, <2>1, PassesMeans DEF Submit, TypeOK
  <2> QED
    BY <1>1, <2>2 DEF Submit, TypeOK
<1>2. CASE ReadOwner(r) \/ ReadActive(r) \/ ReadPrice(r)
  <2>1. PICK seen \in Seen, pc \in {"active", "price", "script"} :
          req' = [req EXCEPT ![r] = [req[r] EXCEPT !.seen = seen, !.pc = pc]]
    BY <1>2, ReadsEffect
  <2>2. req'[r] = [req[r] EXCEPT !.seen = seen, !.pc = pc]
    BY <2>1 DEF TypeOK
  <2>3. SameBid(r) /\ req'[r].pc # "save"
    BY <1>0, <2>2 DEF Request, SameBid
  <2>4. \A s \in Requests \ {r} : req'[s] = req[s]
    BY <2>1 DEF TypeOK
  <2>5. /\ req[r].pc \in {"owner", "active", "price"}
        /\ UNCHANGED <<keys, rows, auction, end, announced, accepted>>
    BY <1>2 DEF ReadOwner, ReadActive, ReadPrice
  <2> QED
    BY <2>3, <2>4, <2>5, PassesMeans
<1>3. CASE RejectLocally(r) \/ ScriptRejects(r) \/ (ScriptThrows(r) /\ UNCHANGED <<keys, accepted>>)
  <2>1. PICK reply \in Reply : req' = Answer(r, reply)
    BY <1>3 DEF RejectLocally, ScriptRejects, ScriptThrows, LocalVerdict, Reply
  <2>2. /\ SameBid(r) /\ req'[r].pc # "save"
        /\ \A s \in Requests \ {r} : req'[s] = req[s]
    BY <2>1, AnswerEffect DEF SameBid
  <2>3. /\ req[r].pc = "script"
        /\ UNCHANGED <<keys, rows, auction, end, announced, accepted>>
    BY <1>3 DEF RejectLocally, ScriptRejects, ScriptThrows
  <2> QED
    BY <2>2, <2>3, PassesMeans
<1>4. CASE ScriptAccepts(r)
  <2>1. /\ SameBid(r) /\ req'[r].pc = "save"
        /\ \A s \in Requests \ {r} : req'[s] = req[s]
    BY <1>0, <1>4 DEF ScriptAccepts, TypeOK, Request, SameBid
  <2>2. UNCHANGED rows /\ Claims' = Claims \cup {r}
    BY <1>4, <2>1 DEF ScriptAccepts, Claims, TypeOK
  <2> QED
    BY <1>4, <2>1, <2>2 DEF ScriptAccepts, TakesTheLead
<1>5. CASE ScriptThrows(r) /\ Fault("reply_lost") /\ Verdict(r) = "ACCEPTED" /\ ApplyBid(r)
  <2>1. /\ SameBid(r) /\ req'[r].pc = "done"
        /\ \A s \in Requests \ {r} : req'[s] = req[s]
    BY <1>5, AnswerEffect DEF ScriptThrows, Reply, SameBid
  <2>2. UNCHANGED rows /\ Claims' \subseteq Claims \cup {r}
    BY <1>5, <2>1 DEF ScriptThrows, Claims, TypeOK
  <2> QED
    BY <1>5, <2>1, <2>2 DEF ScriptThrows, TakesTheLead
<1>6. CASE SaveBid(r)
  <2>1. /\ SameBid(r) /\ req'[r].pc = "done"
        /\ \A s \in Requests \ {r} : req'[s] = req[s]
    BY <1>6, AnswerEffect DEF SaveBid, Reply, SameBid
  <2>2. r \in Claims /\ r \notin rows /\ rows' = rows \cup {r}
    BY <1>0, <1>6 DEF SaveBid, Claims
  <2>3. Claims' = Claims
    BY <1>6, <2>1, <2>2 DEF SaveBid, Claims, TypeOK
  <2> QED
    BY <1>6, <2>1, <2>2, <2>3 DEF SaveBid, Records
<1>7. CASE \/ SaveThrows(r) \/ RollbackReadsTtl(r) \/ RollbackPrice(r)
           \/ RollbackBidder(r) \/ RollbackThrows(r)
  BY <1>0, <1>7 DEF SaveThrows, Fault, RollbackFree, RollbackReadsTtl, RollbackPrice,
                    RollbackBidder, RollbackThrows
<1>8. CASE Crash(r)
  <2>1. req'[r] = [Answered(req[r], Null) EXCEPT !.pc = "crashed"]
    BY <1>8 DEF Crash, TypeOK
  <2>2. /\ Answered(req[r], Null) \in Request
        /\ Answered(req[r], Null).user = req[r].user
        /\ Answered(req[r], Null).amount = req[r].amount
    BY <1>0, AnsweredType
  <2>3. SameBid(r) /\ req'[r].pc = "crashed"
    BY <2>1, <2>2 DEF Request, SameBid
  <2>4. \A s \in Requests \ {r} : req'[s] = req[s]
    BY <1>8 DEF Crash, TypeOK
  <2>5. Claims' \subseteq Claims
    BY <1>8, <2>3, <2>4 DEF Crash, Claims, TypeOK
  <2> QED
    BY <1>8, <2>3, <2>4, <2>5 DEF Crash, Dies, InFlight
<1> QED
  BY <1>1, <1>2, <1>3, <1>4, <1>5, <1>6, <1>7, <1>8 DEF Serve, Fail, ScriptThrows

\* Whoever has a claim keeps the user and the amount of the bid.
LEMMA ClaimsStay ==
  ASSUME RollbackFree, TypeOK, LedgerInv, NEW r \in Requests,
         Submit(r) \/ Serve(r) \/ Fail(r)
  PROVE  \A s \in Claims : s \in Requests /\ SameBid(s)
<1>1. \A s \in Claims : s \in Requests /\ req[s].pc # "idle"
  BY DEF Claims, TypeOK, LedgerInv
<1>2. Submit(r) => r \notin Claims
  BY <1>1 DEF Submit
<1> QED
  BY <1>1, <1>2, CallStep DEF SameBid

\* What taking the lead does, in the terms of the keys.
LEMMA LeadMeans ==
  ASSUME TypeOK, NEW r \in Requests, TakesTheLead(r)
  PROVE  /\ keys.active /\ keys'.active
         /\ keys'.bidder = req[r].user /\ keys'.price = req[r].amount
         /\ keys'.price # Null
<1>1. /\ keys.active /\ req[r].amount \in Nat
      /\ keys' = [keys EXCEPT !.price = req[r].amount, !.bidder = req[r].user]
  BY ApplyBidFacts DEF TakesTheLead
<1>2. keys \in Keys
  BY DEF TypeOK
<1>3. req[r].amount # Null
  BY <1>1, KeysAssumption
<1> QED
  BY <1>1, <1>2, <1>3 DEF Keys

-----------------------------------------------------------------------------
(* The leader has a bid in the table, or on its way there. *)

\* user and price belong to one claim, or are what an auction starts with.
Leads(user, price) ==
  \/ Claims = {} /\ user = Null /\ price = StartPrice
  \/ \E r \in Claims : req[r].user = user /\ req[r].amount = price

BackedInv ==
  /\ keys.price # Null => Leads(keys.bidder, keys.price)
  /\ keys.price = Null => keys.bidder = Null

LEMMA InitBacked == Init => BackedInv
<1> SUFFICES ASSUME Init PROVE BackedInv
  OBVIOUS
<1>1. Claims = {}
  BY DEF Init, Claims, Idle
<1>2. keys.price = StartPrice /\ keys.bidder = Null
  BY DEF Init, Initialized, NoKeys
<1> QED
  BY <1>1, <1>2, BidAssumption, KeysAssumption DEF BackedInv, Leads

\* Claims that stay as they are back what they have backed.
LEMMA BackingStays ==
  ASSUME NEW user, NEW price, Leads(user, price), Claims' = Claims,
         \A s \in Claims : SameBid(s)
  PROVE  Leads(user, price)'
  BY DEF Leads, SameBid

LEMMA CallKeepsBacked ==
  ASSUME RollbackFree, NothingIsLost, TypeOK, LedgerInv, BackedInv, NEW r \in Requests,
         Submit(r) \/ Serve(r) \/ Fail(r)
  PROVE  BackedInv'
<1>1. \A s \in Claims : SameBid(s)
  BY ClaimsStay
<1>2. CASE Passes(r) \/ Records(r)
  <2>1. keys' = keys /\ Claims' = Claims
    BY <1>2 DEF Passes, Records
  <2>2. keys.price # Null => Leads(keys.bidder, keys.price)'
    BY <1>1, <2>1, BackingStays DEF BackedInv
  <2> QED
    BY <2>1, <2>2 DEF BackedInv, Leads
<1>3. CASE TakesTheLead(r)
  <2>1. r \in Claims' /\ req[r].pc = "script"
    BY <1>3 DEF TakesTheLead, Fault, NothingIsLost
  <2>2. SameBid(r)
    BY <2>1, CallStep DEF Submit
  <2> QED
    BY <1>3, <2>1, <2>2, LeadMeans DEF BackedInv, Leads, SameBid
<1>4. ~Dies(r)
  BY DEF Dies, Fault, NothingIsLost
<1> QED
  BY <1>2, <1>3, <1>4, CallStep

LEMMA EndKeepsBacked ==
  ASSUME TypeOK, BackedInv, ExpireActive \/ EndJob
  PROVE  BackedInv'
<1>0. keys \in Keys
  BY DEF TypeOK
<1>1. UNCHANGED <<req, rows>>
  BY DEF ExpireActive, EndJob, EndReadsPrice, EndReadsBidder, EndCommits, EndCleansUp,
         EndNotifies, EndAttemptFails
<1>2. Claims' = Claims
  BY <1>1 DEF Claims
<1>3. CASE keys'.price = keys.price /\ keys'.bidder = keys.bidder
  BY <1>1, <1>2, <1>3 DEF BackedInv, Leads
<1>4. CASE EndCleansUp
  BY <1>4 DEF EndCleansUp, NoKeys, BackedInv
<1>5. CASE ExpireActive
  BY <1>0, <1>3, <1>5 DEF ExpireActive, ActiveExpired, Keys
<1>6. CASE EndReadsPrice \/ EndReadsBidder \/ EndCommits \/ EndNotifies \/ EndAttemptFails
  BY <1>3, <1>6 DEF EndReadsPrice, EndReadsBidder, EndCommits, EndNotifies, EndAttemptFails
<1> QED
  BY <1>4, <1>5, <1>6 DEF EndJob

LEMMA NextKeepsBacked ==
  RollbackFree /\ NothingIsLost /\ TypeOK /\ LedgerInv /\ BackedInv /\ [Next]_vars => BackedInv'
<1>1. BackedInv /\ UNCHANGED vars => BackedInv'
  BY DEF vars, BackedInv, Leads, Claims
<1> QED
  BY <1>1, CallKeepsBacked, EndKeepsBacked DEF Next

\* When every accepted bid comes to its insert, and the insert succeeds, the
\* leader that the room is shown is a user whose bid is, or will be, a row.
THEOREM LeaderHasBid ==
  ASSUME RollbackFree, NothingIsLost
  PROVE  Spec => []LeaderIsBacked
<1> DEFINE Inv == TypeOK /\ LedgerInv /\ BackedInv
<1>1. Init => Inv
  BY InitTypeOK, InitLedger, InitBacked
<1>2. Inv /\ [Next]_vars => Inv'
  BY NextType, NextLedger, NextKeepsBacked
<1>3. Inv => LeaderIsBacked
  BY DEF BackedInv, Leads, LeaderIsBacked
<1> HIDE DEF Inv
<1> QED
  BY <1>1, <1>2, <1>3, PTL DEF Spec

\* When nobody is bidding and the auction is open, Redis and the table agree:
\* without rollbacks and losses, the race of BidRollbackRace cannot happen.
THEOREM RedisAgrees ==
  ASSUME RollbackFree, NothingIsLost
  PROVE  Spec => []RedisAgreesWithRows
<1> DEFINE Inv == TypeOK /\ LedgerInv /\ BackedInv
<1>1. Init => Inv
  BY InitTypeOK, InitLedger, InitBacked
<1>2. Inv /\ [Next]_vars => Inv'
  BY NextType, NextLedger, NextKeepsBacked
<1>3. Inv => RedisAgreesWithRows
  <2> SUFFICES ASSUME Inv, Quiescent, keys.active
               PROVE  /\ PriceCoversRows
                      /\ \/ rows = {} /\ keys.price = StartPrice /\ keys.bidder = Null
                         \/ \E r \in rows : req[r].user = keys.bidder /\ req[r].amount = keys.price
    BY DEF RedisAgreesWithRows
  <2>1. Claims = rows
    BY DEF Quiescent, Claims, InFlight
  <2>2. keys.price # Null
    BY DEF LedgerInv
  <2>3. PriceCoversRows
    BY <2>1 DEF LedgerInv, PriceCoversRows
  <2> QED
    BY <2>1, <2>2, <2>3 DEF BackedInv, Leads
<1> HIDE DEF Inv
<1> QED
  BY <1>1, <1>2, <1>3, PTL DEF Spec

-----------------------------------------------------------------------------
(* The end job records the last leader. *)

\* What the end job has read are the final keys: it starts after the active
\* key is gone, and nothing is accepted from then on.
FinalInv ==
  /\ end.pc \notin {"waiting", "skipped"} => ~keys.active
  /\ end.pc \in {"bidder", "commit"} => keys.price # Null /\ end.price = keys.price
  /\ end.pc = "commit" => end.winner = keys.bidder
  /\ auction.status = "ENDED" => ~keys.active

ResultInv ==
  auction.status = "ENDED" =>
    /\ Leads(auction.winner, auction.currentPrice)
    /\ \A r \in Claims : req[r].amount <= auction.currentPrice

LEMMA InitFinal == Init => FinalInv /\ ResultInv
  BY DEF Init, NoJob, FinalInv, ResultInv

LEMMA CallKeepsFinal ==
  ASSUME RollbackFree, TypeOK, LedgerInv, FinalInv, NEW r \in Requests,
         Submit(r) \/ Serve(r) \/ Fail(r)
  PROVE  FinalInv'
<1>1. UNCHANGED <<auction, end>>
  BY CallStep
<1>2. CASE UNCHANGED keys
  BY <1>1, <1>2 DEF FinalInv
<1>3. CASE TakesTheLead(r)
  <2>1. keys.active
    BY <1>3, LeadMeans
  <2> QED
    BY <1>1, <2>1 DEF FinalInv
<1> QED
  BY <1>2, <1>3, CallStep DEF Passes, Dies, Records

LEMMA EndKeepsFinal ==
  ASSUME FinalKeysAreRead, TypeOK, FinalInv, ExpireActive \/ EndJob
  PROVE  FinalInv'
<1>0. keys \in Keys /\ end \in Job
  BY DEF TypeOK
<1>1. CASE ExpireActive
  <2>1. /\ keys'.active = FALSE /\ keys'.price = keys.price /\ keys'.bidder = keys.bidder
        /\ UNCHANGED <<auction, end>>
    BY <1>0, <1>1 DEF ExpireActive, ActiveExpired, Keys
  <2> QED
    BY <2>1 DEF FinalInv
<1>2. CASE EndReadsPrice
  <2>1. ~keys.active /\ UNCHANGED <<keys, auction>>
    BY <1>2 DEF EndReadsPrice, Fault, FinalKeysAreRead
  <2>2. end' = [end EXCEPT !.price = keys.price,
                           !.pc = IF OrZero(keys.price) = 0 THEN "skipped" ELSE "bidder"]
    BY <1>2 DEF EndReadsPrice, ReadOutcomes, Fault, FinalKeysAreRead
  <2>3. /\ end'.price = keys.price /\ end'.pc \in {"skipped", "bidder"}
        /\ end'.pc = "bidder" => keys.price # Null
    BY <1>0, <2>2 DEF Job, OrZero
  <2> QED
    BY <2>1, <2>3 DEF FinalInv
<1>3. CASE EndReadsBidder
  <2>1. end' = [end EXCEPT !.winner = keys.bidder, !.pc = "commit"]
    BY <1>3 DEF EndReadsBidder, ReadOutcomes, Fault, FinalKeysAreRead
  <2>2. end'.price = end.price /\ end'.winner = keys.bidder /\ end'.pc = "commit"
    BY <1>0, <2>1 DEF Job
  <2> QED
    BY <1>3, <2>2 DEF EndReadsBidder, FinalInv
<1>4. CASE EndCommits
  BY <1>0, <1>4 DEF EndCommits, Job, FinalInv
<1>5. CASE EndCleansUp
  BY <1>0, <1>5 DEF EndCleansUp, NoKeys, Job, FinalInv
<1>6. CASE EndNotifies \/ EndAttemptFails
  BY <1>0, <1>6 DEF EndNotifies, EndAttemptFails, NoJob, Job, FinalInv
<1> QED
  BY <1>1, <1>2, <1>3, <1>4, <1>5, <1>6 DEF EndJob

LEMMA NextKeepsFinal ==
  ASSUME RollbackFree, FinalKeysAreRead
  PROVE  TypeOK /\ LedgerInv /\ FinalInv /\ [Next]_vars => FinalInv'
<1>1. FinalInv /\ UNCHANGED vars => FinalInv'
  BY DEF vars, FinalInv
<1> QED
  BY <1>1, CallKeepsFinal, EndKeepsFinal DEF Next

LEMMA NextKeepsResult ==
  ASSUME RollbackFree, FinalKeysAreRead, NothingIsLost, TypeOK, LedgerInv, BackedInv,
         FinalInv, ResultInv, [Next]_vars
  PROVE  ResultInv'
<1>1. CASE UNCHANGED vars
  BY <1>1 DEF vars, ResultInv, Leads, Claims
<1>2. ASSUME NEW r \in Requests, Submit(r) \/ Serve(r) \/ Fail(r) PROVE ResultInv'
  <2> SUFFICES ASSUME auction'.status = "ENDED" PROVE ResultInv'
    BY DEF ResultInv
  <2>1. UNCHANGED auction
    BY <1>2, CallStep
  <2>2. \A s \in Claims : SameBid(s)
    BY <1>2, ClaimsStay
  <2>3. ~TakesTheLead(r) /\ ~Dies(r)
    BY <2>1, LeadMeans DEF FinalInv, Dies, Fault, NothingIsLost
  <2>4. Claims' = Claims
    BY <1>2, <2>3, CallStep DEF Passes, Records
  <2>5. Leads(auction.winner, auction.currentPrice)'
    BY <2>1, <2>2, <2>4, BackingStays DEF ResultInv
  <2> QED
    BY <2>1, <2>2, <2>4, <2>5 DEF ResultInv, SameBid
<1>3. ASSUME ExpireActive \/ EndJob PROVE ResultInv'
  <2>1. UNCHANGED <<req, rows>>
    BY <1>3 DEF ExpireActive, EndJob, EndReadsPrice, EndReadsBidder, EndCommits, EndCleansUp,
                EndNotifies, EndAttemptFails
  <2>2. CASE UNCHANGED auction
    BY <2>1, <2>2 DEF ResultInv, Leads, Claims
  <2>3. CASE EndCommits /\ auction.status # "ENDED"
    <3>1. auction'.winner = keys.bidder /\ auction'.currentPrice = keys.price /\ keys.price # Null
      BY <2>3 DEF EndCommits, FinalInv
    <3>2. Leads(keys.bidder, keys.price)
      BY <3>1 DEF BackedInv
    <3>3. \A r \in Claims : req[r].amount <= keys.price
      BY <3>1 DEF LedgerInv
    <3> QED
      BY <2>1, <3>1, <3>2, <3>3 DEF ResultInv, Leads, Claims
  <2> QED
    BY <1>3, <2>2, <2>3 DEF ExpireActive, EndJob, EndReadsPrice, EndReadsBidder, EndCommits,
                            EndCleansUp, EndNotifies, EndAttemptFails
<1> QED
  BY <1>1, <1>2, <1>3 DEF Next

\* The auction row names the user and the amount of the best bid of the table,
\* also when the last inserts come after the end, and whatever attempts of the
\* end job fail.
THEOREM BestBidWins ==
  ASSUME RollbackFree, FinalKeysAreRead, NothingIsLost
  PROVE  Spec => []WinnerIsBestRow
<1> DEFINE Inv == TypeOK /\ LedgerInv /\ BackedInv /\ FinalInv /\ ResultInv
<1>1. Init => Inv
  BY InitTypeOK, InitLedger, InitBacked, InitFinal
<1>2. Inv /\ [Next]_vars => Inv'
  BY NextType, NextLedger, NextKeepsBacked, NextKeepsFinal, NextKeepsResult
<1>3. Inv => WinnerIsBestRow
  BY DEF ResultInv, Leads, WinnerIsBestRow, Claims
<1> HIDE DEF Inv
<1> QED
  BY <1>1, <1>2, <1>3, PTL DEF Spec

-----------------------------------------------------------------------------
(* The refinement: what placeBid, its script and the end job do with keys and *)
(* rows is, step by step, an open ascending auction.  Replies and processes   *)
(* may be lost: an offer whose bid has no row was not recorded.               *)

\* A call that has been made asks for one of the amounts.
AmountsInv == \A r \in Requests : req[r].pc # "idle" => req[r].amount \in Amounts

\* The keys hold the last offer, the row of the auction holds it in the end,
\* and each claim is one of the offers.
MirrorInv ==
  /\ keys.price # Null => /\ keys.bidder = Open!Leader(accepted)
                          /\ keys.price = Open!Floor(accepted)
  /\ auction.status = "ENDED" => /\ auction.winner = Open!Leader(accepted)
                                 /\ auction.currentPrice = Open!Floor(accepted)
  /\ \A r \in Claims : \E i \in 1..Len(accepted) :
       accepted[i] = [user |-> req[r].user, amount |-> req[r].amount]

RefInv ==
  /\ TypeOK /\ LedgerInv /\ OwnerInv /\ FinalInv
  /\ AmountsInv /\ MirrorInv

-----------------------------------------------------------------------------

\* Taking an offer makes it the leader and the floor, and keeps all others.
LEMMA AppendLeads ==
  ASSUME NEW s \in Seq([user : Users, amount : Int]), NEW o \in [user : Users, amount : Int]
  PROVE  /\ Open!Leader(Append(s, o)) = o.user
         /\ Open!Floor(Append(s, o)) = o.amount
         /\ Append(s, o)[Len(Append(s, o))] = o
         /\ Len(Append(s, o)) \in 1..Len(Append(s, o))
         /\ \A i \in 1..Len(s) : i \in 1..Len(Append(s, o)) /\ Append(s, o)[i] = s[i]
<1> DEFINE t == Append(s, o)
<1>1. Len(s) \in Nat /\ Len(t) = Len(s) + 1
  OBVIOUS
<1>2. t[Len(s) + 1] = o
  OBVIOUS
<1>3. \A i \in 1..Len(s) : t[i] = s[i]
  OBVIOUS
<1>4. t # <<>>
  BY <1>1
<1> HIDE DEF t
<1>5. Len(t) \in 1..Len(t) /\ \A i \in 1..Len(s) : i \in 1..Len(t)
  BY <1>1
<1>6. Open!Leader(t) = o.user /\ Open!Floor(t) = o.amount
  BY <1>1, <1>2, <1>4 DEF Open!Leader, Open!Floor
<1>7. t[Len(t)] = o
  BY <1>1, <1>2
<1> QED
  BY <1>3, <1>5, <1>6, <1>7 DEF t

LEMMA InitRef == Init => RefInv /\ Open!Init
<1> SUFFICES ASSUME Init PROVE RefInv /\ Open!Init
  OBVIOUS
<1>1. TypeOK /\ LedgerInv /\ OwnerInv /\ FinalInv
  BY InitTypeOK, InitLedger, InitOwner, InitFinal
<1>2. AmountsInv
  BY DEF Init, AmountsInv, Idle
<1>3. Claims = {}
  BY DEF Init, Claims, Idle
<1>4. MirrorInv
  BY <1>3 DEF Init, Initialized, NoKeys, MirrorInv, Open!Leader, Open!Floor
<1>5. Open!Init
  BY DEF Init, Initialized, NoKeys, Open!Init
<1> QED
  BY <1>1, <1>2, <1>4, <1>5 DEF RefInv

LEMMA CallKeepsAmounts ==
  ASSUME RollbackFree, RefInv, NEW r \in Requests, Submit(r) \/ Serve(r) \/ Fail(r)
  PROVE  AmountsInv'
<1>1. \A s \in Requests \ {r} : req'[s] = req[s]
  BY CallStep DEF RefInv
<1>2. CASE Submit(r)
  <2>1. PICK user \in Users, amount \in Amounts :
          req' = [req EXCEPT ![r] =
                   [Idle EXCEPT !.user = user, !.amount = amount,
                                !.pc = IF amount <= 0 THEN "done" ELSE "owner",
                                !.reply = IF amount <= 0 THEN "INVALID_AMOUNT" ELSE Null]]
    BY <1>2 DEF Submit
  <2>2. req'[r].amount = amount
    BY <2>1 DEF RefInv, TypeOK, Idle
  <2> QED
    BY <1>1, <2>2 DEF RefInv, AmountsInv
<1>3. CASE req[r].pc # "idle" /\ SameBid(r)
  BY <1>1, <1>3 DEF RefInv, AmountsInv, SameBid
<1> QED
  BY <1>2, <1>3, CallStep DEF RefInv

\* The offer that a call makes that takes the lead.
OfferOf(r) == [user |-> req[r].user, amount |-> req[r].amount]

LEMMA LeadIsOffer ==
  ASSUME RefInv, NEW r \in Requests, TakesTheLead(r)
  PROVE  /\ OfferOf(r) \in Open!Offer
         /\ OfferOf(r) \in [user : Users, amount : Int]
         /\ accepted \in Seq([user : Users, amount : Int])
         /\ accepted' = Append(accepted, OfferOf(r))
         /\ keys.active /\ keys'.active
         /\ OfferOf(r).user # Open!Leader(accepted)
         /\ OfferOf(r).amount >= Open!Floor(accepted) + MinAbsolute
         /\ keys'.bidder = OfferOf(r).user /\ keys'.price = OfferOf(r).amount
<1>1. /\ TypeOK /\ req[r].pc = "script" /\ Verdict(r) = "ACCEPTED" /\ ApplyBid(r)
      /\ LocalVerdict(r) = "PASS"
  BY DEF RefInv, TakesTheLead
<1>2. /\ keys.active /\ keys.bidder # req[r].user
      /\ req[r].user \in Users /\ req[r].amount \in Nat
      /\ req[r].amount >= OrZero(keys.price) + MinAbsolute
      /\ accepted' = Append(accepted, OfferOf(r))
  BY <1>1, ApplyBidFacts DEF OfferOf
<1>3. req[r].user # Owner
  BY <1>1, PassedIsNotOwner DEF RefInv
<1>4. req[r].amount \in Amounts
  BY <1>1 DEF RefInv, AmountsInv
<1>5. keys.price # Null /\ keys.bidder = Open!Leader(accepted) /\ keys.price = Open!Floor(accepted)
  BY <1>2 DEF RefInv, LedgerInv, MirrorInv
<1>6. OrZero(keys.price) = keys.price
  BY <1>5 DEF OrZero
<1> QED
  BY <1>1, <1>2, <1>3, <1>4, <1>5, <1>6, LeadMeans DEF OfferOf, Open!Offer, TypeOK

\* A step of a call is an offer, a record, or nothing of the abstract auction.
LEMMA CallRefines ==
  ASSUME RollbackFree, RefInv, NEW r \in Requests, Submit(r) \/ Serve(r) \/ Fail(r)
  PROVE  MirrorInv' /\ [Open!Next]_Open!vars
<1>0. /\ TypeOK /\ LedgerInv /\ MirrorInv /\ UNCHANGED auction
      /\ \A s \in Claims : s \in Requests /\ SameBid(s)
      /\ rows \subseteq Claims
  BY CallStep, ClaimsStay DEF RefInv, Claims
<1> DEFINE recorded == {OfferOf(s) : s \in rows}
<1>1. CASE Passes(r) \/ Dies(r)
  <2>1. UNCHANGED <<keys, rows, accepted>> /\ Claims' \subseteq Claims
    BY <1>1 DEF Passes, Dies
  <2>2. MirrorInv'
    BY <1>0, <2>1 DEF MirrorInv, SameBid
  <2>3. \A s \in rows : OfferOf(s)' = OfferOf(s)
    BY <1>0 DEF OfferOf, SameBid
  <2>4. recorded' = recorded
    BY <2>1, <2>3
  <2> QED
    BY <1>0, <2>1, <2>2, <2>4 DEF Open!vars, OfferOf
<1>2. CASE Records(r)
  <2>1. /\ UNCHANGED <<keys, accepted>> /\ Claims' = Claims
        /\ r \in Claims /\ r \notin rows /\ rows' = rows \cup {r}
    BY <1>2 DEF Records
  <2>2. MirrorInv'
    BY <1>0, <2>1 DEF MirrorInv, SameBid
  <2>3. \A s \in rows' : OfferOf(s)' = OfferOf(s)
    BY <1>0, <2>1 DEF OfferOf, SameBid
  <2>4. recorded' = recorded \cup {OfferOf(r)}
    BY <2>1, <2>3
  <2>5. PICK i \in 1..Len(accepted) : accepted[i] = OfferOf(r)
    BY <1>0, <2>1 DEF MirrorInv, OfferOf
  <2>6. OfferOf(r) \notin recorded
    <3> SUFFICES ASSUME NEW s \in rows PROVE OfferOf(s) # OfferOf(r)
      OBVIOUS
    <3>1. s \in Claims /\ s # r
      BY <1>0, <2>1
    <3>2. req[s].amount # req[r].amount
      BY <1>0, <2>1, <3>1 DEF LedgerInv
    <3> QED
      BY <3>2 DEF OfferOf
  <2>7. Open!Record(i)
    BY <1>0, <2>1, <2>4, <2>5, <2>6 DEF Open!Record, OfferOf
  <2> QED
    BY <2>2, <2>7 DEF Open!Next
<1>3. CASE TakesTheLead(r)
  <2>1. /\ OfferOf(r) \in Open!Offer
        /\ OfferOf(r) \in [user : Users, amount : Int]
        /\ accepted \in Seq([user : Users, amount : Int])
        /\ accepted' = Append(accepted, OfferOf(r))
        /\ keys.active /\ keys'.active
        /\ OfferOf(r).user # Open!Leader(accepted)
        /\ OfferOf(r).amount >= Open!Floor(accepted) + MinAbsolute
        /\ keys'.bidder = OfferOf(r).user /\ keys'.price = OfferOf(r).amount
    BY <1>3, LeadIsOffer
  <2>2. rows' = rows /\ Claims' \subseteq Claims \cup {r} /\ req[r].pc = "script"
    BY <1>3 DEF TakesTheLead
  <2>3. SameBid(r)
    BY <1>0, <2>2, CallStep DEF Submit
  <2>4. recorded' = recorded
    <3>1. \A s \in rows : OfferOf(s)' = OfferOf(s)
      BY <1>0 DEF OfferOf, SameBid
    <3> QED
      BY <2>2, <3>1
  <2>5. Open!TakeOffer(OfferOf(r))
    BY <1>0, <2>1, <2>4 DEF Open!TakeOffer, OfferOf
  <2>6. /\ keys'.bidder = Open!Leader(accepted')
        /\ keys'.price = Open!Floor(accepted')
        /\ accepted'[Len(accepted')] = OfferOf(r)
        /\ Len(accepted') \in 1..Len(accepted')
        /\ \A i \in 1..Len(accepted) : i \in 1..Len(accepted') /\ accepted'[i] = accepted[i]
    BY <2>1, AppendLeads
  <2>7. ASSUME NEW s \in Claims'
        PROVE  \E i \in 1..Len(accepted') :
                 accepted'[i] = [user |-> req'[s].user, amount |-> req'[s].amount]
    <3>1. CASE s = r
      BY <2>3, <2>6, <3>1 DEF OfferOf, SameBid
    <3>2. CASE s \in Claims
      <4>1. PICK i \in 1..Len(accepted) : accepted[i] = OfferOf(s)
        BY <1>0, <3>2 DEF MirrorInv, OfferOf
      <4> QED
        BY <1>0, <2>6, <3>2, <4>1 DEF OfferOf, SameBid
    <3> QED
      BY <2>2, <3>1, <3>2
  <2>8. auction'.status # "ENDED"
    BY <1>0, <2>1 DEF RefInv, FinalInv
  <2>9. MirrorInv'
    BY <2>6, <2>7, <2>8 DEF MirrorInv, Open!Leader, Open!Floor
  <2> QED
    BY <2>1, <2>5, <2>9 DEF Open!Next
<1> QED
  BY <1>0, <1>1, <1>2, <1>3, CallStep

\* The end of the sale, and the commit of the end job, are steps of the
\* abstract auction, and the rest of the end job none of its business.
LEMMA EndRefines ==
  ASSUME FinalKeysAreRead, RefInv, ExpireActive \/ EndJob
  PROVE  AmountsInv' /\ MirrorInv' /\ [Open!Next]_Open!vars
<1>0. /\ keys \in Keys /\ MirrorInv /\ FinalInv
      /\ auction \in [status : {"ACTIVE", "ENDED"}, currentPrice : Price, winner : UserOrNull]
  BY DEF RefInv, TypeOK
<1>1. UNCHANGED <<req, rows, accepted>>
  BY DEF ExpireActive, EndJob, EndReadsPrice, EndReadsBidder, EndCommits, EndCleansUp,
         EndNotifies, EndAttemptFails
<1>2. AmountsInv' /\ Claims' = Claims
  BY <1>1 DEF RefInv, AmountsInv, Claims
<1>3. CASE ExpireActive
  <2>1. /\ keys.active /\ keys'.active = FALSE
        /\ keys'.price = keys.price /\ keys'.bidder = keys.bidder /\ UNCHANGED auction
    BY <1>0, <1>3 DEF ExpireActive, ActiveExpired, Keys
  <2>2. MirrorInv'
    BY <1>0, <1>1, <1>2, <2>1 DEF MirrorInv
  <2>3. Open!Close
    BY <1>1, <2>1 DEF Open!Close
  <2> QED
    BY <1>2, <2>2, <2>3 DEF Open!Next
<1>4. CASE EndCommits
  <2>1. UNCHANGED keys /\ ~keys.active
    BY <1>0, <1>4 DEF EndCommits, FinalInv
  <2>2. CASE auction.status = "ENDED"
    <3>1. UNCHANGED auction
      BY <1>4, <2>2 DEF EndCommits
    <3> QED
      BY <1>0, <1>1, <1>2, <2>1, <3>1 DEF MirrorInv, Open!vars
  <2>3. CASE auction.status # "ENDED"
    <3>1. /\ auction' = [status |-> "ENDED", currentPrice |-> keys.price, winner |-> keys.bidder]
          /\ keys.price # Null
      BY <1>0, <1>4, <2>3 DEF EndCommits, FinalInv
    <3>2. /\ auction'.status = "ENDED"
          /\ auction'.winner = Open!Leader(accepted)
          /\ auction'.currentPrice = Open!Floor(accepted)
      BY <1>0, <3>1 DEF MirrorInv
    <3>3. MirrorInv'
      BY <1>0, <1>1, <1>2, <2>1, <3>2 DEF MirrorInv
    <3>4. Open!Settle
      BY <1>1, <2>1, <2>3, <3>2 DEF Open!Settle
    <3> QED
      BY <1>2, <3>3, <3>4 DEF Open!Next
  <2> QED
    BY <2>2, <2>3
<1>5. CASE EndCleansUp
  <2>1. /\ ~keys.active /\ keys'.active = FALSE /\ keys'.price = Null
        /\ UNCHANGED auction
    BY <1>0, <1>5 DEF EndCleansUp, NoKeys, FinalInv
  <2>2. MirrorInv'
    BY <1>0, <1>1, <1>2, <2>1 DEF MirrorInv
  <2>3. keys'.active = keys.active
    BY <1>0, <2>1 DEF Keys
  <2> QED
    BY <1>1, <1>2, <2>1, <2>2, <2>3 DEF Open!vars
<1>6. CASE EndReadsPrice \/ EndReadsBidder \/ EndNotifies \/ EndAttemptFails
  <2>1. UNCHANGED <<keys, auction>>
    BY <1>6 DEF EndReadsPrice, EndReadsBidder, EndNotifies, EndAttemptFails
  <2> QED
    BY <1>0, <1>1, <1>2, <2>1 DEF MirrorInv, Open!vars
<1> QED
  BY <1>3, <1>4, <1>5, <1>6 DEF EndJob

LEMMA NextRefines ==
  ASSUME RollbackFree, FinalKeysAreRead, RefInv, [Next]_vars
  PROVE  RefInv' /\ [Open!Next]_Open!vars
<1>1. (TypeOK /\ LedgerInv /\ FinalInv)'
  BY NextType, NextLedger, NextKeepsFinal DEF RefInv
<1>2. OwnerInv'
  <2>1. UNCHANGED vars => OwnerInv'
    BY DEF RefInv, OwnerInv, Innocent, vars
  <2> QED
    BY <2>1, RequestKeepsOwner, EndKeepsOwner DEF RefInv, Next
<1>3. AmountsInv' /\ MirrorInv' /\ [Open!Next]_Open!vars
  <2>1. CASE UNCHANGED vars
    BY <2>1 DEF vars, RefInv, AmountsInv, MirrorInv, Claims, Open!vars
  <2> QED
    BY <2>1, CallKeepsAmounts, CallRefines, EndRefines DEF Next
<1> QED
  BY <1>1, <1>2, <1>3 DEF RefInv

\* With any number of concurrent bids, what the bidders see is one open
\* ascending auction whose result is its last offer.
THEOREM BidsFormAnOpenAuction ==
  ASSUME RollbackFree, FinalKeysAreRead
  PROVE  Spec => ImplementsOpenAuction
  BY InitRef, NextRefines, PTL DEF Spec, ImplementsOpenAuction, Open!Spec

=============================================================================
