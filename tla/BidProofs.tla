------------------------------- MODULE BidProofs -------------------------------
(***************************************************************************)
(* Proofs about BidPlacement, for any number of requests, users, amounts   *)
(* and attempts, and (unless stated) for every set of faults: the price    *)
(* covers the table, what the owner, the bidders and the room are told is  *)
(* true, and bids that come one after the other can be taken back.         *)
(***************************************************************************)
EXTENDS OrderlyBids, TLAPS

\* The increment rule never yields less than the absolute floor.
LEMMA IncrementHasFloor ==
  ASSUME NEW price \in Nat
  PROVE  /\ CalcMinIncrement(price) \in Nat
         /\ CalcMinIncrement(price) >= MinAbsolute
<1>1. price * Percent \in Nat
  BY KeysAssumption
<1> DEFINE computed == (price * Percent + 99) \div 100
<1>2. computed \in Nat
  BY <1>1
<1> QED
  BY <1>2, KeysAssumption DEF CalcMinIncrement

\* What the script's answer ACCEPTED means for the keys it has read.
LEMMA AcceptedMeans ==
  ASSUME NEW k \in Keys, NEW user \in Users, NEW amount \in Int, NEW inc \in Nat,
         BidVerdict(k, user, amount, inc) = "ACCEPTED"
  PROVE  /\ k.active
         /\ k.bidder # user
         /\ amount >= OrZero(k.price) + inc
  BY KeysAssumption DEF BidVerdict, Keys, Price, OrZero

LEMMA InitTypeOK == Init => TypeOK
<1> SUFFICES ASSUME Init PROVE TypeOK
  OBVIOUS
<1>1. keys \in Keys
  BY KeysAssumption, BidAssumption
  DEF Init, Initialized, NoKeys, Keys, Price, UserOrNull
<1>2. req \in [Requests -> Request]
  BY DEF Init, Idle, Request, Unread, NoSnapshot, Price, UserOrNull, InFlight
<1>2a. \A r \in Requests : req[r].pc = "idle"
  BY DEF Init, Idle
<1>3. end \in Job
  BY BidAssumption DEF Init, NoJob, Job, Price, UserOrNull
<1>4. /\ rows \subseteq Requests
      /\ auction \in [status : {"ACTIVE", "ENDED"}, currentPrice : Price, winner : UserOrNull]
      /\ announced \subseteq [winner : UserOrNull, price : Price]
      /\ accepted \in Seq([user : Users, amount : Int])
  BY BidAssumption DEF Init, Price, UserOrNull
<1> QED
  BY <1>1, <1>2, <1>2a, <1>3, <1>4 DEF TypeOK

\* A step that only replaces the record of one request, by one of the right
\* type, keeps the type of everything that belongs to requests.
LEMMA ReplaceRequest ==
  ASSUME TypeOK, NEW r \in Requests, NEW request \in Request, request.user \in Users,
         req' = [req EXCEPT ![r] = request]
  PROVE  /\ req' \in [Requests -> Request]
         /\ \A s \in Requests : req'[s].pc # "idle" => req'[s].user \in Users
  BY DEF TypeOK

\* Answering a request keeps its type, and its user and amount.
LEMMA AnsweredType ==
  ASSUME NEW request \in Request, NEW reply \in Reply \cup {Null}
  PROVE  /\ Answered(request, reply) \in Request
         /\ Answered(request, reply).pc = "done"
         /\ Answered(request, reply).user = request.user
         /\ Answered(request, reply).amount = request.amount
         /\ Answered(request, reply).reply = reply
<1>1. Unread \in [owner : UserOrNull, active : BOOLEAN, price : Price]
  BY DEF Unread, UserOrNull, Price
<1>2. NoSnapshot \in [price : Price, bidder : UserOrNull]
  BY DEF NoSnapshot, UserOrNull, Price
<1> QED
  BY <1>1, <1>2 DEF Request, Answered

\* What a step does that answers request r.
LEMMA AnswerEffect ==
  ASSUME TypeOK, NEW r \in Requests, NEW reply \in Reply, req' = Answer(r, reply)
  PROVE  /\ req'[r].pc = "done"
         /\ req'[r].user = req[r].user
         /\ req'[r].amount = req[r].amount
         /\ req'[r].reply = reply
         /\ \A s \in Requests \ {r} : req'[s] = req[s]
<1>1. req[r] \in Request
  BY DEF TypeOK
<1>2. req'[r] = Answered(req[r], reply)
  BY DEF Answer, TypeOK
<1>3. \A s \in Requests \ {r} : req'[s] = req[s]
  BY DEF Answer, TypeOK
<1> QED
  BY <1>1, <1>2, <1>3, AnsweredType

\* The same step keeps the types.
LEMMA AnswerType ==
  ASSUME TypeOK, NEW r \in Requests, NEW reply \in Reply, req[r].pc # "idle",
         req' = Answer(r, reply)
  PROVE  /\ req' \in [Requests -> Request]
         /\ \A s \in Requests : req'[s].pc # "idle" => req'[s].user \in Users
<1>1. req[r] \in Request /\ req[r].user \in Users
  BY DEF TypeOK
<1>2. /\ Answered(req[r], reply) \in Request
      /\ Answered(req[r], reply).user = req[r].user
  BY <1>1, AnsweredType
<1>3. req' = [req EXCEPT ![r] = Answered(req[r], reply)]
  BY DEF Answer, TypeOK
<1> QED
  BY <1>1, <1>2, <1>3, ReplaceRequest

\* And for a step that moves request r on.
LEMMA GotoType ==
  ASSUME TypeOK, NEW r \in Requests, NEW pc \in InFlight, req[r].pc # "idle",
         req' = Goto(r, pc)
  PROVE  /\ req' \in [Requests -> Request]
         /\ \A s \in Requests : req'[s].pc # "idle" => req'[s].user \in Users
<1>1. req[r] \in Request /\ req[r].user \in Users
  BY DEF TypeOK
<1>2. [req[r] EXCEPT !.pc = pc] \in Request
  BY <1>1 DEF Request
<1>3. req' = [req EXCEPT ![r] = [req[r] EXCEPT !.pc = pc]]
  BY DEF Goto, TypeOK
<1>4. [req[r] EXCEPT !.pc = pc].user \in Users
  BY <1>1 DEF Request
<1> QED
  BY <1>2, <1>3, <1>4, ReplaceRequest

LEMMA SubmitType ==
  ASSUME TypeOK, NEW r \in Requests, Submit(r)
  PROVE  TypeOK'
<1>1. PICK user \in Users, amount \in Amounts :
        req' = [req EXCEPT ![r] =
                 [Idle EXCEPT !.user = user, !.amount = amount,
                              !.pc = IF amount <= 0 THEN "done" ELSE "owner",
                              !.reply = IF amount <= 0 THEN "INVALID_AMOUNT" ELSE Null]]
  BY DEF Submit
<1>2. amount \in Int
  BY BidAssumption
<1>3. req'[r] \in Request /\ req'[r].user = user
  BY <1>1, <1>2 DEF TypeOK, Idle, Request, Unread, NoSnapshot, Price, UserOrNull, InFlight, Reply
<1>4. req' = [req EXCEPT ![r] = req'[r]]
  BY <1>1 DEF TypeOK
<1>5. /\ req' \in [Requests -> Request]
      /\ \A s \in Requests : req'[s].pc # "idle" => req'[s].user \in Users
  BY <1>3, <1>4, ReplaceRequest
<1> QED
  BY <1>5 DEF TypeOK, Submit

Seen == [owner : UserOrNull, active : BOOLEAN, price : Price]

\* A read puts one value into req[r].seen and moves on.
LEMMA ReadsEffect ==
  ASSUME TypeOK, NEW r \in Requests, ReadOwner(r) \/ ReadActive(r) \/ ReadPrice(r)
  PROVE  \E seen \in Seen, pc \in {"active", "price", "script"} :
           req' = [req EXCEPT ![r] = [req[r] EXCEPT !.seen = seen, !.pc = pc]]
<1>1. req[r] \in Request
  BY DEF TypeOK
<1>2. CASE ReadOwner(r)
  <2>1. PICK owner \in UserOrNull :
          req' = [req EXCEPT ![r].seen.owner = owner, ![r].pc = "active"]
    BY <1>2 DEF TypeOK, ReadOwner, ReadOutcomes, Keys, UserOrNull
  <2>2. [req[r].seen EXCEPT !.owner = owner] \in Seen
    BY <1>1 DEF Request, Seen
  <2> QED
    BY <2>1, <2>2 DEF TypeOK
<1>3. CASE ReadActive(r)
  <2>1. PICK active \in BOOLEAN :
          req' = [req EXCEPT ![r].seen.active = active, ![r].pc = "price"]
    BY <1>3 DEF TypeOK, ReadActive, ReadOutcomes, Keys
  <2>2. [req[r].seen EXCEPT !.active = active] \in Seen
    BY <1>1 DEF Request, Seen
  <2> QED
    BY <2>1, <2>2 DEF TypeOK
<1>4. CASE ReadPrice(r)
  <2>1. PICK price \in Price :
          req' = [req EXCEPT ![r].seen.price = price, ![r].pc = "script"]
    BY <1>4 DEF TypeOK, ReadPrice, ReadOutcomes, Keys, Price
  <2>2. [req[r].seen EXCEPT !.price = price] \in Seen
    BY <1>1 DEF Request, Seen
  <2> QED
    BY <2>1, <2>2 DEF TypeOK
<1> QED
  BY <1>2, <1>3, <1>4

LEMMA ReadsType ==
  ASSUME TypeOK, NEW r \in Requests, ReadOwner(r) \/ ReadActive(r) \/ ReadPrice(r)
  PROVE  TypeOK'
<1>1. req[r] \in Request /\ req[r].user \in Users
  BY DEF TypeOK, ReadOwner, ReadActive, ReadPrice
<1>2. PICK seen \in Seen, pc \in {"active", "price", "script"} :
        req' = [req EXCEPT ![r] = [req[r] EXCEPT !.seen = seen, !.pc = pc]]
  BY ReadsEffect
<1>3. /\ [req[r] EXCEPT !.seen = seen, !.pc = pc] \in Request
      /\ [req[r] EXCEPT !.seen = seen, !.pc = pc].user \in Users
  BY <1>1, <1>2 DEF Request, Seen, InFlight
<1>4. /\ req' \in [Requests -> Request]
      /\ \A s \in Requests : req'[s].pc # "idle" => req'[s].user \in Users
  BY <1>2, <1>3, ReplaceRequest
<1> QED
  BY <1>4 DEF TypeOK, ReadOwner, ReadActive, ReadPrice

\* The increment of a request is a number, at least the absolute floor.
LEMMA MinIncrementType ==
  ASSUME TypeOK, NEW r \in Requests
  PROVE  MinIncrement(r) \in Nat /\ MinIncrement(r) >= MinAbsolute
<1>1. req[r].seen.price \in Price
  BY DEF TypeOK, Request
<1>2. OrZero(req[r].seen.price) \in Nat
  BY <1>1, KeysAssumption DEF OrZero, Price
<1> QED
  BY <1>2, IncrementHasFloor DEF MinIncrement

\* What an accepted bid is: it comes while the sale is open, from another user
\* than the leader, and exceeds the live price by the floor at least.
LEMMA ApplyBidFacts ==
  ASSUME TypeOK, NEW r \in Requests, req[r].pc = "script", Verdict(r) = "ACCEPTED",
         ApplyBid(r)
  PROVE  /\ keys.active /\ keys.bidder # req[r].user
         /\ req[r].user \in Users /\ req[r].amount \in Nat
         /\ req[r].amount >= OrZero(keys.price) + MinAbsolute
         /\ keys' = [keys EXCEPT !.price = req[r].amount, !.bidder = req[r].user]
         /\ keys' \in Keys
         /\ accepted' = Append(accepted, [user |-> req[r].user, amount |-> req[r].amount])
         /\ accepted' \in Seq([user : Users, amount : Int])
<1>1. /\ req[r] \in Request /\ req[r].user \in Users /\ req[r].amount \in Int
      /\ keys \in Keys
  BY DEF TypeOK, Request
<1>2. MinIncrement(r) \in Nat /\ MinIncrement(r) >= MinAbsolute
  BY MinIncrementType
<1>3. /\ keys.active /\ keys.bidder # req[r].user
      /\ req[r].amount >= OrZero(keys.price) + MinIncrement(r)
  BY <1>1, <1>2, AcceptedMeans DEF Verdict
<1>4. OrZero(keys.price) \in Nat
  BY <1>1, KeysAssumption DEF OrZero, Keys, Price
<1>5. req[r].amount \in Nat /\ req[r].amount >= OrZero(keys.price) + MinAbsolute
  BY <1>1, <1>2, <1>3, <1>4, KeysAssumption
<1>6. keys' = [keys EXCEPT !.price = req[r].amount, !.bidder = req[r].user]
  BY DEF ApplyBid, AfterBid
<1>7. keys' \in Keys
  BY <1>1, <1>5, <1>6 DEF Keys, Price, UserOrNull
<1>8. accepted' = Append(accepted, [user |-> req[r].user, amount |-> req[r].amount])
  BY DEF ApplyBid
<1>9. accepted' \in Seq([user : Users, amount : Int])
  <2>1. [user |-> req[r].user, amount |-> req[r].amount] \in [user : Users, amount : Int]
    BY <1>1
  <2>2. accepted \in Seq([user : Users, amount : Int])
    BY DEF TypeOK
  <2> QED
    BY <2>1, <2>2, <1>8
<1> QED
  BY <1>1, <1>3, <1>5, <1>6, <1>7, <1>8, <1>9

LEMMA ScriptType ==
  ASSUME TypeOK, NEW r \in Requests,
         RejectLocally(r) \/ ScriptAccepts(r) \/ ScriptRejects(r) \/ ScriptThrows(r)
  PROVE  TypeOK'
<1>1. req[r] \in Request /\ req[r].user \in Users /\ req[r].pc = "script"
  BY DEF TypeOK, RejectLocally, ScriptAccepts, ScriptRejects, ScriptThrows
<1>2. CASE RejectLocally(r)
  <2>1. LocalVerdict(r) \in Reply
    BY <1>2 DEF RejectLocally, LocalVerdict, Reply
  <2>2. /\ req' \in [Requests -> Request]
        /\ \A s \in Requests : req'[s].pc # "idle" => req'[s].user \in Users
    BY <1>1, <1>2, <2>1, AnswerType DEF RejectLocally
  <2> QED
    BY <1>2, <2>2 DEF TypeOK, RejectLocally
<1>3. CASE ScriptAccepts(r)
  <2>1. keys' \in Keys /\ accepted' \in Seq([user : Users, amount : Int])
    BY <1>1, <1>3, ApplyBidFacts DEF ScriptAccepts
  <2> DEFINE snapshot == [price |-> keys.price, bidder |-> keys.bidder]
  <2>2. snapshot \in [price : Price, bidder : UserOrNull]
    BY DEF TypeOK, Keys
  <2>3. req' = [req EXCEPT ![r] = [req[r] EXCEPT !.pc = "save", !.previous = snapshot]]
    BY <1>3 DEF ScriptAccepts, TypeOK
  <2>4. /\ [req[r] EXCEPT !.pc = "save", !.previous = snapshot] \in Request
        /\ [req[r] EXCEPT !.pc = "save", !.previous = snapshot].user \in Users
    BY <1>1, <2>2 DEF Request, InFlight
  <2>5. /\ req' \in [Requests -> Request]
        /\ \A s \in Requests : req'[s].pc # "idle" => req'[s].user \in Users
    BY <2>3, <2>4, ReplaceRequest
  <2> QED
    BY <1>3, <2>1, <2>5 DEF TypeOK, ScriptAccepts
<1>4. CASE ScriptRejects(r)
  <2>1. PICK reply \in Reply : req' = Answer(r, reply)
    BY <1>4 DEF ScriptRejects, Reply
  <2>2. /\ req' \in [Requests -> Request]
        /\ \A s \in Requests : req'[s].pc # "idle" => req'[s].user \in Users
    BY <1>1, <2>1, AnswerType
  <2> QED
    BY <1>4, <2>2 DEF TypeOK, ScriptRejects
<1>5. CASE ScriptThrows(r)
  <2>1. keys' \in Keys /\ accepted' \in Seq([user : Users, amount : Int])
    BY <1>1, <1>5, ApplyBidFacts DEF ScriptThrows, TypeOK
  <2>2. /\ req' \in [Requests -> Request]
        /\ \A s \in Requests : req'[s].pc # "idle" => req'[s].user \in Users
    BY <1>1, <1>5, AnswerType DEF ScriptThrows, Reply
  <2> QED
    BY <1>5, <2>1, <2>2 DEF TypeOK, ScriptThrows
<1> QED
  BY <1>2, <1>3, <1>4, <1>5

LEMMA SaveType ==
  ASSUME TypeOK, NEW r \in Requests, SaveBid(r) \/ SaveThrows(r)
  PROVE  TypeOK'
<1>1. /\ req' \in [Requests -> Request]
      /\ \A s \in Requests : req'[s].pc # "idle" => req'[s].user \in Users
  <2>1. CASE SaveBid(r)
    BY <2>1, AnswerType DEF SaveBid, Reply
  <2>2. CASE SaveThrows(r)
    BY <2>2, GotoType DEF SaveThrows, InFlight
  <2> QED
    BY <2>1, <2>2
<1> QED
  BY <1>1 DEF TypeOK, SaveBid, SaveThrows

LEMMA RollbackType ==
  ASSUME TypeOK, NEW r \in Requests,
         \/ RollbackReadsTtl(r) \/ RollbackPrice(r) \/ RollbackBidder(r)
         \/ RollbackThrows(r) \/ Crash(r)
  PROVE  TypeOK'
<1>1. req[r] \in Request /\ req[r].pc # "idle" /\ req[r].user \in Users
  BY DEF TypeOK, RollbackReadsTtl, RollbackPrice, RollbackBidder, RollbackThrows, Crash, InFlight
<1>2. /\ req' \in [Requests -> Request]
      /\ \A s \in Requests : req'[s].pc # "idle" => req'[s].user \in Users
  <2>1. CASE RollbackReadsTtl(r)
    BY <1>1, <2>1, AnswerType, GotoType DEF RollbackReadsTtl, Reply, InFlight
  <2>2. CASE RollbackPrice(r)
    BY <1>1, <2>2, GotoType DEF RollbackPrice, InFlight
  <2>3. CASE RollbackBidder(r) \/ RollbackThrows(r)
    BY <1>1, <2>3, AnswerType DEF RollbackBidder, RollbackThrows, Reply
  <2>4. CASE Crash(r)
    <3>1. req' = [req EXCEPT ![r] = [Answered(req[r], Null) EXCEPT !.pc = "crashed"]]
      BY <2>4 DEF Crash, TypeOK
    <3>2. /\ Answered(req[r], Null) \in Request
          /\ Answered(req[r], Null).user \in Users
      BY <1>1, AnsweredType
    <3>3. /\ [Answered(req[r], Null) EXCEPT !.pc = "crashed"] \in Request
          /\ [Answered(req[r], Null) EXCEPT !.pc = "crashed"].user \in Users
      BY <3>2 DEF Request
    <3> QED
      BY <3>1, <3>3, ReplaceRequest
  <2> QED
    BY <2>1, <2>2, <2>3, <2>4
<1>3. keys' \in Keys
  <2>1. /\ [keys EXCEPT !.price = req[r].previous.price] \in Keys
        /\ [keys EXCEPT !.bidder = req[r].previous.bidder] \in Keys
    BY <1>1 DEF TypeOK, Request, Keys
  <2> QED
    BY <2>1 DEF TypeOK, RollbackReadsTtl, RollbackPrice, RollbackBidder, RollbackThrows, Crash
<1> QED
  BY <1>2, <1>3
  DEF TypeOK, RollbackReadsTtl, RollbackPrice, RollbackBidder, RollbackThrows, Crash

LEMMA EndType ==
  ASSUME TypeOK, ExpireActive \/ EndJob
  PROVE  TypeOK'
<1>0. /\ end \in Job /\ keys \in Keys
      /\ auction \in [status : {"ACTIVE", "ENDED"}, currentPrice : Price, winner : UserOrNull]
  BY DEF TypeOK
<1>1. CASE ExpireActive
  <2>1. keys' \in Keys
    BY <1>0, <1>1 DEF ExpireActive, ActiveExpired, Keys
  <2> QED
    BY <1>1, <2>1 DEF TypeOK, ExpireActive
<1>2. CASE EndReadsPrice
  <2>1. PICK price \in Price, pc \in {"skipped", "bidder"} :
          end' = [end EXCEPT !.price = price, !.pc = pc]
    BY <1>0, <1>2 DEF EndReadsPrice, ReadOutcomes, Keys, Price
  <2>2. end' \in Job
    BY <1>0, <2>1 DEF Job
  <2> QED
    BY <1>2, <2>2 DEF TypeOK, EndReadsPrice
<1>3. CASE EndReadsBidder
  <2>1. PICK bidder \in UserOrNull : end' = [end EXCEPT !.winner = bidder, !.pc = "commit"]
    BY <1>0, <1>3 DEF EndReadsBidder, ReadOutcomes, Keys, UserOrNull
  <2>2. end' \in Job
    BY <1>0, <2>1 DEF Job
  <2> QED
    BY <1>3, <2>2 DEF TypeOK, EndReadsBidder
<1>4. CASE EndCommits
  <2>1. end' \in Job
    BY <1>0, <1>4 DEF EndCommits, Job
  <2>2. auction' \in [status : {"ACTIVE", "ENDED"}, currentPrice : Price, winner : UserOrNull]
    BY <1>0, <1>4 DEF EndCommits, Job
  <2> QED
    BY <1>4, <2>1, <2>2 DEF TypeOK, EndCommits
<1>5. CASE EndCleansUp
  <2>1. end' \in Job /\ keys' \in Keys
    BY <1>0, <1>5 DEF EndCleansUp, Job, Keys, NoKeys, Price, UserOrNull
  <2> QED
    BY <1>5, <2>1 DEF TypeOK, EndCleansUp
<1>6. CASE EndNotifies
  <2>1. end' \in Job /\ announced' \subseteq [winner : UserOrNull, price : Price]
    BY <1>0, <1>6 DEF EndNotifies, Job, TypeOK
  <2> QED
    BY <1>6, <2>1 DEF TypeOK, EndNotifies
<1>7. CASE EndAttemptFails
  <2>1. NoJob \in Job
    BY BidAssumption DEF NoJob, Job, Price, UserOrNull
  <2>2. end.attempts < MaxAttempts => end.attempts + 1 \in 1..MaxAttempts
    BY <1>0, BidAssumption DEF Job
  <2>3. end' \in Job
    BY <1>0, <1>7, <2>1, <2>2 DEF EndAttemptFails, Job
  <2> QED
    BY <1>7, <2>3 DEF TypeOK, EndAttemptFails
<1> QED
  BY <1>1, <1>2, <1>3, <1>4, <1>5, <1>6, <1>7 DEF EndJob

LEMMA NextType == TypeOK /\ [Next]_vars => TypeOK'
<1> SUFFICES ASSUME TypeOK, [Next]_vars PROVE TypeOK'
  OBVIOUS
<1>1. CASE UNCHANGED vars
  BY <1>1 DEF vars, TypeOK
<1>2. ASSUME NEW r \in Requests, Submit(r) \/ Serve(r) \/ Fail(r) PROVE TypeOK'
  BY <1>2, SubmitType, ReadsType, ScriptType, SaveType, RollbackType DEF Serve, Fail
<1>3. CASE ExpireActive \/ EndJob
  BY <1>3, EndType
<1> QED
  BY <1>1, <1>2, <1>3 DEF Next

\* Every reachable state is well typed, for every set of faults.
THEOREM TypeCorrect == Spec => []TypeOK
  BY InitTypeOK, NextType, PTL DEF Spec

-----------------------------------------------------------------------------
(* The ledger: Redis never falls behind the bids table. *)

LEMMA InitLedger == Init => LedgerInv
  BY KeysAssumption, BidAssumption
  DEF Init, LedgerInv, Claims, Idle, Initialized, NoKeys

\* A step of request r that leaves Redis alone and gives the request no claim
\* it did not have keeps the ledger.
LEMMA QuietStep ==
  ASSUME TypeOK, LedgerInv, NEW r \in Requests, UNCHANGED <<keys, rows>>,
         r \notin rows,
         \A s \in Requests \ {r} : req'[s] = req[s],
         req'[r].pc \notin {"save", "ttl", "undoPrice", "undoBidder"}
  PROVE  LedgerInv'
<1>1. Claims' \subseteq Claims /\ \A s \in Claims' : req'[s].amount = req[s].amount
  BY DEF Claims, TypeOK
<1>2. \A s \in Requests : req'[s].pc \notin {"ttl", "undoPrice", "undoBidder"}
  BY DEF LedgerInv
<1>3. \A s \in rows' : req'[s].pc = "done"
  BY DEF LedgerInv, TypeOK
<1>4. (keys.price # Null)' => \A s \in Claims' : req'[s].amount <= keys'.price
  BY <1>1 DEF LedgerInv
<1>5. \A s, t \in Claims' : s # t => req'[s].amount # req'[t].amount
  BY <1>1 DEF LedgerInv
<1> QED
  BY <1>2, <1>3, <1>4, <1>5 DEF LedgerInv

\* The script raises the price above every claim, so the new claim is covered
\* and distinct.
LEMMA AcceptKeepsLedger ==
  ASSUME TypeOK, LedgerInv, NEW r \in Requests, r \notin rows, req[r].pc = "script",
         Verdict(r) = "ACCEPTED", ApplyBid(r), UNCHANGED rows,
         \A s \in Requests \ {r} : req'[s] = req[s],
         req'[r].amount = req[r].amount,
         req'[r].pc \in {"save", "done"}
  PROVE  LedgerInv'
<1>1. /\ keys.active
      /\ req[r].amount \in Nat
      /\ req[r].amount >= OrZero(keys.price) + MinAbsolute
      /\ keys' = [keys EXCEPT !.price = req[r].amount, !.bidder = req[r].user]
      /\ keys \in Keys
  BY ApplyBidFacts DEF TypeOK
<1>2. keys.price \in Nat /\ req[r].amount > keys.price
  BY <1>1, KeysAssumption DEF LedgerInv, Keys, Price, OrZero
<1>3. keys'.price = req[r].amount /\ keys'.price # Null /\ keys'.price \in Nat
  BY <1>1, KeysAssumption DEF Keys
<1>4. Claims \subseteq Requests /\ Claims' \subseteq Claims \cup {r} /\ r \notin Claims
  BY DEF Claims, TypeOK
<1>5. \A s \in Claims : /\ s # r
                        /\ req[s].amount \in Int
                        /\ req[s].amount < req[r].amount
                        /\ req'[s].amount = req[s].amount
  <2> TAKE s \in Claims
  <2>1. s \in Requests /\ s # r
    BY <1>4
  <2>2. req[s].amount \in Int
    BY <2>1 DEF TypeOK, Request
  <2>3. req[s].amount <= keys.price
    BY <1>2, KeysAssumption DEF LedgerInv
  <2> QED
    BY <1>2, <1>1, <2>1, <2>2, <2>3
<1>6. \A s \in Claims' : req'[s].amount <= keys'.price
  BY <1>1, <1>3, <1>4, <1>5
<1>7. \A s, t \in Claims' : s # t => req'[s].amount # req'[t].amount
  <2> TAKE s, t \in Claims'
  <2> HAVE s # t
  <2>1. CASE s \in Claims /\ t \in Claims
    BY <1>5, <2>1 DEF LedgerInv
  <2>2. CASE s = r /\ t \in Claims
    BY <1>1, <1>5, <2>2
  <2>3. CASE s \in Claims /\ t = r
    BY <1>1, <1>5, <2>3
  <2> QED
    BY <1>4, <2>1, <2>2, <2>3
<1>8. \A s \in Requests : req'[s].pc \notin {"ttl", "undoPrice", "undoBidder"}
  BY DEF LedgerInv
<1>9. \A s \in rows' : req'[s].pc = "done"
  BY DEF LedgerInv, TypeOK
<1> QED
  BY <1>3, <1>6, <1>7, <1>8, <1>9 DEF LedgerInv

LEMMA NextLedger == RollbackFree /\ TypeOK /\ LedgerInv /\ [Next]_vars => LedgerInv'
<1> SUFFICES ASSUME RollbackFree, TypeOK, LedgerInv, [Next]_vars PROVE LedgerInv'
  OBVIOUS
<1>1. CASE UNCHANGED vars
  BY <1>1 DEF vars, LedgerInv, Claims
<1>2. ASSUME NEW r \in Requests, Submit(r) \/ Serve(r) \/ Fail(r) PROVE LedgerInv'
  <2>0. \A s \in rows : s \in Requests /\ req[s].pc = "done"
    BY DEF LedgerInv, TypeOK
  <2>1. CASE Submit(r)
    <3>1. r \notin rows
      BY <2>0, <2>1 DEF Submit
    <3>2. req'[r].pc \in {"done", "owner"}
      BY <2>1 DEF Submit, TypeOK, Idle
    <3> QED
      BY <2>1, <3>1, <3>2, QuietStep DEF Submit, TypeOK
  <2>2. CASE ReadOwner(r) \/ ReadActive(r) \/ ReadPrice(r)
    <3>1. r \notin rows
      BY <2>0, <2>2 DEF ReadOwner, ReadActive, ReadPrice
    <3>2. req'[r].pc \in {"active", "price", "script"}
      <4>1. PICK seen \in Seen, pc \in {"active", "price", "script"} :
              req' = [req EXCEPT ![r] = [req[r] EXCEPT !.seen = seen, !.pc = pc]]
        BY <2>2, ReadsEffect
      <4>2. req'[r] = [req[r] EXCEPT !.seen = seen, !.pc = pc] /\ req[r] \in Request
        BY <4>1 DEF TypeOK
      <4> QED
        BY <4>2 DEF Request
    <3> QED
      BY <2>2, <3>1, <3>2, QuietStep DEF ReadOwner, ReadActive, ReadPrice, TypeOK
  <2>3. CASE RejectLocally(r) \/ ScriptRejects(r)
    <3>1. r \notin rows
      BY <2>0, <2>3 DEF RejectLocally, ScriptRejects
    <3>2. PICK reply \in Reply : req' = Answer(r, reply)
      BY <2>3 DEF RejectLocally, ScriptRejects, LocalVerdict, Reply
    <3>3. req'[r].pc = "done" /\ \A s \in Requests \ {r} : req'[s] = req[s]
      BY <3>2, AnswerEffect
    <3> QED
      BY <2>3, <3>1, <3>3, QuietStep DEF RejectLocally, ScriptRejects
  <2>4. CASE ScriptAccepts(r)
    <3>1. r \notin rows /\ req[r].pc = "script" /\ req[r] \in Request
      BY <2>0, <2>4 DEF ScriptAccepts, TypeOK
    <3>2. req'[r].pc = "save" /\ req'[r].amount = req[r].amount
      BY <2>4, <3>1 DEF ScriptAccepts, TypeOK, Request
    <3>3. \A s \in Requests \ {r} : req'[s] = req[s]
      BY <2>4 DEF ScriptAccepts, TypeOK
    <3> QED
      BY <2>4, <3>1, <3>2, <3>3, AcceptKeepsLedger DEF ScriptAccepts
  <2>5. CASE ScriptThrows(r)
    <3>1. r \notin rows /\ req[r].pc = "script" /\ req[r] \in Request
      BY <2>0, <2>5 DEF ScriptThrows, TypeOK
    <3>2. /\ req'[r].pc = "done" /\ req'[r].amount = req[r].amount
          /\ \A s \in Requests \ {r} : req'[s] = req[s]
      BY <2>5, AnswerEffect DEF ScriptThrows, Reply
    <3>3. CASE UNCHANGED keys
      BY <2>5, <3>1, <3>2, <3>3, QuietStep DEF ScriptThrows
    <3>4. CASE Verdict(r) = "ACCEPTED" /\ ApplyBid(r)
      BY <2>5, <3>1, <3>2, <3>4, AcceptKeepsLedger DEF ScriptThrows
    <3> QED
      BY <2>5, <3>3, <3>4 DEF ScriptThrows
  <2>6. CASE SaveBid(r)
    <3>1. req[r].pc = "save" /\ req[r] \in Request /\ rows' = rows \cup {r}
      BY <2>6 DEF SaveBid, TypeOK
    <3>2. /\ req'[r].pc = "done" /\ req'[r].amount = req[r].amount
          /\ \A s \in Requests \ {r} : req'[s] = req[s]
      BY <2>6, AnswerEffect DEF SaveBid, Reply
    <3>3. Claims' = Claims /\ Claims \subseteq Requests
      BY <3>1, <3>2 DEF Claims, TypeOK
    <3>4. \A s \in Requests : req'[s].amount = req[s].amount
      BY <3>2
    <3>5. keys' = keys
      BY <2>6 DEF SaveBid
    <3> QED
      BY <2>0, <3>1, <3>2, <3>3, <3>4, <3>5 DEF LedgerInv
  <2>7. CASE \/ SaveThrows(r) \/ RollbackReadsTtl(r) \/ RollbackPrice(r)
             \/ RollbackBidder(r) \/ RollbackThrows(r)
    BY <2>7 DEF SaveThrows, Fault, RollbackFree, LedgerInv, RollbackReadsTtl, RollbackPrice,
                RollbackBidder, RollbackThrows
  <2>8. CASE Crash(r)
    <3>1. r \notin rows /\ req[r] \in Request
      BY <2>0, <2>8 DEF Crash, InFlight, TypeOK
    <3>2. req'[r].pc = "crashed" /\ \A s \in Requests \ {r} : req'[s] = req[s]
      BY <2>8, <3>1, AnsweredType DEF Crash, TypeOK, Request
    <3> QED
      BY <2>8, <3>1, <3>2, QuietStep DEF Crash
  <2> QED
    BY <1>2, <2>1, <2>2, <2>3, <2>4, <2>5, <2>6, <2>7, <2>8 DEF Serve, Fail
<1>3. CASE ExpireActive
  BY <1>3 DEF ExpireActive, ActiveExpired, LedgerInv, Claims, TypeOK, Keys
<1>4. CASE EndCleansUp
  BY <1>4 DEF EndCleansUp, NoKeys, LedgerInv, Claims
<1>5. CASE EndReadsPrice \/ EndReadsBidder \/ EndCommits \/ EndNotifies \/ EndAttemptFails
  BY <1>5
  DEF EndReadsPrice, EndReadsBidder, EndCommits, EndNotifies, EndAttemptFails, LedgerInv, Claims
<1> QED
  BY <1>1, <1>2, <1>3, <1>4, <1>5 DEF Next, EndJob

LEMMA LedgerAlways ==
  ASSUME RollbackFree
  PROVE  Spec => []LedgerInv
<1>1. Init => TypeOK /\ LedgerInv
  BY InitTypeOK, InitLedger
<1>2. TypeOK /\ LedgerInv /\ [Next]_vars => (TypeOK /\ LedgerInv)'
  BY NextType, NextLedger
<1> QED
  BY <1>1, <1>2, PTL DEF Spec

\* When no insert fails -- whatever else fails, and whoever crashes -- the live
\* price covers every bid of the table.
THEOREM LedgerIsCovered ==
  ASSUME RollbackFree
  PROVE  Spec => []PriceCoversRows
<1>1. LedgerInv => PriceCoversRows
  BY DEF LedgerInv, PriceCoversRows, Claims
<1> QED
  BY <1>1, LedgerAlways, PTL

\* When no insert fails no two bids of the table tie, so the winner, the bid
\* with the highest amount, is one bid.
THEOREM RowsNeverTie ==
  ASSUME RollbackFree
  PROVE  Spec => []NoTiedRows
<1>1. LedgerInv => NoTiedRows
  BY DEF LedgerInv, NoTiedRows, Claims
<1> QED
  BY <1>1, LedgerAlways, PTL

-----------------------------------------------------------------------------
(* The owner never bids. *)

\* What the locals of one call may hold of the owner.
Innocent(request) ==
  /\ request.seen.owner \in {Null, Owner}
  /\ request.previous.bidder # Owner
  /\ request.pc = "save" => request.user # Owner

OwnerInv ==
  /\ keys.owner \in {Null, Owner} /\ keys.bidder # Owner
  /\ auction.winner # Owner /\ end.winner # Owner
  /\ \A r \in Requests : Innocent(req[r])
  /\ \A r \in rows : req[r].user # Owner /\ req[r].pc # "idle"

LEMMA OwnerIsUser == Owner # Null
  BY KeysAssumption, BidAssumption

LEMMA InitOwner == Init => OwnerInv
  BY OwnerIsUser
  DEF Init, OwnerInv, Innocent, Initialized, NoKeys, NoJob, Idle, Unread, NoSnapshot

\* A step that replaces the record of one call.
LEMMA OwnerReplace ==
  ASSUME TypeOK, OwnerInv, NEW r \in Requests, NEW request,
         req' = [req EXCEPT ![r] = request], Innocent(request),
         rows' \subseteq rows \cup {r},
         r \in rows' => request.user # Owner /\ request.pc # "idle",
         keys'.owner = keys.owner, keys'.bidder # Owner, UNCHANGED <<auction, end>>
  PROVE  OwnerInv'
<1>1. \A s \in Requests : req'[s] = IF s = r THEN request ELSE req[s]
  BY DEF TypeOK
<1>2. \A s \in Requests : Innocent(req[s])'
  BY <1>1 DEF OwnerInv, Innocent
<1>3. \A s \in rows' : req'[s].user # Owner /\ req'[s].pc # "idle"
  BY <1>1 DEF OwnerInv, TypeOK
<1> QED
  BY <1>2, <1>3 DEF OwnerInv

\* A call that is answered forgets what it has read.
LEMMA AnsweredIsInnocent ==
  ASSUME NEW request \in Request, NEW reply
  PROVE  /\ Innocent(Answered(request, reply))
         /\ Innocent([Answered(request, reply) EXCEPT !.pc = "crashed"])
  BY OwnerIsUser DEF Request, Answered, Innocent, Unread, NoSnapshot

LEMMA AnswerKeepsOwner ==
  ASSUME TypeOK, OwnerInv, NEW r \in Requests, NEW reply \in Reply,
         req' = Answer(r, reply), rows' \subseteq rows \cup {r},
         r \in rows' => req[r].user # Owner,
         keys'.owner = keys.owner, keys'.bidder # Owner, UNCHANGED <<auction, end>>
  PROVE  OwnerInv'
<1>1. req[r] \in Request
  BY DEF TypeOK
<1>2. /\ Answered(req[r], reply).user = req[r].user
      /\ Answered(req[r], reply).pc = "done"
  BY <1>1, AnsweredType
<1>3. req' = [req EXCEPT ![r] = Answered(req[r], reply)]
  BY DEF Answer, TypeOK
<1> QED
  BY <1>1, <1>2, <1>3, AnsweredIsInnocent, OwnerReplace

LEMMA GotoKeepsOwner ==
  ASSUME TypeOK, OwnerInv, NEW r \in Requests, NEW pc \in InFlight \ {"save"},
         req' = Goto(r, pc), rows' \subseteq rows \cup {r},
         r \in rows' => req[r].user # Owner,
         keys'.owner = keys.owner, keys'.bidder # Owner, UNCHANGED <<auction, end>>
  PROVE  OwnerInv'
<1>1. req[r] \in Request /\ Innocent(req[r])
  BY DEF TypeOK, OwnerInv
<1>2. /\ Innocent([req[r] EXCEPT !.pc = pc])
      /\ [req[r] EXCEPT !.pc = pc].user = req[r].user
      /\ [req[r] EXCEPT !.pc = pc].pc # "idle"
  BY <1>1 DEF Request, Innocent, InFlight
<1>3. req' = [req EXCEPT ![r] = [req[r] EXCEPT !.pc = pc]]
  BY DEF Goto, TypeOK
<1> QED
  BY <1>2, <1>3, OwnerReplace

\* A bid that passes the local checks is not the owner's: a failed read of the
\* owner key blocks it.
LEMMA PassedIsNotOwner ==
  ASSUME TypeOK, OwnerInv, NEW r \in Requests, LocalVerdict(r) = "PASS"
  PROVE  req[r].user # Owner
  BY DEF OwnerInv, Innocent, LocalVerdict

LEMMA ScriptKeepsOwner ==
  ASSUME TypeOK, OwnerInv, NEW r \in Requests,
         RejectLocally(r) \/ ScriptAccepts(r) \/ ScriptRejects(r) \/ ScriptThrows(r)
  PROVE  OwnerInv'
<1>0. /\ req[r] \in Request /\ keys \in Keys /\ keys.bidder # Owner
      /\ r \in rows => req[r].user # Owner
  BY DEF TypeOK, OwnerInv
<1>1. CASE RejectLocally(r) \/ ScriptRejects(r)
  <2>1. PICK reply \in Reply : req' = Answer(r, reply)
    BY <1>1 DEF RejectLocally, ScriptRejects, LocalVerdict, Reply
  <2> QED
    BY <1>0, <1>1, <2>1, AnswerKeepsOwner DEF RejectLocally, ScriptRejects
<1>2. CASE ScriptAccepts(r)
  <2> DEFINE accept == [req[r] EXCEPT !.pc = "save",
                          !.previous = [price |-> keys.price, bidder |-> keys.bidder]]
  <2>1. req[r].user # Owner
    BY <1>2, PassedIsNotOwner DEF ScriptAccepts
  <2>2. keys'.owner = keys.owner /\ keys'.bidder # Owner
    BY <1>0, <1>2, <2>1 DEF ScriptAccepts, ApplyBid, AfterBid, Keys
  <2>3. req' = [req EXCEPT ![r] = accept]
    BY <1>2 DEF ScriptAccepts, TypeOK
  <2>4. Innocent(accept) /\ accept.user # Owner /\ accept.pc # "idle"
    BY <1>0, <2>1 DEF OwnerInv, Innocent, Request
  <2> QED
    BY <1>2, <2>2, <2>3, <2>4, OwnerReplace DEF ScriptAccepts
<1>3. CASE ScriptThrows(r)
  <2>1. req[r].user # Owner
    BY <1>3, PassedIsNotOwner DEF ScriptThrows
  <2>2. keys'.owner = keys.owner /\ keys'.bidder # Owner
    BY <1>0, <1>3, <2>1 DEF ScriptThrows, ApplyBid, AfterBid, Keys
  <2> QED
    BY <1>3, <2>1, <2>2, AnswerKeepsOwner DEF ScriptThrows, Reply
<1> QED
  BY <1>1, <1>2, <1>3

LEMMA RequestKeepsOwner ==
  ASSUME TypeOK, OwnerInv, NEW r \in Requests, Submit(r) \/ Serve(r) \/ Fail(r)
  PROVE  OwnerInv'
<1>0. /\ req[r] \in Request /\ Innocent(req[r]) /\ keys \in Keys /\ keys.bidder # Owner
      /\ r \in rows => req[r].user # Owner
  BY DEF TypeOK, OwnerInv
<1>1. CASE Submit(r)
  <2>1. PICK user \in Users, amount \in Amounts :
          req' = [req EXCEPT ![r] =
                   [Idle EXCEPT !.user = user, !.amount = amount,
                                !.pc = IF amount <= 0 THEN "done" ELSE "owner",
                                !.reply = IF amount <= 0 THEN "INVALID_AMOUNT" ELSE Null]]
    BY <1>1 DEF Submit
  <2>2. r \notin rows
    BY <1>1 DEF Submit, OwnerInv
  <2>3. Innocent([Idle EXCEPT !.user = user, !.amount = amount,
                              !.pc = IF amount <= 0 THEN "done" ELSE "owner",
                              !.reply = IF amount <= 0 THEN "INVALID_AMOUNT" ELSE Null])
    BY OwnerIsUser DEF Idle, Innocent, Unread, NoSnapshot
  <2> QED
    BY <1>0, <1>1, <2>1, <2>2, <2>3, OwnerReplace DEF Submit
<1>2. CASE ReadOwner(r)
  <2>1. PICK owner \in {Null, Owner} :
          req' = [req EXCEPT ![r].seen.owner = owner, ![r].pc = "active"]
    BY <1>2 DEF ReadOwner, ReadOutcomes, OwnerInv
  <2> DEFINE seen == [req[r].seen EXCEPT !.owner = owner]
  <2>2. req' = [req EXCEPT ![r] = [req[r] EXCEPT !.seen = seen, !.pc = "active"]]
    BY <2>1 DEF TypeOK
  <2>3. seen.owner \in {Null, Owner}
    BY <1>0 DEF Request
  <2>4. Innocent([req[r] EXCEPT !.seen = seen, !.pc = "active"])
    BY <1>0, <2>3 DEF Innocent, Request
  <2> QED
    BY <1>0, <1>2, <2>2, <2>4, OwnerReplace DEF ReadOwner, Request
<1>3. CASE ReadActive(r) \/ ReadPrice(r)
  <2>1. PICK seen \in Seen, pc \in {"active", "price", "script"} :
          /\ req' = [req EXCEPT ![r] = [req[r] EXCEPT !.seen = seen, !.pc = pc]]
          /\ seen.owner = req[r].seen.owner
    <3>1. CASE ReadActive(r)
      <4>1. PICK active \in BOOLEAN :
              req' = [req EXCEPT ![r].seen.active = active, ![r].pc = "price"]
        BY <3>1 DEF TypeOK, ReadActive, ReadOutcomes, Keys
      <4>2. /\ [req[r].seen EXCEPT !.active = active] \in Seen
            /\ [req[r].seen EXCEPT !.active = active].owner = req[r].seen.owner
        BY <1>0 DEF Request, Seen
      <4> QED
        BY <4>1, <4>2 DEF TypeOK
    <3>2. CASE ReadPrice(r)
      <4>1. PICK price \in Price :
              req' = [req EXCEPT ![r].seen.price = price, ![r].pc = "script"]
        BY <3>2 DEF TypeOK, ReadPrice, ReadOutcomes, Keys, Price
      <4>2. /\ [req[r].seen EXCEPT !.price = price] \in Seen
            /\ [req[r].seen EXCEPT !.price = price].owner = req[r].seen.owner
        BY <1>0 DEF Request, Seen
      <4> QED
        BY <4>1, <4>2 DEF TypeOK
    <3> QED
      BY <1>3, <3>1, <3>2
  <2>2. /\ Innocent([req[r] EXCEPT !.seen = seen, !.pc = pc])
        /\ [req[r] EXCEPT !.seen = seen, !.pc = pc].user = req[r].user
        /\ [req[r] EXCEPT !.seen = seen, !.pc = pc].pc # "idle"
    BY <1>0, <2>1 DEF Innocent, Request
  <2> QED
    BY <1>0, <1>3, <2>1, <2>2, OwnerReplace DEF ReadActive, ReadPrice
<1>4. CASE RejectLocally(r) \/ ScriptAccepts(r) \/ ScriptRejects(r) \/ ScriptThrows(r)
  BY <1>4, ScriptKeepsOwner
<1>5. CASE SaveBid(r) \/ SaveThrows(r)
  <2>1. req[r].user # Owner
    BY <1>0, <1>5 DEF Innocent, SaveBid, SaveThrows
  <2> QED
    BY <1>0, <1>5, <2>1, AnswerKeepsOwner, GotoKeepsOwner
    DEF SaveBid, SaveThrows, Reply, InFlight
<1>6. CASE RollbackReadsTtl(r) \/ RollbackThrows(r)
  BY <1>0, <1>6, AnswerKeepsOwner, GotoKeepsOwner
  DEF RollbackReadsTtl, RollbackThrows, Reply, InFlight
<1>7. CASE RollbackPrice(r)
  <2>1. keys'.owner = keys.owner /\ keys'.bidder # Owner
    BY <1>0, <1>7 DEF RollbackPrice, Keys
  <2> QED
    BY <1>0, <1>7, <2>1, GotoKeepsOwner DEF RollbackPrice, InFlight
<1>8. CASE RollbackBidder(r)
  <2>1. keys'.owner = keys.owner /\ keys'.bidder # Owner
    BY <1>0, <1>8 DEF RollbackBidder, Keys, Innocent
  <2> QED
    BY <1>0, <1>8, <2>1, AnswerKeepsOwner DEF RollbackBidder, Reply
<1>9. CASE Crash(r)
  <2>1. req' = [req EXCEPT ![r] = [Answered(req[r], Null) EXCEPT !.pc = "crashed"]]
    BY <1>9 DEF Crash, TypeOK
  <2>2. /\ [Answered(req[r], Null) EXCEPT !.pc = "crashed"].user = req[r].user
        /\ [Answered(req[r], Null) EXCEPT !.pc = "crashed"].pc # "idle"
    BY <1>0 DEF Request, Answered
  <2> QED
    BY <1>0, <1>9, <2>1, <2>2, AnsweredIsInnocent, OwnerReplace DEF Crash
<1> QED
  BY <1>1, <1>2, <1>3, <1>4, <1>5, <1>6, <1>7, <1>8, <1>9 DEF Serve, Fail

LEMMA EndKeepsOwner ==
  ASSUME TypeOK, OwnerInv, ExpireActive \/ EndJob
  PROVE  OwnerInv'
<1>0. /\ end \in Job /\ keys \in Keys
      /\ keys.owner \in {Null, Owner} /\ keys.bidder # Owner
      /\ auction.winner # Owner /\ end.winner # Owner
  BY DEF TypeOK, OwnerInv
<1>1. CASE ExpireActive
  BY <1>0, <1>1 DEF ExpireActive, ActiveExpired, OwnerInv, Innocent, Keys
<1>2. CASE EndReadsPrice
  <2>1. end'.winner = end.winner
    BY <1>0, <1>2 DEF EndReadsPrice, Job
  <2> QED
    BY <1>0, <1>2, <2>1 DEF EndReadsPrice, OwnerInv, Innocent
<1>3. CASE EndReadsBidder
  <2>1. end'.winner \in {keys.bidder, Null}
    BY <1>0, <1>3 DEF EndReadsBidder, ReadOutcomes, Job
  <2> QED
    BY <1>0, <1>3, <2>1, OwnerIsUser DEF EndReadsBidder, OwnerInv, Innocent
<1>4. CASE EndCommits
  <2>1. end'.winner = end.winner /\ auction'.winner \in {auction.winner, end.winner}
    BY <1>0, <1>4 DEF EndCommits, Job
  <2> QED
    BY <1>0, <1>4, <2>1 DEF EndCommits, OwnerInv, Innocent
<1>5. CASE EndCleansUp
  <2>1. keys'.owner = Null /\ keys'.bidder = Null /\ end'.winner = end.winner
    BY <1>0, <1>5 DEF EndCleansUp, NoKeys, Job
  <2> QED
    BY <1>0, <1>5, <2>1, OwnerIsUser DEF EndCleansUp, OwnerInv, Innocent
<1>6. CASE EndNotifies
  <2>1. end'.winner = end.winner
    BY <1>0, <1>6 DEF EndNotifies, Job
  <2> QED
    BY <1>0, <1>6, <2>1 DEF EndNotifies, OwnerInv, Innocent
<1>7. CASE EndAttemptFails
  <2>1. end'.winner \in {end.winner, Null}
    BY <1>0, <1>7 DEF EndAttemptFails, NoJob, Job
  <2> QED
    BY <1>0, <1>7, <2>1, OwnerIsUser DEF EndAttemptFails, OwnerInv, Innocent
<1> QED
  BY <1>1, <1>2, <1>3, <1>4, <1>5, <1>6, <1>7 DEF EndJob

\* Whatever reads fail, whoever crashes and whatever is rolled back, the owner
\* never gets a row, never leads and never wins.
THEOREM OwnerIsShutOut == Spec => []OwnerNeverBids
<1>1. OwnerInv /\ UNCHANGED vars => OwnerInv'
  BY DEF OwnerInv, Innocent, vars
<1>2. TypeOK /\ OwnerInv /\ [Next]_vars => (TypeOK /\ OwnerInv)'
  BY <1>1, NextType, RequestKeepsOwner, EndKeepsOwner DEF Next
<1>3. Init => TypeOK /\ OwnerInv
  BY InitTypeOK, InitOwner
<1>4. OwnerInv => OwnerNeverBids
  BY DEF OwnerInv, OwnerNeverBids
<1> QED
  BY <1>2, <1>3, <1>4, PTL DEF Spec

-----------------------------------------------------------------------------
(* The bidders are told the truth. *)

\* What may be said of one call, given whether it has a row: it is answered at
\* the end only, and a row is there from the insert on.
Truthful(request, saved) ==
  /\ request.pc # "done" => request.reply = Null
  /\ request.reply = "SUCCESS" => saved
  /\ saved => /\ request.pc \in {"ttl", "undoPrice", "undoBidder", "done", "crashed"}
              /\ request.reply \in {"SUCCESS", "SERVER_ERROR", Null}

AnswerInv == \A r \in Requests : Truthful(req[r], r \in rows)

NullIsNoReply == Null \notin Reply

LEMMA InitAnswer == ASSUME NullIsNoReply PROVE Init => AnswerInv
  BY DEF NullIsNoReply, Reply, Init, Idle, AnswerInv, Truthful

\* A step that changes one call, and at most the row of that call.
LEMMA TruthKept ==
  ASSUME AnswerInv, NEW r \in Requests, \A s \in Requests \ {r} : req'[s] = req[s],
         rows \subseteq rows', rows' \subseteq rows \cup {r}, Truthful(req'[r], r \in rows')
  PROVE  AnswerInv'
<1>1. \A s \in Requests \ {r} : s \in rows' <=> s \in rows
  OBVIOUS
<1>2. \A s \in Requests \ {r} : Truthful(req'[s], s \in rows')
  BY <1>1 DEF AnswerInv, Truthful
<1> QED
  BY <1>2 DEF AnswerInv, Truthful

\* An answer that is true of the row there is.
LEMMA AnswerIsTruthful ==
  ASSUME TypeOK, AnswerInv, NEW r \in Requests, NEW reply \in Reply, req' = Answer(r, reply),
         rows \subseteq rows', rows' \subseteq rows \cup {r},
         reply = "SUCCESS" => r \in rows',
         r \in rows' => reply \in {"SUCCESS", "SERVER_ERROR"}
  PROVE  AnswerInv'
<1>1. /\ req'[r].pc = "done" /\ req'[r].reply = reply
      /\ \A s \in Requests \ {r} : req'[s] = req[s]
  BY AnswerEffect
<1>2. Truthful(req'[r], r \in rows')
  BY <1>1 DEF Truthful
<1> QED
  BY <1>1, <1>2, TruthKept

\* A call in flight that goes on unanswered.
LEMMA GoingOnIsTruthful ==
  ASSUME NullIsNoReply, TypeOK, AnswerInv, NEW r \in Requests, req[r].pc # "done",
         NEW request, request.pc # "done", request.reply = req[r].reply,
         req' = [req EXCEPT ![r] = request],
         rows \subseteq rows', rows' \subseteq rows \cup {r},
         r \in rows' => request.pc \in {"ttl", "undoPrice", "undoBidder", "crashed"}
  PROVE  AnswerInv'
<1>1. req'[r] = request /\ \A s \in Requests \ {r} : req'[s] = req[s]
  BY DEF TypeOK
<1>2. req[r].reply = Null
  BY DEF AnswerInv, Truthful
<1>3. Truthful(request, r \in rows')
  BY <1>2 DEF Truthful, NullIsNoReply, Reply
<1> QED
  BY <1>1, <1>3, TruthKept

LEMMA GotoIsTruthful ==
  ASSUME NullIsNoReply, TypeOK, AnswerInv, NEW r \in Requests, req[r].pc # "done",
         NEW pc \in {"ttl", "undoPrice", "undoBidder"}, req' = Goto(r, pc),
         rows \subseteq rows', rows' \subseteq rows \cup {r}
  PROVE  AnswerInv'
<1>1. req' = [req EXCEPT ![r] = [req[r] EXCEPT !.pc = pc]] /\ req[r] \in Request
  BY DEF Goto, TypeOK
<1>2. /\ [req[r] EXCEPT !.pc = pc].pc = pc
      /\ [req[r] EXCEPT !.pc = pc].reply = req[r].reply
  BY <1>1 DEF Request
<1> QED
  BY <1>1, <1>2, GoingOnIsTruthful

LEMMA RequestKeepsAnswer ==
  ASSUME NullIsNoReply, TypeOK, AnswerInv, NEW r \in Requests, Submit(r) \/ Serve(r) \/ Fail(r)
  PROVE  AnswerInv'
<1>0. req[r] \in Request /\ Truthful(req[r], r \in rows)
  BY DEF TypeOK, AnswerInv
<1>1. CASE Submit(r)
  <2>1. PICK user \in Users, amount \in Amounts :
          req' = [req EXCEPT ![r] =
                   [Idle EXCEPT !.user = user, !.amount = amount,
                                !.pc = IF amount <= 0 THEN "done" ELSE "owner",
                                !.reply = IF amount <= 0 THEN "INVALID_AMOUNT" ELSE Null]]
    BY <1>1 DEF Submit
  <2>2. /\ req'[r].pc \in {"done", "owner"}
        /\ req'[r].pc = "done" => req'[r].reply = "INVALID_AMOUNT"
        /\ req'[r].pc = "owner" => req'[r].reply = Null
        /\ \A s \in Requests \ {r} : req'[s] = req[s]
    BY <2>1 DEF TypeOK, Idle
  <2>3. r \notin rows /\ rows' = rows
    BY <1>0, <1>1 DEF Submit, Truthful
  <2>4. Truthful(req'[r], r \in rows')
    BY <2>2, <2>3 DEF Truthful, NullIsNoReply, Reply
  <2> QED
    BY <2>2, <2>3, <2>4, TruthKept
<1>2. CASE ReadOwner(r) \/ ReadActive(r) \/ ReadPrice(r)
  <2>1. PICK seen \in Seen, pc \in {"active", "price", "script"} :
          req' = [req EXCEPT ![r] = [req[r] EXCEPT !.seen = seen, !.pc = pc]]
    BY <1>2, ReadsEffect
  <2>2. /\ [req[r] EXCEPT !.seen = seen, !.pc = pc].pc = pc
        /\ [req[r] EXCEPT !.seen = seen, !.pc = pc].reply = req[r].reply
    BY <1>0 DEF Request
  <2>3. req[r].pc # "done" /\ r \notin rows /\ rows' = rows
    BY <1>0, <1>2 DEF ReadOwner, ReadActive, ReadPrice, Truthful
  <2> QED
    BY <2>1, <2>2, <2>3, GoingOnIsTruthful
<1>3. CASE RejectLocally(r) \/ ScriptRejects(r) \/ ScriptThrows(r)
  <2>1. PICK reply \in Reply \ {"SUCCESS"} : req' = Answer(r, reply)
    BY <1>3 DEF RejectLocally, ScriptRejects, ScriptThrows, LocalVerdict, Reply
  <2>2. r \notin rows /\ rows' = rows
    BY <1>0, <1>3 DEF RejectLocally, ScriptRejects, ScriptThrows, Truthful
  <2> QED
    BY <2>1, <2>2, AnswerIsTruthful
<1>4. CASE ScriptAccepts(r)
  <2> DEFINE accept == [req[r] EXCEPT !.pc = "save",
                          !.previous = [price |-> keys.price, bidder |-> keys.bidder]]
  <2>1. req' = [req EXCEPT ![r] = accept] /\ rows' = rows
    BY <1>4 DEF ScriptAccepts, TypeOK
  <2>2. accept.pc = "save" /\ accept.reply = req[r].reply
    BY <1>0 DEF Request
  <2>3. req[r].pc # "done" /\ r \notin rows
    BY <1>0, <1>4 DEF ScriptAccepts, Truthful
  <2> QED
    BY <2>1, <2>2, <2>3, GoingOnIsTruthful
<1>5. CASE SaveBid(r)
  BY <1>5, AnswerIsTruthful DEF SaveBid, Reply
<1>6. CASE SaveThrows(r)
  BY <1>6, GotoIsTruthful DEF SaveThrows
<1>7. CASE RollbackReadsTtl(r)
  BY <1>7, AnswerIsTruthful, GotoIsTruthful DEF RollbackReadsTtl, Reply
<1>8. CASE RollbackPrice(r)
  BY <1>8, GotoIsTruthful DEF RollbackPrice
<1>9. CASE RollbackBidder(r) \/ RollbackThrows(r)
  BY <1>9, AnswerIsTruthful DEF RollbackBidder, RollbackThrows, Reply
<1>10. CASE Crash(r)
  <2> DEFINE crashed == [Answered(req[r], Null) EXCEPT !.pc = "crashed"]
  <2>1. req' = [req EXCEPT ![r] = crashed] /\ rows' = rows /\ req[r].pc # "done"
    BY <1>10 DEF Crash, InFlight, TypeOK
  <2>2. crashed.pc = "crashed" /\ crashed.reply = Null
    BY <1>0 DEF Request, Answered
  <2>3. req[r].reply = Null
    BY <1>0, <2>1 DEF Truthful
  <2> QED
    BY <2>1, <2>2, <2>3, GoingOnIsTruthful
<1> QED
  BY <1>1, <1>2, <1>3, <1>4, <1>5, <1>6, <1>7, <1>8, <1>9, <1>10 DEF Serve, Fail

LEMMA EndKeepsAnswer ==
  ASSUME AnswerInv, ExpireActive \/ EndJob \/ UNCHANGED vars
  PROVE  AnswerInv'
<1>1. UNCHANGED <<req, rows>>
  BY DEF vars, EndJob, ExpireActive, EndReadsPrice, EndReadsBidder, EndCommits, EndCleansUp,
         EndNotifies, EndAttemptFails
<1> QED
  BY <1>1 DEF AnswerInv, Truthful

\* Whatever fails and whoever crashes, SUCCESS means a row, and a refusal none.
THEOREM AnswersStayTrue ==
  ASSUME NullIsNoReply
  PROVE  Spec => []AnswersAreTrue
<1>1. Init => TypeOK /\ AnswerInv
  BY InitTypeOK, InitAnswer
<1>2. TypeOK /\ AnswerInv /\ [Next]_vars => (TypeOK /\ AnswerInv)'
  BY NextType, RequestKeepsAnswer, EndKeepsAnswer DEF Next
<1>3. AnswerInv => AnswersAreTrue
  BY DEF AnswerInv, Truthful, AnswersAreTrue
<1> QED
  BY <1>1, <1>2, <1>3, PTL DEF Spec

-----------------------------------------------------------------------------
(* The room is told the recorded result. *)

Recorded(x) == auction.status = "ENDED" /\ x = [winner |-> auction.winner, price |-> auction.currentPrice]

\* An attempt that has written the row still holds what it has written.
EndInv ==
  /\ end.updated => /\ end.pc \in {"cleanup", "notify", "finished", "failed"}
                    /\ Recorded([winner |-> end.winner, price |-> end.price])
  /\ \A x \in announced : Recorded(x)

LEMMA EndKeepsRecord ==
  ASSUME TypeOK, EndInv, EndJob
  PROVE  EndInv'
<1>0. end \in Job /\ auction.status \in {"ACTIVE", "ENDED"}
  BY DEF TypeOK
<1>1. CASE EndReadsPrice
  <2>1. end'.updated = FALSE
    BY <1>0, <1>1 DEF EndReadsPrice, EndInv, Job
  <2> QED
    BY <1>1, <2>1 DEF EndReadsPrice, EndInv, Recorded
<1>2. CASE EndReadsBidder
  <2>1. end'.updated = FALSE
    BY <1>0, <1>2 DEF EndReadsBidder, EndInv, Job
  <2> QED
    BY <1>2, <2>1 DEF EndReadsBidder, EndInv, Recorded
<1>3. CASE EndCommits
  <2>1. /\ end'.updated = (auction.status # "ENDED") /\ end'.pc = "cleanup"
        /\ end'.price = end.price /\ end'.winner = end.winner
    BY <1>0, <1>3 DEF EndCommits, Job
  <2>2. CASE auction.status = "ENDED"
    BY <1>3, <2>1, <2>2 DEF EndCommits, EndInv, Recorded
  <2>3. CASE auction.status # "ENDED"
    <3>1. /\ auction'.status = "ENDED" /\ auction'.winner = end.winner
          /\ auction'.currentPrice = end.price
      BY <1>3, <2>3 DEF EndCommits
    <3>2. announced' = {}
      BY <1>3, <2>3 DEF EndCommits, EndInv, Recorded
    <3> QED
      BY <2>1, <3>1, <3>2 DEF EndInv, Recorded
  <2> QED
    BY <2>2, <2>3
<1>4. CASE EndCleansUp
  <2>1. /\ end'.updated = end.updated /\ end'.pc = "notify"
        /\ end'.price = end.price /\ end'.winner = end.winner
    BY <1>0, <1>4 DEF EndCleansUp, Job
  <2> QED
    BY <1>4, <2>1 DEF EndCleansUp, EndInv, Recorded
<1>5. CASE EndNotifies
  <2>1. /\ end'.updated = end.updated /\ end'.pc = "finished"
        /\ end'.price = end.price /\ end'.winner = end.winner
    BY <1>0, <1>5 DEF EndNotifies, Job
  <2> QED
    BY <1>5, <2>1 DEF EndNotifies, EndInv, Recorded
<1>6. CASE EndAttemptFails
  <2>1. \/ end'.updated = FALSE
        \/ /\ end'.updated = end.updated /\ end'.pc = "failed"
           /\ end'.price = end.price /\ end'.winner = end.winner
    BY <1>0, <1>6 DEF EndAttemptFails, NoJob, Job
  <2> QED
    BY <1>6, <2>1 DEF EndAttemptFails, EndInv, Recorded
<1> QED
  BY <1>1, <1>2, <1>3, <1>4, <1>5, <1>6 DEF EndJob

LEMMA NextKeepsRecord == TypeOK /\ EndInv /\ [Next]_vars => EndInv'
<1> SUFFICES ASSUME TypeOK, EndInv, [Next]_vars PROVE EndInv'
  OBVIOUS
<1>1. CASE EndJob
  BY <1>1, EndKeepsRecord
<1>2. CASE UNCHANGED <<end, auction, announced>>
  BY <1>2 DEF EndInv, Recorded
<1>3. ASSUME NEW r \in Requests, Submit(r) \/ Serve(r) \/ Fail(r)
      PROVE  UNCHANGED <<end, auction, announced>>
  BY <1>3 DEF Submit, Serve, Fail, ReadOwner, ReadActive, ReadPrice, RejectLocally,
              ScriptAccepts, ScriptRejects, ScriptThrows, SaveBid, SaveThrows,
              RollbackReadsTtl, RollbackPrice, RollbackBidder, RollbackThrows, Crash
<1> QED
  BY <1>1, <1>2, <1>3 DEF Next, ExpireActive, vars

\* However often the end job is retried, the room is told what the row says.
THEOREM AnnouncementsAreRecorded == Spec => []AnnouncedIsRecorded
<1>1. Init => TypeOK /\ EndInv
  <2>1. Init => EndInv
    BY DEF Init, NoJob, EndInv
  <2> QED
    BY <2>1, InitTypeOK
<1>2. TypeOK /\ EndInv /\ [Next]_vars => (TypeOK /\ EndInv)'
  BY NextType, NextKeepsRecord
<1>3. EndInv => AnnouncedIsRecorded
  BY DEF EndInv, Recorded, AnnouncedIsRecorded
<1> QED
  BY <1>1, <1>2, <1>3, PTL DEF Spec

-----------------------------------------------------------------------------
(* Orderly bids leave Redis agreeing with the table. *)

\* The bids of the table, and a leading pair that agrees with them.
Table == {[user |-> req[r].user, amount |-> req[r].amount] : r \in rows}

Agrees(table, price, bidder) ==
  /\ price \in Nat
  /\ \A bid \in table : bid.amount <= price
  /\ \/ table = {} /\ price = StartPrice /\ bidder = Null
     \/ \E bid \in table : bid.user = bidder /\ bid.amount = price

\* A call that may still take its bid back remembers a pair that agrees; until
\* the insert it leads itself, and halfway through the rollback the price is back.
Revocable == {"save", "ttl", "undoPrice", "undoBidder"}

TurnInv(call) ==
  /\ call.pc \in Revocable => Agrees(Table, call.previous.price, call.previous.bidder)
  /\ call.pc = "save" => /\ keys.price = call.amount /\ keys.bidder = call.user
                         /\ call.amount > call.previous.price
  /\ call.pc = "undoBidder" => keys.price = call.previous.price

LeadInv ==
  keys.active =>
    /\ keys.price # Null
    /\ \A r \in Requests : TurnInv(req[r])
    /\ (\A r \in Requests : req[r].pc \notin Revocable) => Agrees(Table, keys.price, keys.bidder)

OneAtATime == \A r, s \in Requests : {req[r].pc, req[s].pc} \subseteq InFlight => r = s

OrderInv ==
  /\ \A r \in rows : req[r].pc = "done"
  /\ OneAtATime
  /\ LeadInv

LEMMA InitOrder == Init => OrderInv
<1> SUFFICES ASSUME Init PROVE OrderInv
  OBVIOUS
<1>1. /\ \A r \in Requests : req[r].pc = "idle"
      /\ rows = {} /\ keys.price = StartPrice /\ keys.bidder = Null
  BY KeysAssumption DEF Init, Idle, Initialized, NoKeys
<1>2. Agrees(Table, keys.price, keys.bidder)
  BY <1>1, BidAssumption DEF Agrees, Table
<1> QED
  BY <1>1, <1>2, BidAssumption, KeysAssumption
  DEF OrderInv, OneAtATime, LeadInv, TurnInv, InFlight, Revocable

\* Nobody changes a call whose bid has a row.
LEMMA TableStays ==
  ASSUME \A s \in rows : req'[s] = req[s], UNCHANGED rows
  PROVE  Table' = Table
  BY DEF Table

\* A step of a call that cannot take anything back, and changes neither keys
\* nor rows.
LEMMA QuietTurn ==
  ASSUME TypeOK, OrderInv, OneAtATime', NEW r \in Requests, UNCHANGED <<keys, rows>>,
         req[r].pc # "done",
         \A s \in Requests \ {r} : req'[s] = req[s],
         req[r].pc \notin Revocable, req'[r].pc \notin Revocable
  PROVE  OrderInv'
<1>1. r \notin rows /\ rows \subseteq Requests
  BY DEF OrderInv, TypeOK
<1>2. Table' = Table
  BY <1>1, TableStays
<1>3. \A s \in rows' : req'[s].pc = "done"
  BY <1>1 DEF OrderInv
<1>4. ASSUME keys.active PROVE \A s \in Requests : TurnInv(req[s])'
  <2> TAKE s \in Requests
  <2>1. CASE s = r
    BY <2>1 DEF TurnInv, Revocable
  <2>2. CASE s # r
    <3>1. TurnInv(req[s]) /\ req'[s] = req[s]
      BY <1>4, <2>2 DEF OrderInv, LeadInv
    <3> QED
      BY <1>2, <3>1 DEF TurnInv, Agrees
  <2> QED
    BY <2>1, <2>2
<1>5. ASSUME keys.active, \A s \in Requests : req'[s].pc \notin Revocable
      PROVE  Agrees(Table, keys.price, keys.bidder)'
  <2>1. \A s \in Requests : req[s].pc \notin Revocable
    BY <1>5
  <2>2. Agrees(Table, keys.price, keys.bidder)
    BY <1>5, <2>1 DEF OrderInv, LeadInv
  <2> QED
    BY <1>2, <2>2 DEF Agrees
<1>6. LeadInv'
  BY <1>4, <1>5 DEF OrderInv, LeadInv
<1> QED
  BY <1>3, <1>6 DEF OrderInv

\* A step of the one call in flight: nobody else can take anything back.
LEMMA OwnTurn ==
  ASSUME TypeOK, OrderInv, OneAtATime', NEW r \in Requests, req[r].pc \in InFlight,
         \A s \in Requests \ {r} : req'[s] = req[s],
         rows' \subseteq rows \cup {r}, r \in rows' => req'[r].pc = "done",
         keys'.active = keys.active,
         keys.active => /\ keys'.price # Null /\ TurnInv(req[r])'
                        /\ req'[r].pc \notin Revocable => Agrees(Table, keys.price, keys.bidder)'
  PROVE  OrderInv'
<1>1. \A s \in rows' : req'[s].pc = "done"
  BY DEF OrderInv, TypeOK
<1>2. \A s \in Requests \ {r} : req'[s].pc \notin Revocable
  BY DEF OrderInv, OneAtATime, Revocable, InFlight
<1>3. keys.active => \A s \in Requests : TurnInv(req[s])'
  BY <1>2 DEF TurnInv, Revocable
<1> QED
  BY <1>1, <1>2, <1>3 DEF OrderInv, LeadInv

\* What OrderInv says when a call of its own is in flight.
LEMMA OrderlyNow ==
  ASSUME TypeOK, OrderInv, NEW r \in Requests, req[r].pc \in InFlight, keys.active
  PROVE  /\ r \notin rows /\ keys.price \in Nat /\ TurnInv(req[r])
         /\ req[r].pc \notin Revocable => Agrees(Table, keys.price, keys.bidder)
<1>1. \A s \in Requests : s # r => req[s].pc \notin Revocable
  BY DEF OrderInv, OneAtATime, Revocable, InFlight
<1>2. r \notin rows
  BY DEF OrderInv, InFlight
<1>3. keys.price \in Nat
  BY DEF OrderInv, LeadInv, TypeOK, Keys, Price
<1> QED
  BY <1>1, <1>2, <1>3 DEF OrderInv, LeadInv

\* The script replaces a pair that agrees, and the call remembers it.
LEMMA AcceptIsOrderly ==
  ASSUME TypeOK, OrderInv, OneAtATime', NEW r \in Requests, ScriptAccepts(r)
  PROVE  OrderInv'
<1>1. req[r] \in Request /\ req[r].pc = "script" /\ req[r].pc \in InFlight
  BY DEF ScriptAccepts, TypeOK, InFlight
<1>2. /\ keys.active /\ req[r].amount \in Nat
      /\ req[r].amount >= OrZero(keys.price) + MinAbsolute
      /\ keys' = [keys EXCEPT !.price = req[r].amount, !.bidder = req[r].user]
  BY <1>1, ApplyBidFacts DEF ScriptAccepts
<1>3. /\ keys'.price = req[r].amount /\ keys'.bidder = req[r].user /\ keys'.active = keys.active
      /\ keys'.price # Null
  BY <1>2, KeysAssumption DEF TypeOK, Keys
<1>4. /\ req'[r].pc = "save" /\ req'[r].user = req[r].user /\ req'[r].amount = req[r].amount
      /\ req'[r].previous.price = keys.price /\ req'[r].previous.bidder = keys.bidder
      /\ \A s \in Requests \ {r} : req'[s] = req[s]
  BY <1>1 DEF ScriptAccepts, TypeOK, Request
<1>5. r \notin rows /\ keys.price \in Nat /\ Agrees(Table, keys.price, keys.bidder)
  BY <1>1, <1>2, OrderlyNow DEF Revocable
<1>6. rows' = rows
  BY DEF ScriptAccepts
<1>7. Table' = Table
  BY <1>4, <1>5, <1>6, TableStays DEF TypeOK
<1>8. req[r].amount > keys.price
  BY <1>2, <1>5, KeysAssumption DEF OrZero
<1>9. Agrees(Table', req'[r].previous.price, req'[r].previous.bidder)
  BY <1>4, <1>5, <1>7
<1>10. TurnInv(req[r])'
  BY <1>3, <1>4, <1>8, <1>9 DEF TurnInv, Agrees
<1> QED
  BY <1>1, <1>3, <1>4, <1>5, <1>6, <1>10, OwnTurn DEF Revocable

\* The insert adds the pair Redis leads with to the table.
LEMMA InsertIsOrderly ==
  ASSUME TypeOK, OrderInv, OneAtATime', NEW r \in Requests, SaveBid(r)
  PROVE  OrderInv'
<1>1. req[r] \in Request /\ req[r].pc = "save" /\ req[r].pc \in InFlight
  BY DEF SaveBid, TypeOK, InFlight
<1>2. /\ req'[r].pc = "done" /\ req'[r].user = req[r].user /\ req'[r].amount = req[r].amount
      /\ \A s \in Requests \ {r} : req'[s] = req[s]
  BY AnswerEffect DEF SaveBid, Reply
<1>3. keys' = keys /\ rows' = rows \cup {r} /\ rows \subseteq Requests
  BY DEF SaveBid, TypeOK
<1>4. ASSUME keys.active PROVE keys.price # Null /\ Agrees(Table, keys.price, keys.bidder)'
  <2>1. r \notin rows /\ keys.price \in Nat /\ TurnInv(req[r])
    BY <1>1, <1>4, OrderlyNow
  <2>2. /\ keys.price = req[r].amount /\ keys.bidder = req[r].user
        /\ req[r].amount > req[r].previous.price
        /\ Agrees(Table, req[r].previous.price, req[r].previous.bidder)
    BY <1>1, <2>1 DEF TurnInv, Revocable
  <2>3. Table' = Table \cup {[user |-> req[r].user, amount |-> req[r].amount]}
    BY <1>2, <1>3, <2>1 DEF Table
  <2>4. \A bid \in Table : bid.amount \in Int
    BY DEF Table, TypeOK, Request
  <2>5. \A bid \in Table' : bid.amount <= keys.price
    <3> TAKE bid \in Table'
    <3>1. CASE bid \in Table
      BY <2>1, <2>2, <2>4, <3>1 DEF Agrees
    <3>2. CASE bid = [user |-> req[r].user, amount |-> req[r].amount]
      BY <2>1, <2>2, <3>2
    <3> QED
      BY <2>3, <3>1, <3>2
  <2>6. \E bid \in Table' : bid.user = keys.bidder /\ bid.amount = keys.price
    <3> DEFINE own == [user |-> req[r].user, amount |-> req[r].amount]
    <3>1. own \in Table' /\ own.user = keys.bidder /\ own.amount = keys.price
      BY <2>2, <2>3
    <3> QED
      BY <3>1
  <2> QED
    BY <1>3, <2>1, <2>5, <2>6, KeysAssumption DEF Agrees
<1>5. TurnInv(req[r])'
  BY <1>2 DEF TurnInv, Revocable
<1> QED
  BY <1>1, <1>2, <1>3, <1>4, <1>5, OwnTurn

\* The steps of the rollback, from the insert that fails to the second command.
LEMMA RollbackIsOrderly ==
  ASSUME TypeOK, OrderInv, OneAtATime', NEW r \in Requests,
         \/ SaveThrows(r) /\ rows' = rows
         \/ RollbackReadsTtl(r) \/ RollbackPrice(r) \/ RollbackBidder(r)
  PROVE  OrderInv'
<1>1. req[r] \in Request /\ req[r].pc \in InFlight /\ req[r].pc \in Revocable
  BY DEF SaveThrows, RollbackReadsTtl, RollbackPrice, RollbackBidder, TypeOK, InFlight, Revocable
<1>2. /\ rows' = rows /\ keys'.active = keys.active /\ r \notin rows
      /\ \A s \in Requests \ {r} : req'[s] = req[s]
  BY <1>1 DEF SaveThrows, RollbackReadsTtl, RollbackPrice, RollbackBidder, TypeOK, Keys, Goto, Answer,
              OrderInv, InFlight
<1>3. Table' = Table
  BY <1>2, TableStays DEF TypeOK
<1>4. ASSUME keys.active
      PROVE  /\ keys'.price # Null /\ TurnInv(req[r])'
             /\ req'[r].pc \notin Revocable => Agrees(Table, keys.price, keys.bidder)'
  <2>1. /\ keys.price \in Nat
        /\ Agrees(Table, req[r].previous.price, req[r].previous.bidder)
        /\ req[r].pc = "undoBidder" => keys.price = req[r].previous.price
    BY <1>1, <1>4, OrderlyNow DEF TurnInv
  <2>2. CASE SaveThrows(r)
    <3>1. req'[r].pc = "ttl" /\ req'[r].previous = req[r].previous /\ keys' = keys
      BY <1>1, <2>2 DEF SaveThrows, Goto, TypeOK, Request
    <3>2. Agrees(Table', req'[r].previous.price, req'[r].previous.bidder)
      BY <1>3, <2>1, <3>1
    <3> QED
      BY <2>1, <3>1, <3>2, KeysAssumption DEF TurnInv, Agrees, Revocable
  <2>3. CASE RollbackReadsTtl(r)
    <3>1. req'[r].pc = "undoPrice" /\ req'[r].previous = req[r].previous /\ keys' = keys
      BY <1>1, <2>1, <2>3, KeysAssumption DEF RollbackReadsTtl, Goto, TypeOK, Request
    <3>2. Agrees(Table', req'[r].previous.price, req'[r].previous.bidder)
      BY <1>3, <2>1, <3>1
    <3> QED
      BY <2>1, <3>1, <3>2, KeysAssumption DEF TurnInv, Agrees, Revocable
  <2>4. CASE RollbackPrice(r)
    <3>1. /\ req'[r].pc = "undoBidder" /\ req'[r].previous = req[r].previous
          /\ keys'.price = req[r].previous.price
      BY <1>1, <2>4 DEF RollbackPrice, Goto, TypeOK, Request, Keys
    <3>2. Agrees(Table', req'[r].previous.price, req'[r].previous.bidder)
      BY <1>3, <2>1, <3>1
    <3>3. keys'.price \in Nat
      BY <2>1, <3>1 DEF Agrees
    <3> QED
      BY <3>1, <3>2, <3>3, KeysAssumption DEF TurnInv, Agrees, Revocable
  <2>5. CASE RollbackBidder(r)
    <3>1. req'[r].pc = "done"
      BY <2>5, AnswerEffect DEF RollbackBidder, Reply
    <3>2. keys'.price = req[r].previous.price /\ keys'.bidder = req[r].previous.bidder
      BY <2>1, <2>5 DEF RollbackBidder, TypeOK, Keys
    <3>3. Agrees(Table', keys'.price, keys'.bidder)
      BY <1>3, <2>1, <3>2
    <3>4. keys'.price \in Nat
      BY <2>1, <3>2 DEF Agrees
    <3> QED
      BY <3>1, <3>3, <3>4, KeysAssumption DEF TurnInv, Agrees, Revocable
  <2> QED
    BY <1>1, <2>2, <2>3, <2>4, <2>5
<1> QED
  BY <1>1, <1>2, <1>4, OwnTurn

\* Steps that leave the calls and the table alone, and no more than close the
\* sale.
LEMMA OtherStepIsOrderly ==
  ASSUME OrderInv, UNCHANGED <<req, rows>>, keys' = keys \/ ~keys'.active
  PROVE  OrderInv'
<1>1. OneAtATime' /\ \A r \in rows' : req'[r].pc = "done"
  BY DEF OrderInv, OneAtATime
<1>2. CASE keys' = keys
  BY <1>1, <1>2 DEF OrderInv, LeadInv, TurnInv, Agrees, Table
<1>3. CASE ~keys'.active
  BY <1>1, <1>3 DEF OrderInv, LeadInv
<1> QED
  BY <1>2, <1>3

LEMMA NextOrder == TypeOK /\ OrderInv /\ [Next]_vars /\ ~Disorder => OrderInv'
<1> SUFFICES ASSUME TypeOK, OrderInv, [Next]_vars, ~Disorder PROVE OrderInv'
  OBVIOUS
<1>0. OneAtATime'
  BY DEF Disorder, OneAtATime
<1>1. CASE UNCHANGED vars
  BY <1>1, OtherStepIsOrderly DEF vars
<1>2. ASSUME NEW r \in Requests, Submit(r) \/ Serve(r) \/ Fail(r) PROVE OrderInv'
  <2>0. \A s \in rows : s \in Requests /\ req[s].pc = "done"
    BY DEF OrderInv, TypeOK
  <2>1. CASE Submit(r)
    <3>1. req'[r].pc \in {"done", "owner"}
      BY <2>1 DEF Submit, TypeOK, Idle
    <3> QED
      BY <1>0, <2>1, <3>1, QuietTurn DEF Submit, TypeOK, Revocable
  <2>2. CASE ReadOwner(r) \/ ReadActive(r) \/ ReadPrice(r)
    <3>1. req'[r].pc \in {"active", "price", "script"}
      <4>1. PICK seen \in Seen, pc \in {"active", "price", "script"} :
              req' = [req EXCEPT ![r] = [req[r] EXCEPT !.seen = seen, !.pc = pc]]
        BY <2>2, ReadsEffect
      <4>2. req'[r] = [req[r] EXCEPT !.seen = seen, !.pc = pc] /\ req[r] \in Request
        BY <4>1 DEF TypeOK
      <4> QED
        BY <4>2 DEF Request
    <3> QED
      BY <1>0, <2>2, <3>1, QuietTurn DEF ReadOwner, ReadActive, ReadPrice, TypeOK, Revocable
  <2>3. CASE RejectLocally(r) \/ ScriptRejects(r)
    <3>1. PICK reply \in Reply : req' = Answer(r, reply)
      BY <2>3 DEF RejectLocally, ScriptRejects, LocalVerdict, Reply
    <3>2. req'[r].pc = "done" /\ \A s \in Requests \ {r} : req'[s] = req[s]
      BY <3>1, AnswerEffect
    <3> QED
      BY <1>0, <2>3, <3>2, QuietTurn DEF RejectLocally, ScriptRejects, Revocable
  <2>4. CASE ScriptAccepts(r)
    BY <1>0, <2>4, AcceptIsOrderly
  <2>5. CASE SaveBid(r)
    BY <1>0, <2>5, InsertIsOrderly
  <2>6. CASE SaveThrows(r) \/ RollbackReadsTtl(r) \/ RollbackPrice(r) \/ RollbackBidder(r)
    BY <1>0, <2>6, RollbackIsOrderly DEF Disorder
  <2>7. CASE ScriptThrows(r) \/ RollbackThrows(r) \/ Crash(r)
    BY <2>7 DEF Disorder
  <2> QED
    BY <1>2, <2>1, <2>2, <2>3, <2>4, <2>5, <2>6, <2>7 DEF Serve, Fail
<1>3. CASE ExpireActive
  BY <1>3, OtherStepIsOrderly DEF ExpireActive, ActiveExpired, TypeOK, Keys
<1>4. CASE EndCleansUp
  BY <1>4, OtherStepIsOrderly DEF EndCleansUp, NoKeys
<1>5. CASE EndReadsPrice \/ EndReadsBidder \/ EndCommits \/ EndNotifies \/ EndAttemptFails
  BY <1>5, OtherStepIsOrderly
  DEF EndReadsPrice, EndReadsBidder, EndCommits, EndNotifies, EndAttemptFails
<1> QED
  BY <1>1, <1>2, <1>3, <1>4, <1>5 DEF Next, EndJob

\* Whatever fails and whenever the sale ends: as long as bids came one after the
\* other and nothing but inserts failed, an open auction without a bid in flight
\* leads with the highest row, or has no row and its start price.
THEOREM RollbackIsComplete == TracedSpec => []RollbackRestores
<1> DEFINE Inv == TypeOK /\ (orderly => OrderInv)
<1>1. TracedInit => Inv
  BY InitTypeOK, InitOrder DEF TracedInit
<1>2. Inv /\ [TracedNext]_<<vars, orderly>> => Inv'
  <2> SUFFICES ASSUME Inv, [TracedNext]_<<vars, orderly>> PROVE Inv'
    OBVIOUS
  <2>1. [Next]_vars /\ (orderly' => orderly /\ (~Disorder \/ UNCHANGED vars))
    <3>1. CASE UNCHANGED <<vars, orderly>>
      BY <3>1
    <3>2. CASE TracedNext
      <4>1. Next /\ orderly' = (orderly /\ ~Disorder)
        BY <3>2 DEF TracedNext
      <4>2. orderly' => orderly /\ ~Disorder
        BY <4>1, Zenon
      <4> QED
        BY <4>1, <4>2
    <3> QED
      BY <3>1, <3>2
  <2>2. TypeOK'
    BY <2>1, NextType
  <2>3. ASSUME orderly' PROVE OrderInv'
    <3>1. CASE UNCHANGED vars
      BY <2>1, <2>3, <3>1, OtherStepIsOrderly DEF vars
    <3>2. CASE ~Disorder
      BY <2>1, <2>3, <3>2, NextOrder
    <3> QED
      BY <2>1, <2>3, <3>1, <3>2
  <2> QED
    BY <2>2, <2>3
<1>3. Inv => RollbackRestores
  <2> SUFFICES ASSUME OrderInv, TypeOK, Quiescent, keys.active
               PROVE  /\ PriceCoversRows
                      /\ \/ rows = {} /\ keys.price = StartPrice /\ keys.bidder = Null
                         \/ \E r \in rows : req[r].user = keys.bidder /\ req[r].amount = keys.price
    BY DEF RollbackRestores, RedisAgreesWithRows
  <2>1. \A r \in Requests : req[r].pc \notin Revocable
    BY DEF Quiescent, Revocable, InFlight
  <2>2. Agrees(Table, keys.price, keys.bidder)
    BY <2>1 DEF OrderInv, LeadInv
  <2>3. \A r \in rows : [user |-> req[r].user, amount |-> req[r].amount] \in Table
    BY DEF Table
  <2>4. PriceCoversRows
    BY <2>2, <2>3 DEF Agrees, PriceCoversRows
  <2>5. Table = {} => rows = {}
    BY <2>3
  <2>6. \A bid \in Table : \E r \in rows : bid.user = req[r].user /\ bid.amount = req[r].amount
    BY DEF Table
  <2> QED
    BY <2>2, <2>4, <2>5, <2>6 DEF Agrees
<1> QED
  BY <1>1, <1>2, <1>3, PTL DEF TracedSpec

===============================================================================
