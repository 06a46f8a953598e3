----------------------------- MODULE BidPlacement -----------------------------
(***************************************************************************)
(* Concurrent bids on one active auction, from BidService.placeBid down to *)
(* the Redis keys and the bids table, and the job that ends the auction.   *)
(*                                                                         *)
(* A bid is a request with a program counter, one step per await of        *)
(* placeBid: the three reads, the script, the insert, and, when the insert *)
(* fails, the three commands of rollbackBid.  Requests of one server       *)
(* process and of several interleave in the same way, at every await.      *)
(* The end job runs on a worker at the same time.                          *)
(*                                                                         *)
(* Faults says what may go wrong in a run:                                 *)
(*   read_fails    a getter of RedisService swallows an error              *)
(*   script_fails  the script is not executed and the call throws          *)
(*   reply_lost    the script is executed and the call throws              *)
(*   save_fails    the insert of the bid row is rejected                   *)
(*   save_unacked  the insert is applied, but the call throws              *)
(*   undo_fails    the rollback pipeline fails                             *)
(*   crash         the process that serves a bid dies                      *)
(*   end_retry     an attempt of the end job fails and BullMQ retries it   *)
(*   early_end     the end job starts before the active key has expired    *)
(***************************************************************************)
EXTENDS AuctionKeys, Sequences

CONSTANTS Requests,     (* placeBid calls; each is used once               *)
          Owner,        (* the owner of the auction                        *)
          Amounts,      (* the amounts users may ask for                   *)
          StartPrice,   (* auction.startingPrice, at least 1               *)
          MaxAttempts,  (* the attempts of the end job (3 in the code)     *)
          Faults

AllFaults == {"read_fails", "script_fails", "reply_lost", "save_fails",
              "save_unacked", "undo_fails", "crash", "end_retry", "early_end"}

ASSUME BidAssumption ==
  /\ Owner \in Users
  /\ Amounts \subseteq Int
  /\ StartPrice \in Nat \ {0}
  /\ MaxAttempts \in Nat \ {0}
  /\ Faults \subseteq AllFaults

VARIABLES keys,       (* the Redis keys of the auction                     *)
          req,        (* the placeBid calls and their local variables      *)
          rows,       (* the requests whose bid row is in the bids table   *)
          auction,    (* the auction row                                   *)
          end,        (* the end job and its local variables               *)
          announced,  (* the results sent by notifyAuctionEnd              *)
          accepted    (* history: the bids accepted by the script          *)

vars == <<keys, req, rows, auction, end, announced, accepted>>

-----------------------------------------------------------------------------

Fault(f) == f \in Faults

\* What a read that swallows its errors returns, given what the key holds.
ReadOutcomes(value, onError) == {value} \cup IF Fault("read_fails") THEN {onError} ELSE {}

Unread == [owner |-> Null, active |-> FALSE, price |-> Null]
NoSnapshot == [price |-> Null, bidder |-> Null]

Idle == [pc |-> "idle", user |-> Null, amount |-> 0, seen |-> Unread,
         previous |-> NoSnapshot, reply |-> Null]

NoJob == [pc |-> "waiting", price |-> Null, winner |-> Null, updated |-> FALSE,
          attempts |-> 1]

InFlight == {"owner", "active", "price", "script", "save", "ttl", "undoPrice", "undoBidder"}

\* Move request r to another step, or answer it.
Goto(r, pc) == [req EXCEPT ![r].pc = pc]

Answered(request, reply) ==
  [request EXCEPT !.pc = "done", !.reply = reply, !.seen = Unread, !.previous = NoSnapshot]

Answer(r, reply) == [req EXCEPT ![r] = Answered(@, reply)]

Init ==
  /\ keys = Initialized(NoKeys, StartPrice, Owner)
  /\ req = [r \in Requests |-> Idle]
  /\ rows = {}
  /\ auction = [status |-> "ACTIVE", currentPrice |-> StartPrice, winner |-> Null]
  /\ end = NoJob
  /\ announced = {}
  /\ accepted = <<>>

-----------------------------------------------------------------------------
(* placeBid *)

\* A user calls placeBid; an amount that is not positive is refused at once.
Submit(r) ==
  /\ req[r].pc = "idle"
  /\ \E user \in Users, amount \in Amounts :
       req' = [req EXCEPT ![r] =
                 [Idle EXCEPT !.user = user, !.amount = amount,
                              !.pc = IF amount <= 0 THEN "done" ELSE "owner",
                              !.reply = IF amount <= 0 THEN "INVALID_AMOUNT" ELSE Null]]
  /\ UNCHANGED <<keys, rows, auction, end, announced, accepted>>

\* Promise.all of three commands: sent together, but other clients' commands
\* may come in between.
ReadOwner(r) ==
  /\ req[r].pc = "owner"
  /\ \E owner \in ReadOutcomes(keys.owner, Null) :
       req' = [req EXCEPT ![r].seen.owner = owner, ![r].pc = "active"]
  /\ UNCHANGED <<keys, rows, auction, end, announced, accepted>>

ReadActive(r) ==
  /\ req[r].pc = "active"
  /\ \E active \in ReadOutcomes(keys.active, FALSE) :
       req' = [req EXCEPT ![r].seen.active = active, ![r].pc = "price"]
  /\ UNCHANGED <<keys, rows, auction, end, announced, accepted>>

ReadPrice(r) ==
  /\ req[r].pc = "price"
  /\ \E price \in ReadOutcomes(keys.price, Null) :
       req' = [req EXCEPT ![r].seen.price = price, ![r].pc = "script"]
  /\ UNCHANGED <<keys, rows, auction, end, announced, accepted>>

\* The increment comes from the price that was READ, not the one in the script.
MinIncrement(r) == CalcMinIncrement(OrZero(req[r].seen.price))

\* Mutated form: a missing owner key is not taken for an ended auction.
LocalVerdictTrustingOwnerKey(r) ==
  LET seen == req[r].seen
  IN  IF seen.owner = req[r].user THEN "OWNER_CANNOT_BID"
      ELSE IF ~seen.active THEN "AUCTION_ENDED"
      ELSE IF /\ seen.price # Null
              /\ req[r].amount < seen.price + MinIncrement(r) THEN "BID_TOO_LOW"
      ELSE "PASS"

\* The checks between the reads and the script; "PASS" goes on to the script.
LocalVerdict(r) ==
  LET seen == req[r].seen
  IN  IF seen.owner = Null THEN "AUCTION_ENDED"
      ELSE IF seen.owner = req[r].user THEN "OWNER_CANNOT_BID"
      ELSE IF ~seen.active THEN "AUCTION_ENDED"
      ELSE IF /\ seen.price # Null
              /\ req[r].amount < seen.price + MinIncrement(r) THEN "BID_TOO_LOW"
      ELSE "PASS"

RejectLocally(r) ==
  /\ req[r].pc = "script"
  /\ LocalVerdict(r) # "PASS"
  /\ req' = Answer(r, LocalVerdict(r))
  /\ UNCHANGED <<keys, rows, auction, end, announced, accepted>>

Verdict(r) == BidVerdict(keys, req[r].user, req[r].amount, MinIncrement(r))

\* The script's write and the history of what it accepted.
ApplyBid(r) ==
  /\ keys' = AfterBid(keys, req[r].user, req[r].amount)
  /\ accepted' = Append(accepted, [user |-> req[r].user, amount |-> req[r].amount])

ScriptAccepts(r) ==
  /\ req[r].pc = "script"
  /\ LocalVerdict(r) = "PASS"
  /\ Verdict(r) = "ACCEPTED"
  /\ ApplyBid(r)
  /\ req' = [req EXCEPT ![r].pc = "save",
                        ![r].previous = [price |-> keys.price, bidder |-> keys.bidder]]
  /\ UNCHANGED <<rows, auction, end, announced>>

\* A rejection code becomes the answer; the price read again for the answer's
\* text is left out.
ScriptRejects(r) ==
  /\ req[r].pc = "script"
  /\ LocalVerdict(r) = "PASS"
  /\ Verdict(r) # "ACCEPTED"
  /\ req' = Answer(r, CASE Verdict(r) = "AUCTION_INACTIVE" -> "AUCTION_ENDED"
                        [] Verdict(r) = "ALREADY_LEADING"  -> "ALREADY_LEADING"
                        [] OTHER                           -> "OUTBID")
  /\ UNCHANGED <<keys, rows, auction, end, announced, accepted>>

\* placeBidAtomicWithSnapshot catches the exception and returns no code, which
\* placeBid answers as OUTBID -- whether or not the script was executed.
ScriptThrows(r) ==
  /\ req[r].pc = "script"
  /\ LocalVerdict(r) = "PASS"
  /\ \/ /\ Fault("script_fails")
        /\ UNCHANGED <<keys, accepted>>
     \/ /\ Fault("reply_lost")
        /\ Verdict(r) = "ACCEPTED"
        /\ ApplyBid(r)
  /\ req' = Answer(r, "OUTBID")
  /\ UNCHANGED <<rows, auction, end, announced>>

SaveBid(r) ==
  /\ req[r].pc = "save"
  /\ rows' = rows \cup {r}
  /\ req' = Answer(r, "SUCCESS")
  /\ UNCHANGED <<keys, auction, end, announced, accepted>>

\* Mutated form: the error of the insert is swallowed.
SaveThrowsUnnoticed(r) ==
  /\ req[r].pc = "save"
  /\ Fault("save_fails") \/ Fault("save_unacked")
  /\ req' = Answer(r, "SUCCESS")
  /\ UNCHANGED <<keys, rows, auction, end, announced, accepted>>

SaveThrows(r) ==
  /\ req[r].pc = "save"
  /\ \/ Fault("save_fails") /\ UNCHANGED rows
     \/ Fault("save_unacked") /\ rows' = rows \cup {r}
  /\ req' = Goto(r, "ttl")
  /\ UNCHANGED <<keys, auction, end, announced, accepted>>

-----------------------------------------------------------------------------
(* rollbackBid: TTL of the price key, then a pipeline of two writes. *)

\* Mutated form: no early return when the key is gone.
RollbackNeedsPriceKey(r) ==
  /\ req[r].pc = "ttl"
  /\ keys.price # Null
  /\ req' = Goto(r, "undoPrice")
  /\ UNCHANGED <<keys, rows, auction, end, announced, accepted>>

\* TTL returns -2 when the key is gone: the rollback is skipped.
RollbackReadsTtl(r) ==
  /\ req[r].pc = "ttl"
  /\ req' = IF keys.price = Null THEN Answer(r, "SERVER_ERROR") ELSE Goto(r, "undoPrice")
  /\ UNCHANGED <<keys, rows, auction, end, announced, accepted>>

\* Mutated form: only the bidder is rolled back.
RollbackKeepsPrice(r) ==
  /\ req[r].pc = "undoPrice"
  /\ req' = Goto(r, "undoBidder")
  /\ UNCHANGED <<keys, rows, auction, end, announced, accepted>>

RollbackPrice(r) ==
  /\ req[r].pc = "undoPrice"
  /\ keys' = [keys EXCEPT !.price = req[r].previous.price]
  /\ req' = Goto(r, "undoBidder")
  /\ UNCHANGED <<rows, auction, end, announced, accepted>>

RollbackBidder(r) ==
  /\ req[r].pc = "undoBidder"
  /\ keys' = [keys EXCEPT !.bidder = req[r].previous.bidder]
  /\ req' = Answer(r, "SERVER_ERROR")
  /\ UNCHANGED <<rows, auction, end, announced, accepted>>

\* rollbackBid logs "CRITICAL: Redis rollback failed" and returns.
RollbackThrows(r) ==
  /\ Fault("undo_fails")
  /\ req[r].pc \in {"ttl", "undoPrice", "undoBidder"}
  /\ req' = Answer(r, "SERVER_ERROR")
  /\ UNCHANGED <<keys, rows, auction, end, announced, accepted>>

\* The process that serves the request dies between two awaits.
Crash(r) ==
  /\ Fault("crash")
  /\ req[r].pc \in InFlight
  /\ req' = [req EXCEPT ![r] = [Answered(@, Null) EXCEPT !.pc = "crashed"]]
  /\ UNCHANGED <<keys, rows, auction, end, announced, accepted>>

-----------------------------------------------------------------------------
(* The end of the auction *)

\* The TTL of the active key runs out.
ExpireActive ==
  /\ keys.active
  /\ keys' = ActiveExpired(keys)
  /\ UNCHANGED <<req, rows, auction, end, announced, accepted>>

\* process(): a price that is missing (or cannot be read) ends the job.
EndReadsPrice ==
  /\ end.pc = "waiting"
  /\ keys.active => Fault("early_end")
  /\ \E price \in ReadOutcomes(keys.price, Null) :
       end' = [end EXCEPT !.price = price,
                          !.pc = IF OrZero(price) = 0 THEN "skipped" ELSE "bidder"]
  /\ UNCHANGED <<keys, req, rows, auction, announced, accepted>>

EndReadsBidder ==
  /\ end.pc = "bidder"
  /\ \E bidder \in ReadOutcomes(keys.bidder, Null) :
       end' = [end EXCEPT !.winner = bidder, !.pc = "commit"]
  /\ UNCHANGED <<keys, req, rows, auction, announced, accepted>>

\* The transaction on the locked auction row: nothing is written twice.
EndCommits ==
  /\ end.pc = "commit"
  /\ auction' = IF auction.status = "ENDED" THEN auction
                ELSE [status |-> "ENDED", currentPrice |-> end.price, winner |-> end.winner]
  /\ end' = [end EXCEPT !.updated = auction.status # "ENDED", !.pc = "cleanup"]
  /\ UNCHANGED <<keys, req, rows, announced, accepted>>

\* cleanupAuction: one DEL of all keys.
EndCleansUp ==
  /\ end.pc = "cleanup"
  /\ keys' = NoKeys
  /\ end' = [end EXCEPT !.pc = "notify"]
  /\ UNCHANGED <<req, rows, auction, announced, accepted>>

\* Mutated forms: a retry announces what it has read itself; an auction
\* without a bidder is not announced.
EndNotifiesOnEveryAttempt ==
  /\ end.pc = "notify"
  /\ announced' = announced \cup {[winner |-> end.winner, price |-> end.price]}
  /\ end' = [end EXCEPT !.pc = "finished"]
  /\ UNCHANGED <<keys, req, rows, auction, accepted>>

EndNotifiesWinnersOnly ==
  /\ end.pc = "notify"
  /\ announced' = IF end.updated /\ end.winner # Null
                  THEN announced \cup {[winner |-> end.winner, price |-> end.price]}
                  ELSE announced
  /\ end' = [end EXCEPT !.pc = "finished"]
  /\ UNCHANGED <<keys, req, rows, auction, accepted>>

EndNotifies ==
  /\ end.pc = "notify"
  /\ announced' = IF end.updated
                  THEN announced \cup {[winner |-> end.winner, price |-> end.price]}
                  ELSE announced
  /\ end' = [end EXCEPT !.pc = "finished"]
  /\ UNCHANGED <<keys, req, rows, auction, accepted>>

\* Mutated form: the attempts are not counted against their limit.
EndAttemptFailsForever ==
  /\ Fault("end_retry")
  /\ end.pc \in {"bidder", "commit", "cleanup", "notify"}
  /\ end' = [NoJob EXCEPT !.attempts = end.attempts + 1]
  /\ UNCHANGED <<keys, req, rows, auction, announced, accepted>>

\* The transaction throws, or the worker dies: BullMQ runs process() again,
\* up to MaxAttempts times.
EndAttemptFails ==
  /\ Fault("end_retry")
  /\ end.pc \in {"bidder", "commit", "cleanup", "notify"}
  /\ end' = IF end.attempts < MaxAttempts
            THEN [NoJob EXCEPT !.attempts = end.attempts + 1]
            ELSE [end EXCEPT !.pc = "failed"]
  /\ UNCHANGED <<keys, req, rows, auction, announced, accepted>>

-----------------------------------------------------------------------------

\* What the serving process does next for request r, and what may fail.
Serve(r) ==
  \/ ReadOwner(r) \/ ReadActive(r) \/ ReadPrice(r)
  \/ RejectLocally(r) \/ ScriptAccepts(r) \/ ScriptRejects(r)
  \/ SaveBid(r)
  \/ RollbackReadsTtl(r) \/ RollbackPrice(r) \/ RollbackBidder(r)

Fail(r) == ScriptThrows(r) \/ SaveThrows(r) \/ RollbackThrows(r) \/ Crash(r)

EndJob ==
  \/ EndReadsPrice \/ EndReadsBidder \/ EndCommits \/ EndCleansUp \/ EndNotifies
  \/ EndAttemptFails

Next ==
  \/ \E r \in Requests : Submit(r) \/ Serve(r) \/ Fail(r)
  \/ ExpireActive
  \/ EndJob

Spec == Init /\ [][Next]_vars

\* The event loop resumes every await, Redis expires keys, and the worker runs
\* its job.  Nobody has to bid, and no failure is relied on.
Fairness ==
  /\ \A r \in Requests : WF_vars(Serve(r))
  /\ WF_vars(ExpireActive)
  /\ WF_vars(EndJob)

FairSpec == Spec /\ Fairness

-----------------------------------------------------------------------------
(* Properties *)

Reply == {"SUCCESS", "INVALID_AMOUNT", "AUCTION_ENDED", "OWNER_CANNOT_BID",
          "BID_TOO_LOW", "ALREADY_LEADING", "OUTBID", "SERVER_ERROR"}

Request == [pc : {"idle", "done", "crashed"} \cup InFlight,
            user : UserOrNull,
            amount : Int,
            seen : [owner : UserOrNull, active : BOOLEAN, price : Price],
            previous : [price : Price, bidder : UserOrNull],
            reply : Reply \cup {Null}]

Job == [pc : {"waiting", "bidder", "commit", "cleanup", "notify", "finished",
              "skipped", "failed"},
        price : Price, winner : UserOrNull, updated : BOOLEAN,
        attempts : 1..MaxAttempts]

TypeOK ==
  /\ keys \in Keys
  /\ req \in [Requests -> Request]
  /\ \A r \in Requests : req[r].pc # "idle" => req[r].user \in Users
  /\ rows \subseteq Requests
  /\ auction \in [status : {"ACTIVE", "ENDED"}, currentPrice : Price, winner : UserOrNull]
  /\ end \in Job
  /\ announced \subseteq [winner : UserOrNull, price : Price]
  /\ accepted \in Seq([user : Users, amount : Int])

\* The bids that have, or are about to get, a row: accepted by the script and
\* not (yet) known to have failed.
Claims == rows \cup {r \in Requests : req[r].pc = "save"}

\* As long as no insert fails, the live price is never below a bid that is in
\* the bids table: no interleaving of scripts and inserts lets the auction
\* fall behind what it has already promised a bidder.
PriceCoversRows ==
  keys.price # Null => \A r \in rows : req[r].amount <= keys.price

\* As long as no insert fails, two rows of one auction never carry the same
\* amount, so "the highest bid" is one bid.
NoTiedRows ==
  \A r, s \in rows : r # s => req[r].amount # req[s].amount

\* The inductive strengthening of the two: nothing is ever rolled back, and the
\* bids that are still being saved are covered and distinct as well.
RollbackFree == Faults \cap {"save_fails", "save_unacked"} = {}

LedgerInv ==
  /\ \A r \in Requests : req[r].pc \notin {"ttl", "undoPrice", "undoBidder"}
  /\ \A r \in rows : req[r].pc = "done"
  /\ keys.active => keys.price # Null
  /\ keys.price # Null => \A r \in Claims : req[r].amount <= keys.price
  /\ \A r, s \in Claims : r # s => req[r].amount # req[s].amount

\* The leading pair in Redis is one real bid: the user and the amount belong
\* to the same request, and that request has, or is getting, its row.
LeaderIsBacked ==
  keys.bidder # Null =>
    \E r \in Claims : req[r].user = keys.bidder /\ req[r].amount = keys.price

\* The auction row names the user and the amount of the highest bid of the
\* table, also when the last inserts come after the end of the auction.
WinnerIsBestRow ==
  auction.status = "ENDED" =>
    /\ \A r \in rows : req[r].amount <= auction.currentPrice
    /\ \/ /\ \E r \in Claims : /\ req[r].user = auction.winner
                               /\ req[r].amount = auction.currentPrice
       \/ Claims = {} /\ auction.winner = Null /\ auction.currentPrice = StartPrice

\* The fail-safe of placeBid: whatever reads fail, the owner never gets a row,
\* never leads and never wins the own auction.
OwnerNeverBids ==
  /\ \A r \in rows : req[r].user # Owner
  /\ keys.bidder # Owner
  /\ auction.winner # Owner

\* Whatever fails, a user who was told SUCCESS has a row, and a user who was
\* told that the bid was refused has none.  (SERVER_ERROR promises nothing.)
AnswersAreTrue ==
  \A r \in Requests :
    /\ req[r].reply = "SUCCESS" => r \in rows
    /\ r \in rows => req[r].reply \in {"SUCCESS", "SERVER_ERROR", Null}

\* Whatever attempts of the end job fail, the room is told one result, and it
\* is the one in the auction row.
AnnouncedIsRecorded ==
  \A x \in announced :
    /\ auction.status = "ENDED"
    /\ x = [winner |-> auction.winner, price |-> auction.currentPrice]

\* When nothing is in flight and the auction is still open, Redis holds the
\* highest bid of the table, or the start price and no bidder.
Quiescent == \A r \in Requests : req[r].pc \notin InFlight

RedisAgreesWithRows ==
  Quiescent /\ keys.active =>
    /\ PriceCoversRows
    /\ \/ rows = {} /\ keys.price = StartPrice /\ keys.bidder = Null
       \/ \E r \in rows : req[r].user = keys.bidder /\ req[r].amount = keys.price

\* Every bid that was submitted is answered (or its process has died).
EveryBidIsAnswered ==
  \A r \in Requests : req[r].pc = "owner" ~> req[r].pc \in {"done", "crashed"}

\* The auction gets its result, and it is announced.
AuctionSettles == <>(auction.status = "ENDED" /\ announced # {})

-----------------------------------------------------------------------------
(* BidPlacement implements OpenAuction when no insert fails and the end job  *)
(* sees the final keys.                                                     *)

Open == INSTANCE OpenAuction WITH
          open     <- keys.active,
          offers   <- accepted,
          recorded <- {[user |-> req[r].user, amount |-> req[r].amount] : r \in rows},
          result   <- IF auction.status = "ENDED"
                      THEN [winner |-> auction.winner, price |-> auction.currentPrice]
                      ELSE Null

ImplementsOpenAuction == Open!Spec

=============================================================================
