--------------------------- MODULE AuctionLifecycle ---------------------------
(***************************************************************************)
(* The life of one auction: the auction row and the bids table (MySQL),    *)
(* the live keys (Redis), the two BullMQ jobs, and everybody who moves     *)
(* them: createAuction, cancelAuction and updateAuction (AuctionsService), *)
(* the start and end processors, the reconciliation at boot, time, and a   *)
(* server process that may die.                                            *)
(*                                                                         *)
(* A handler is a record with a program counter, one action per await that *)
(* touches shared state.  A bid is one script and one insert here; its     *)
(* inner steps are the subject of BidPlacement.                            *)
(*                                                                         *)
(* Faults says what may go wrong in a run:                                 *)
(*   redis_fails   a write to the keys fails; RedisService swallows it     *)
(*   queue_fails   adding a job throws                                     *)
(*   db_fails      a transaction or update of a processor throws           *)
(*   slow_commit   createAuction commits after its start job has run       *)
(*   redis_lost    the crash takes Redis down too: keys and jobs are gone  *)
(***************************************************************************)
EXTENDS AuctionKeys, Sequences

CONSTANTS Bidders,      (* users who bid, each at most once                *)
          Owner,        (* auction.ownerId                                 *)
          StartPrice,   (* auction.startingPrice                           *)
          StartTime,    (* auction.startTime                               *)
          EndTime,      (* auction.endTime                                 *)
          LaterEndTime, (* the end time an update asks for                 *)
          Buffer,       (* the hour by which price and owner outlive active*)
          Second,       (* a second, in ticks of the clock                 *)
          MaxTime,      (* bound of the clock                              *)
          MaxAttempts,  (* attempts of a job (3 in the code)               *)
          MaxCrashes,   (* bound of the crashes                            *)
          Commands,     (* the API calls of the run, each made once        *)
          Faults

AllCommands == {"cancel", "extend", "rename"}

ASSUME LifecycleAssumption ==
  /\ Bidders \subseteq Users /\ Owner \in Users \ Bidders
  /\ StartPrice \in Nat \ {0}
  /\ StartTime \in Nat /\ EndTime \in Nat /\ LaterEndTime \in Nat
  /\ Buffer \in Nat /\ MaxTime \in Nat /\ MaxCrashes \in Nat
  /\ Second \in Nat \ {0}
  /\ MaxAttempts \in Nat \ {0}
  /\ Commands \subseteq AllCommands
  /\ Faults \subseteq {"redis_fails", "queue_fails", "db_fails", "slow_commit",
                        "redis_lost"}

VARIABLES clock,      (* coarse time, in fractions of a second             *)
          row,        (* the auction row                                   *)
          bids,       (* per bidder: the bid and whether its row is there  *)
          keys,       (* the Redis keys                                    *)
          expiry,     (* when active, and when price and owner, expire     *)
          startJob, endJob,       (* the BullMQ jobs                       *)
          creator, canceler, updater,  (* the API calls in progress        *)
          starter, ender,         (* the processors of the two queues      *)
          boot,       (* onApplicationBootstrap                            *)
          announced,  (* the results sent by notifyAuctionEnd, in order    *)
          crashes

database == <<row, bids>>
redis == <<keys, expiry>>
jobs == <<startJob, endJob>>
api == <<creator, canceler, updater>>
workers == <<starter, ender>>
vars == <<clock, database, redis, jobs, api, workers, boot, announced, crashes>>

Fault(f) == f \in Faults

-----------------------------------------------------------------------------
(* BullMQ *)

NoJob == [state |-> "none", due |-> 0, attempts |-> 0]

\* add() with a fixed jobId: ignored while a job of that id exists, finished
\* unsuccessfully or not (removeOnFail is false).  Past times run at once.
Enqueued(job, due) ==
  IF job.state # "none" THEN job
  ELSE [state |-> "delayed", due |-> IF due > clock THEN due ELSE clock, attempts |-> 0]

Due(job) == job.state = "delayed" /\ job.due <= clock

\* Mutated form: the attempts are not counted against their limit.
RetriedForever(job) ==
  [state |-> "delayed", due |-> clock, attempts |-> job.attempts + 1]

\* The processor threw: again after the backoff, or kept as failed.
Retried(job) ==
  IF job.attempts + 1 < MaxAttempts
  THEN [state |-> "delayed", due |-> clock, attempts |-> job.attempts + 1]
  ELSE [job EXCEPT !.state = "failed"]

\* The worker died while the job was active: BullMQ delivers it again.
Stalled(job) == IF job.state = "active" THEN [job EXCEPT !.state = "delayed", !.due = clock] ELSE job

-----------------------------------------------------------------------------

NoRow == [status |-> "NONE", price |-> 0, winner |-> Null, endTime |-> 0]
NoBid == [state |-> "none", amount |-> 0]
NoTtl == [active |-> 0, rest |-> 0]

IdleStarter  == [pc |-> "idle", endTime |-> 0, duration |-> 0]
IdleEnder    == [pc |-> "idle", price |-> Null, winner |-> Null, updated |-> FALSE]
IdleUpdater  == [pc |-> "idle", copy |-> NoRow, endTime |-> 0]
IdleBoot     == [pc |-> "idle", copy |-> NoRow, now |-> 0, bidder |-> Null]

Init ==
  /\ clock = 0
  /\ row = NoRow /\ bids = [b \in Bidders |-> NoBid]
  /\ keys = NoKeys /\ expiry = NoTtl
  /\ startJob = NoJob /\ endJob = NoJob
  /\ creator = "schedule" /\ canceler = "idle" /\ updater = IdleUpdater
  /\ starter = IdleStarter /\ ender = IdleEnder
  /\ boot = IdleBoot
  /\ announced = <<>>
  /\ crashes = 0

\* The bidders whose bid is in the bids table.
Rows == {b \in Bidders : bids[b].state = "saved"}

\* The cancelation has committed: its removals and deletions are to come or over.
Canceled == canceler \in {"removeStart", "removeEnd", "cleanup", "dropPrice", "done"}

\* The one server process listens for requests only after its bootstrap hook
\* has returned; the workers of the queues run before.
Serving == boot.pc = "idle"

\* Math.floor(ms / 1000): a TTL has no fractions of a second, a delay has.
WholeSeconds(time) == time - (time % Second)

Remaining(endTime) == WholeSeconds(endTime - clock)

\* Mutated form: price and owner live no longer than active.
TtlWithoutBuffer(duration) == [active |-> clock + duration, rest |-> clock + duration]

\* The TTLs that SET and EXPIRE give to the keys; the bidder key keeps its own.
Ttl(duration) == [active |-> clock + duration, rest |-> clock + duration + Buffer]

-----------------------------------------------------------------------------
(* createAuction: one transaction around the insert and the enqueue. *)

CreateSchedules ==
  /\ creator = "schedule"
  /\ startJob' = Enqueued(startJob, StartTime)
  /\ creator' = "commit"
  /\ UNCHANGED <<clock, database, redis, endJob, canceler, updater, workers, boot, announced, crashes>>

CreateFails ==
  /\ Fault("queue_fails")
  /\ creator = "schedule"
  /\ creator' = "done"
  /\ UNCHANGED <<clock, database, redis, jobs, canceler, updater, workers, boot, announced, crashes>>

\* Unless commits are slow, the two seconds of the least delay suffice.
CreateCommits ==
  /\ creator = "commit"
  /\ row' = [status |-> "PENDING", price |-> StartPrice, winner |-> Null, endTime |-> EndTime]
  /\ creator' = "done"
  /\ UNCHANGED <<clock, bids, redis, jobs, canceler, updater, workers, boot, announced, crashes>>

-----------------------------------------------------------------------------
(* AuctionStartProcessor.process *)

StartPicks ==
  /\ starter.pc = "idle"
  /\ Due(startJob)
  /\ creator = "commit" => Fault("slow_commit")
  /\ startJob' = [startJob EXCEPT !.state = "active"]
  /\ starter' = [IdleStarter EXCEPT !.pc = "read"]
  /\ UNCHANGED <<clock, database, redis, endJob, api, ender, boot, announced, crashes>>

StartDone ==
  /\ startJob' = NoJob
  /\ starter' = IdleStarter

StartSkips ==
  /\ starter.pc = "read"
  /\ row.status # "PENDING"
  /\ StartDone
  /\ UNCHANGED <<clock, database, redis, endJob, api, ender, boot, announced, crashes>>

\* The row is read without a lock; its end time is used from here on.
StartReads ==
  /\ starter.pc = "read"
  /\ row.status = "PENDING"
  /\ starter' = [pc |-> IF Remaining(row.endTime) <= 0 THEN "markEnded" ELSE "activate",
                 endTime |-> row.endTime, duration |-> Remaining(row.endTime)]
  /\ UNCHANGED <<clock, database, redis, jobs, api, ender, boot, announced, crashes>>

StartMarksEnded ==
  /\ starter.pc = "markEnded"
  /\ row' = [row EXCEPT !.status = "ENDED"]
  /\ StartDone
  /\ UNCHANGED <<clock, bids, redis, endJob, api, ender, boot, announced, crashes>>

\* The transaction on the locked row.
StartActivates ==
  /\ starter.pc = "activate"
  /\ row.status = "PENDING"
  /\ row' = [row EXCEPT !.status = "ACTIVE"]
  /\ starter' = [starter EXCEPT !.pc = "init"]
  /\ UNCHANGED <<clock, bids, redis, jobs, api, ender, boot, announced, crashes>>

StartLostRow ==
  /\ starter.pc = "activate"
  /\ row.status # "PENDING"
  /\ StartDone
  /\ UNCHANGED <<clock, database, redis, endJob, api, ender, boot, announced, crashes>>

\* initializeAuction: SET NX, with a TTL only where a key is set.
StartInitializes ==
  /\ starter.pc = "init"
  /\ \/ /\ keys' = Initialized(keys, StartPrice, Owner)
        /\ expiry' = [active |-> IF keys.active THEN expiry.active ELSE Ttl(starter.duration).active,
                      rest |-> IF keys.price = Null THEN Ttl(starter.duration).rest ELSE expiry.rest]
     \/ Fault("redis_fails") /\ UNCHANGED redis
  /\ starter' = [starter EXCEPT !.pc = "scheduleEnd"]
  /\ UNCHANGED <<clock, database, jobs, api, ender, boot, announced, crashes>>

\* Mutated form: the delay is the duration computed from the first read.
StartSchedulesEndAfterDuration ==
  /\ starter.pc = "scheduleEnd"
  /\ endJob' = Enqueued(endJob, clock + starter.duration)
  /\ StartDone
  /\ UNCHANGED <<clock, database, redis, api, ender, boot, announced, crashes>>

StartSchedulesEnd ==
  /\ starter.pc = "scheduleEnd"
  /\ endJob' = Enqueued(endJob, starter.endTime)
  /\ StartDone
  /\ UNCHANGED <<clock, database, redis, api, ender, boot, announced, crashes>>

StartCannotSchedule ==
  /\ starter.pc = "scheduleEnd"
  /\ Fault("queue_fails")
  /\ starter' = [starter EXCEPT !.pc = "rollback"]
  /\ UNCHANGED <<clock, database, redis, jobs, api, ender, boot, announced, crashes>>

\* The rollback to PENDING (it may fail as well), then the job is retried.
StartRollsBack ==
  /\ starter.pc = "rollback"
  /\ \/ row' = [row EXCEPT !.status = "PENDING"]
     \/ Fault("db_fails") /\ UNCHANGED row
  /\ startJob' = Retried(startJob)
  /\ starter' = IdleStarter
  /\ UNCHANGED <<clock, bids, redis, endJob, api, ender, boot, announced, crashes>>

StartThrows ==
  /\ Fault("db_fails")
  /\ starter.pc \in {"read", "markEnded", "activate"}
  /\ startJob' = Retried(startJob)
  /\ starter' = IdleStarter
  /\ UNCHANGED <<clock, database, redis, endJob, api, ender, boot, announced, crashes>>

-----------------------------------------------------------------------------
(* AuctionEndProcessor.process *)

EndPicks ==
  /\ ender.pc = "idle"
  /\ Due(endJob)
  /\ endJob' = [endJob EXCEPT !.state = "active"]
  /\ ender' = [IdleEnder EXCEPT !.pc = "price"]
  /\ UNCHANGED <<clock, database, redis, startJob, api, starter, boot, announced, crashes>>

EndDone ==
  /\ endJob' = NoJob
  /\ ender' = IdleEnder

\* Mutated form: an auction that has expired is taken for finished.
EndSkipsExpired ==
  /\ ender.pc = "price"
  /\ keys.price = Null \/ ~keys.active
  /\ EndDone
  /\ UNCHANGED <<clock, database, redis, startJob, api, starter, boot, announced, crashes>>

\* Without a price the auction is taken for finished.
EndSkips ==
  /\ ender.pc = "price"
  /\ keys.price = Null
  /\ EndDone
  /\ UNCHANGED <<clock, database, redis, startJob, api, starter, boot, announced, crashes>>

EndReadsPrice ==
  /\ ender.pc = "price"
  /\ keys.price # Null
  /\ ender' = [ender EXCEPT !.pc = "bidder", !.price = keys.price]
  /\ UNCHANGED <<clock, database, redis, jobs, api, starter, boot, announced, crashes>>

EndReadsBidder ==
  /\ ender.pc = "bidder"
  /\ ender' = [ender EXCEPT !.pc = "commit", !.winner = keys.bidder]
  /\ UNCHANGED <<clock, database, redis, jobs, api, starter, boot, announced, crashes>>

\* Mutated form: the flag for the notification is set in the wrong branch.
EndCommitsUnnoticed ==
  /\ ender.pc = "commit"
  /\ row' = IF row.status = "ENDED" THEN row
            ELSE [row EXCEPT !.status = "ENDED", !.price = ender.price, !.winner = ender.winner]
  /\ ender' = [ender EXCEPT !.pc = "cleanup", !.updated = row.status = "ENDED"]
  /\ UNCHANGED <<clock, bids, redis, jobs, api, starter, boot, announced, crashes>>

\* The transaction on the locked row.  Every status but ENDED is overwritten.
EndCommits ==
  /\ ender.pc = "commit"
  /\ row' = IF row.status = "ENDED" THEN row
            ELSE [row EXCEPT !.status = "ENDED", !.price = ender.price, !.winner = ender.winner]
  /\ ender' = [ender EXCEPT !.pc = "cleanup", !.updated = row.status # "ENDED"]
  /\ UNCHANGED <<clock, bids, redis, jobs, api, starter, boot, announced, crashes>>

\* cleanupAuction, and at least the attempt of it.
EndCleansUp ==
  /\ ender.pc = "cleanup"
  /\ \/ keys' = NoKeys
     \/ Fault("redis_fails") /\ UNCHANGED keys
  /\ ender' = [ender EXCEPT !.pc = "notify"]
  /\ UNCHANGED <<clock, database, expiry, jobs, api, starter, boot, announced, crashes>>

\* Mutated form: every attempt announces what it has read.
EndNotifiesOnEveryAttempt ==
  /\ ender.pc = "notify"
  /\ announced' = Append(announced, [price |-> ender.price, winner |-> ender.winner])
  /\ ender' = [ender EXCEPT !.pc = "finish"]
  /\ UNCHANGED <<clock, database, redis, jobs, api, starter, boot, crashes>>

EndNotifies ==
  /\ ender.pc = "notify"
  /\ announced' = IF ender.updated
                  THEN Append(announced, [price |-> ender.price, winner |-> ender.winner])
                  ELSE announced
  /\ ender' = [ender EXCEPT !.pc = "finish"]
  /\ UNCHANGED <<clock, database, redis, jobs, api, starter, boot, crashes>>

\* process() returns, and BullMQ removes the job.
EndFinishes ==
  /\ ender.pc = "finish"
  /\ EndDone
  /\ UNCHANGED <<clock, database, redis, startJob, api, starter, boot, announced, crashes>>

EndThrows ==
  /\ Fault("db_fails")
  /\ ender.pc = "commit"
  /\ endJob' = Retried(endJob)
  /\ ender' = IdleEnder
  /\ UNCHANGED <<clock, database, redis, startJob, api, starter, boot, announced, crashes>>

-----------------------------------------------------------------------------
(* cancelAuction *)

CancelPrechecks ==
  /\ "cancel" \in Commands
  /\ Serving
  /\ creator = "done" /\ canceler = "idle"
  /\ canceler' = IF row.status \in {"PENDING", "ACTIVE"} THEN "commit" ELSE "refused"
  /\ UNCHANGED <<clock, database, redis, jobs, creator, updater, workers, boot, announced, crashes>>

\* The transaction on the locked row: only saved bids are counted.
CancelCommits ==
  /\ canceler = "commit"
  /\ \/ row.status = "PENDING"
     \/ row.status = "ACTIVE" /\ Rows = {}
  /\ row' = [row EXCEPT !.status = "CANCELED"]
  /\ canceler' = IF row.status = "PENDING" THEN "removeStart" ELSE "removeEnd"
  /\ UNCHANGED <<clock, bids, redis, jobs, creator, updater, workers, boot, announced, crashes>>

CancelRefused ==
  /\ canceler = "commit"
  /\ \/ row.status \notin {"PENDING", "ACTIVE"}
     \/ row.status = "ACTIVE" /\ Rows # {}
  /\ canceler' = "refused"
  /\ UNCHANGED <<clock, database, redis, jobs, creator, updater, workers, boot, announced, crashes>>

\* job.remove() throws while a worker holds the job; the request then fails
\* with the row already saved.
CancelRemovesStart ==
  /\ canceler = "removeStart"
  /\ startJob' = IF startJob.state = "active" THEN startJob ELSE NoJob
  /\ canceler' = IF startJob.state = "active" THEN "done" ELSE "dropPrice"
  /\ UNCHANGED <<clock, database, redis, endJob, creator, updater, workers, boot, announced, crashes>>

CancelRemovesEnd ==
  /\ canceler = "removeEnd"
  /\ endJob' = IF endJob.state = "active" THEN endJob ELSE NoJob
  /\ canceler' = IF endJob.state = "active" THEN "done" ELSE "cleanup"
  /\ UNCHANGED <<clock, database, redis, startJob, creator, updater, workers, boot, announced, crashes>>

CancelCleansUp ==
  /\ canceler = "cleanup"
  /\ \/ keys' = NoKeys
     \/ Fault("redis_fails") /\ UNCHANGED keys
  /\ canceler' = "dropPrice"
  /\ UNCHANGED <<clock, database, expiry, jobs, creator, updater, workers, boot, announced, crashes>>

\* invalidatePriceCache deletes auction:<id>:price: no cache of its own, but the
\* price the script and the end job read.  A start processor that is still
\* setting the keys up may have put it there after the cleanup.
CancelDropsPrice ==
  /\ canceler = "dropPrice"
  /\ \/ keys' = [keys EXCEPT !.price = Null]
     \/ Fault("redis_fails") /\ UNCHANGED keys
  /\ canceler' = "done"
  /\ UNCHANGED <<clock, database, expiry, jobs, creator, updater, workers, boot, announced, crashes>>

-----------------------------------------------------------------------------
(* updateAuction: "extend" asks for LaterEndTime, "rename" for other columns. *)

\* The checks on a copy of the row, read without a lock.
UpdateReads(command) ==
  /\ command \in Commands \cap {"extend", "rename"}
  /\ Serving
  /\ creator = "done" /\ updater.pc = "idle"
  /\ updater' =
       IF \/ row.status \notin {"PENDING", "ACTIVE"}
          \/ command = "extend" /\ (LaterEndTime <= clock \/ LaterEndTime <= row.endTime)
       THEN [updater EXCEPT !.pc = "done"]
       ELSE [pc |-> IF command = "extend" /\ row.status = "ACTIVE" THEN "locked" ELSE "save",
             copy |-> row,
             endTime |-> IF command = "extend" THEN LaterEndTime ELSE row.endTime]
  /\ UNCHANGED <<clock, database, redis, jobs, creator, canceler, workers, boot, announced, crashes>>

\* The end time of an active auction changes under the lock, without bids only.
UpdateLocked ==
  /\ updater.pc = "locked"
  /\ row.status = "ACTIVE" /\ Rows = {}
  /\ row' = [row EXCEPT !.endTime = updater.endTime]
  /\ updater' = [updater EXCEPT !.pc = "removeEnd"]
  /\ UNCHANGED <<clock, bids, redis, jobs, creator, canceler, workers, boot, announced, crashes>>

UpdateRefused ==
  /\ updater.pc = "locked"
  /\ row.status # "ACTIVE" \/ Rows # {}
  /\ updater' = [updater EXCEPT !.pc = "done"]
  /\ UNCHANGED <<clock, database, redis, jobs, creator, canceler, workers, boot, announced, crashes>>

\* Otherwise save() writes back every column in which the copy differs from the
\* row of now.
UpdateSavesCopy ==
  /\ updater.pc = "save"
  /\ row' = [updater.copy EXCEPT !.endTime = updater.endTime]
  /\ updater' = [updater EXCEPT !.pc = "done"]
  /\ UNCHANGED <<clock, bids, redis, jobs, creator, canceler, workers, boot, announced, crashes>>

\* Mutated form: the job is removed and not scheduled again.
UpdateRemovesEndOnly ==
  /\ updater.pc = "removeEnd"
  /\ endJob' = IF endJob.state = "active" THEN endJob ELSE NoJob
  /\ updater' = [updater EXCEPT !.pc = IF endJob.state = "active" THEN "done" ELSE "ttl"]
  /\ UNCHANGED <<clock, database, redis, startJob, creator, canceler, workers, boot, announced, crashes>>

UpdateRemovesEnd ==
  /\ updater.pc = "removeEnd"
  /\ endJob' = IF endJob.state = "active" THEN endJob ELSE NoJob
  /\ updater' = [updater EXCEPT !.pc = IF endJob.state = "active" THEN "done" ELSE "scheduleEnd"]
  /\ UNCHANGED <<clock, database, redis, startJob, creator, canceler, workers, boot, announced, crashes>>

\* Where add() throws, the request fails with the job removed and the row saved.
UpdateSchedulesEnd ==
  /\ updater.pc = "scheduleEnd"
  /\ \/ /\ endJob' = Enqueued(endJob, updater.endTime)
        /\ updater' = [updater EXCEPT !.pc = "ttl"]
     \/ /\ Fault("queue_fails")
        /\ updater' = [updater EXCEPT !.pc = "failed"]
        /\ UNCHANGED endJob
  /\ UNCHANGED <<clock, database, redis, startJob, creator, canceler, workers, boot, announced, crashes>>

\* extendAuctionTime: EXPIRE works on keys that are still there.
UpdateExtends ==
  /\ updater.pc = "ttl"
  /\ LET ttl == Ttl(Remaining(updater.endTime))
     IN  \/ /\ Remaining(updater.endTime) > 0
            /\ expiry' = [active |-> IF keys.active THEN ttl.active ELSE expiry.active,
                          rest |-> IF keys.price # Null THEN ttl.rest ELSE expiry.rest]
         \/ /\ Remaining(updater.endTime) <= 0 \/ Fault("redis_fails")
            /\ UNCHANGED expiry
  /\ updater' = [updater EXCEPT !.pc = "done"]
  /\ UNCHANGED <<clock, database, keys, jobs, creator, canceler, workers, boot, announced, crashes>>

-----------------------------------------------------------------------------
(* onApplicationBootstrap, for this auction *)

BootFinds ==
  /\ boot.pc = "find"
  /\ boot' = IF row.status = "ACTIVE"
             THEN [boot EXCEPT !.pc = "check", !.copy = row, !.now = clock]
             ELSE IdleBoot
  /\ UNCHANGED <<clock, database, redis, jobs, api, workers, announced, crashes>>

\* areAuctionsActive: an auction whose active key is there is left alone.
BootChecks ==
  /\ boot.pc = "check"
  /\ boot' = IF keys.active THEN IdleBoot ELSE [boot EXCEPT !.pc = "bids"]
  /\ UNCHANGED <<clock, database, redis, jobs, api, workers, announced, crashes>>

\* Mutated form: the bidder of any row.
BootReadsAnyBid ==
  /\ boot.pc = "bids"
  /\ \E bidder \in UserOrNull :
       /\ IF Rows = {} THEN bidder = Null ELSE bidder \in Rows
       /\ boot' = [boot EXCEPT !.bidder = bidder,
                     !.pc = IF WholeSeconds(boot.copy.endTime - boot.now) <= 0
                            THEN "markEnded" ELSE "restore"]
  /\ UNCHANGED <<clock, database, redis, jobs, api, workers, announced, crashes>>

\* findByOrphanedIds: the bidder of the highest row.
BootReadsBids ==
  /\ boot.pc = "bids"
  /\ \E bidder \in UserOrNull :
       /\ IF Rows = {} THEN bidder = Null
          ELSE bidder \in Rows /\ \A b \in Rows : bids[b].amount <= bids[bidder].amount
       /\ boot' = [boot EXCEPT !.bidder = bidder,
                     !.pc = IF WholeSeconds(boot.copy.endTime - boot.now) <= 0
                            THEN "markEnded" ELSE "restore"]
  /\ UNCHANGED <<clock, database, redis, jobs, api, workers, announced, crashes>>

BootMarksEnded ==
  /\ boot.pc = "markEnded"
  /\ row' = [row EXCEPT !.status = "ENDED"]
  /\ boot' = IdleBoot
  /\ UNCHANGED <<clock, bids, redis, jobs, api, workers, announced, crashes>>

\* restoreAuction with the price and the end time of the copy.
BootRestores ==
  /\ boot.pc = "restore"
  /\ \/ /\ keys' = Restored(keys, boot.copy.price, Owner, boot.bidder)
        /\ expiry' = Ttl(WholeSeconds(boot.copy.endTime - boot.now))
     \/ Fault("redis_fails") /\ UNCHANGED redis
  /\ boot' = [boot EXCEPT !.pc = "scheduleEnd"]
  /\ UNCHANGED <<clock, database, jobs, api, workers, announced, crashes>>

BootSchedulesEnd ==
  /\ boot.pc = "scheduleEnd"
  /\ \/ endJob' = Enqueued(endJob, boot.copy.endTime)
     \/ Fault("queue_fails") /\ UNCHANGED endJob
  /\ boot' = IdleBoot
  /\ UNCHANGED <<clock, database, redis, startJob, api, workers, announced, crashes>>

-----------------------------------------------------------------------------
(* Bids, time and crashes *)

\* placeBid with the least amount that is accepted (see BidPlacement).
PlaceBid(b) ==
  /\ Serving
  /\ bids[b].state = "none"
  /\ keys.owner # Null
  /\ LET amount == OrZero(keys.price) + CalcMinIncrement(OrZero(keys.price))
     IN  /\ BidVerdict(keys, b, amount, CalcMinIncrement(OrZero(keys.price))) = "ACCEPTED"
         /\ keys' = AfterBid(keys, b, amount)
         /\ bids' = [bids EXCEPT ![b] = [state |-> "saving", amount |-> amount]]
  /\ UNCHANGED <<clock, row, expiry, jobs, api, workers, boot, announced, crashes>>

SaveBid(b) ==
  /\ bids[b].state = "saving"
  /\ bids' = [bids EXCEPT ![b].state = "saved"]
  /\ UNCHANGED <<clock, row, redis, jobs, api, workers, boot, announced, crashes>>

\* Time passes and Redis drops the keys whose TTL has run out.
Tick ==
  /\ clock < MaxTime
  /\ clock' = clock + 1
  /\ keys' = [keys EXCEPT !.active = @ /\ expiry.active > clock + 1,
                          !.price  = IF expiry.rest > clock + 1 THEN @ ELSE Null,
                          !.owner  = IF expiry.rest > clock + 1 THEN @ ELSE Null]
  /\ UNCHANGED <<database, expiry, jobs, api, workers, boot, announced, crashes>>

\* The server dies and boots: handlers are gone, an open transaction is rolled
\* back, active jobs are delivered again, and the reconciliation starts.
Crash ==
  /\ crashes < MaxCrashes
  /\ crashes' = crashes + 1
  /\ bids' = [b \in Bidders |-> IF bids[b].state = "saving" THEN [bids[b] EXCEPT !.state = "lost"]
                                ELSE bids[b]]
  /\ creator' = "done"
  /\ canceler' = IF Canceled THEN "done" ELSE IF canceler = "idle" THEN "idle" ELSE "refused"
  /\ updater' = IF updater.pc = "idle" THEN updater ELSE [IdleUpdater EXCEPT !.pc = "done"]
  /\ starter' = IdleStarter /\ ender' = IdleEnder
  /\ boot' = [IdleBoot EXCEPT !.pc = "find"]
  /\ \/ /\ startJob' = Stalled(startJob) /\ endJob' = Stalled(endJob)
        /\ UNCHANGED keys
     \/ /\ Fault("redis_lost")
        /\ startJob' = NoJob /\ endJob' = NoJob
        /\ keys' = NoKeys
  /\ UNCHANGED <<clock, row, expiry, announced>>

-----------------------------------------------------------------------------

Create == CreateSchedules \/ CreateFails \/ CreateCommits

Start ==
  \/ StartPicks \/ StartSkips \/ StartReads \/ StartMarksEnded \/ StartActivates \/ StartLostRow
  \/ StartInitializes \/ StartSchedulesEnd \/ StartCannotSchedule \/ StartRollsBack \/ StartThrows

End ==
  \/ EndPicks \/ EndSkips \/ EndReadsPrice \/ EndReadsBidder \/ EndCommits \/ EndCleansUp
  \/ EndNotifies \/ EndFinishes \/ EndThrows

Cancel ==
  \/ CancelPrechecks \/ CancelCommits \/ CancelRefused \/ CancelRemovesStart \/ CancelRemovesEnd
  \/ CancelCleansUp \/ CancelDropsPrice

Update ==
  \/ \E command \in AllCommands : UpdateReads(command)
  \/ UpdateLocked \/ UpdateRefused \/ UpdateSavesCopy \/ UpdateRemovesEnd \/ UpdateSchedulesEnd
  \/ UpdateExtends

Boot ==
  \/ BootFinds \/ BootChecks \/ BootReadsBids \/ BootMarksEnded \/ BootRestores \/ BootSchedulesEnd

Next ==
  \/ Create \/ Start \/ End \/ Cancel \/ Update \/ Boot
  \/ \E b \in Bidders : PlaceBid(b) \/ SaveBid(b)
  \/ Tick
  \/ Crash

Spec == Init /\ [][Next]_vars

\* Clocks advance, workers take due jobs and run them, a request that has been
\* made runs to its end, and a booting server reconciles.
Fairness ==
  /\ WF_vars(Tick) /\ WF_vars(Create) /\ WF_vars(Start) /\ WF_vars(End) /\ WF_vars(Boot)
  /\ WF_vars(canceler # "idle" /\ Cancel)
  /\ WF_vars(updater.pc # "idle" /\ Update)

FairSpec == Spec /\ Fairness

-----------------------------------------------------------------------------
(* Properties *)

JobType == [state : {"none", "delayed", "active", "failed"}, due : Nat, attempts : 0..MaxAttempts]

RowType == [status : {"NONE", "PENDING", "ACTIVE", "ENDED", "CANCELED"}, price : Price,
            winner : UserOrNull, endTime : Nat]

TypeOK ==
  /\ clock \in 0..MaxTime /\ crashes \in 0..MaxCrashes
  /\ row \in RowType
  /\ bids \in [Bidders -> [state : {"none", "saving", "saved", "lost"}, amount : Nat]]
  /\ keys \in Keys /\ expiry \in [active : Nat, rest : Nat]
  /\ startJob \in JobType /\ endJob \in JobType
  /\ creator \in {"schedule", "commit", "done"}
  /\ canceler \in {"idle", "commit", "removeStart", "removeEnd", "cleanup", "dropPrice", "refused",
                   "done"}
  /\ updater \in [pc : {"idle", "locked", "save", "removeEnd", "scheduleEnd", "ttl", "done",
                        "failed"},
                  copy : RowType, endTime : Nat]
  /\ starter \in [pc : {"idle", "read", "markEnded", "activate", "init", "scheduleEnd", "rollback"},
                  endTime : Nat, duration : Int]
  /\ ender \in [pc : {"idle", "price", "bidder", "commit", "cleanup", "notify", "finish"},
                price : Price, winner : UserOrNull, updated : BOOLEAN]
  /\ boot \in [pc : {"idle", "find", "check", "bids", "markEnded", "restore", "scheduleEnd"},
               copy : RowType, now : Nat, bidder : UserOrNull]
  /\ announced \in Seq([price : Price, winner : UserOrNull])

\* Until a cancelation has committed, an ACTIVE auction has an end job that will
\* still run, or somebody is on the way to schedule one: it cannot be forgotten.
\* The exception is an extension that has failed between removing the job and
\* adding it again.  (A cancelation may also overtake a start processor whose
\* rollback undoes it, and remove the end job of the next activation.)
EndIsUnderway ==
  \/ endJob.state \in {"delayed", "active"}
  \/ starter.pc \in {"init", "scheduleEnd", "rollback"}
  \/ updater.pc \in {"scheduleEnd", "failed"}
  \/ boot.pc \in {"find", "check", "bids", "markEnded", "restore", "scheduleEnd"}

ActiveIsScheduled == row.status = "ACTIVE" /\ ~Canceled => EndIsUnderway

\* Until a cancelation has committed, an ACTIVE auction has its price and owner
\* in Redis until the buffer after its end time is over, but for the fraction of
\* a second that a TTL loses, unless somebody is still setting the keys up.
ActiveHasKeys ==
  row.status = "ACTIVE" /\ ~Canceled /\ clock + Second <= row.endTime + Buffer
  /\ starter.pc = "idle" /\ boot.pc = "idle" /\ updater.pc \in {"idle", "done", "failed"} =>
    keys.price # Null /\ keys.owner # Null

\* Whatever is retried or crashes, at most one result is announced, and the
\* row keeps saying what was announced.
AnnouncedIsRecorded ==
  /\ Len(announced) <= 1
  /\ \A i \in 1..Len(announced) :
       /\ row.status = "ENDED"
       /\ announced[i] = [price |-> row.price, winner |-> row.winner]

\* Until a cancelation has committed, no retry of a job, no crash and no request
\* makes the live price of an active auction fall, or takes the lead from a
\* bidder without a higher bid.  After it, its deletion of the price key may meet
\* an auction that a start processor has just opened.  The restore of the
\* reconciliation is excepted too: it writes the row's price, and a start job
\* retried meanwhile may have opened the auction before it.
LivePriceNeverFalls ==
  [][keys.active /\ keys'.active /\ ~Canceled /\ boot.pc # "restore" =>
       /\ keys'.price >= keys.price
       /\ keys'.bidder # keys.bidder => keys'.price > keys.price]_vars

\* A canceled auction has no bid.
CanceledHasNoBid == row.status = "CANCELED" => Rows = {}

\* No call is in progress and no processor runs.
NobodyAtWork ==
  /\ creator = "done" /\ canceler \in {"idle", "refused", "done"}
  /\ updater.pc \in {"idle", "done", "failed"}
  /\ starter.pc = "idle" /\ ender.pc = "idle" /\ boot.pc = "idle"

\* Where bids are saved, the reconciliation gives the lead to the bidder of the
\* highest of them, whatever was left in the bidder key.
BootRestoresLeader ==
  [][boot.pc = "restore" /\ boot'.pc = "scheduleEnd" /\ keys' # keys /\ Rows # {} =>
       keys'.bidder \in Rows /\ \A b \in Rows : bids[b].amount <= bids[keys'.bidder].amount]_vars

\* When an auction with bids has ended and the end job is gone, the room has
\* been told.
EndedIsAnnounced ==
  row.status = "ENDED" /\ NobodyAtWork /\ endJob.state = "none" => announced # <<>> \/ Rows = {}

\* When nobody is at work, the end job of an active auction is due at the end
\* time of its row, to the tick, and the live keys close the auction to bids less
\* than a second before it: their TTL is in whole seconds, the delay is not.
EndFollowsRow ==
  row.status = "ACTIVE" /\ NobodyAtWork /\ endJob.state = "delayed" /\ clock < row.endTime =>
    /\ endJob.due = row.endTime
    /\ clock + Second <= row.endTime => keys.active
    /\ keys.active => expiry.active + Second > row.endTime

\* An auction that has been created ends or is canceled.
EveryAuctionFinishes == row.status = "PENDING" ~> row.status \in {"ENDED", "CANCELED"}

=============================================================================
