---------------------------- MODULE LifecycleProofs ----------------------------
(***************************************************************************)
(* Proofs about AuctionLifecycle, for any bidders, times, numbers of       *)
(* attempts and crashes.                                                   *)
(***************************************************************************)
EXTENDS AuctionLifecycle, TLAPS

ExpiryType == [active : Nat, rest : Nat]

UpdaterType == [pc : {"idle", "locked", "save", "removeEnd", "scheduleEnd", "ttl", "done", "failed"},
                copy : RowType, endTime : Nat]

StarterType == [pc : {"idle", "read", "markEnded", "activate", "init", "scheduleEnd", "rollback"},
                endTime : Nat, duration : Int]

EnderType == [pc : {"idle", "price", "bidder", "commit", "cleanup", "notify", "finish"},
              price : Price, winner : UserOrNull, updated : BOOLEAN]

BootType == [pc : {"idle", "find", "check", "bids", "markEnded", "restore", "scheduleEnd"},
             copy : RowType, now : Nat, bidder : UserOrNull]

\* Keys are only given a TTL that is positive.
DurationsInv ==
  /\ starter.pc \in {"activate", "init", "scheduleEnd", "rollback"} => starter.duration > 0
  /\ boot.pc = "restore" => WholeSeconds(boot.copy.endTime - boot.now) > 0

TypeInv == TypeOK /\ DurationsInv

-----------------------------------------------------------------------------
(* What the operators of the queues, the keys and the TTLs yield. *)

LEMMA NoJobType == NoJob \in JobType
  BY LifecycleAssumption DEF NoJob, JobType

LEMMA WholeSecondsBounds ==
  ASSUME NEW time \in Int
  PROVE  /\ WholeSeconds(time) \in Int
         /\ WholeSeconds(time) <= time
         /\ time < WholeSeconds(time) + Second
  BY LifecycleAssumption DEF WholeSeconds

LEMMA RemainingBounds ==
  ASSUME NEW endTime \in Nat, clock \in Nat
  PROVE  /\ Remaining(endTime) \in Int
         /\ clock + Remaining(endTime) <= endTime
         /\ endTime < clock + Remaining(endTime) + Second
<1>1. endTime - clock \in Int
  OBVIOUS
<1>2. /\ Remaining(endTime) \in Int /\ Remaining(endTime) <= endTime - clock
      /\ endTime - clock < Remaining(endTime) + Second
  BY <1>1, WholeSecondsBounds DEF Remaining
<1> QED
  BY <1>2, LifecycleAssumption

LEMMA EnqueuedType ==
  ASSUME NEW job \in JobType, NEW due \in Nat, clock \in Nat
  PROVE  Enqueued(job, due) \in JobType
  BY LifecycleAssumption DEF Enqueued, JobType

LEMMA RetriedType ==
  ASSUME NEW job \in JobType, clock \in Nat
  PROVE  Retried(job) \in JobType
<1>1. job.attempts \in Nat
  BY LifecycleAssumption DEF JobType
<1>2. CASE job.attempts + 1 < MaxAttempts
  BY <1>1, <1>2, LifecycleAssumption DEF Retried, JobType
<1>3. CASE ~(job.attempts + 1 < MaxAttempts)
  BY <1>3 DEF Retried, JobType
<1> QED
  BY <1>2, <1>3

LEMMA StalledType ==
  ASSUME NEW job \in JobType, clock \in Nat
  PROVE  Stalled(job) \in JobType
  BY DEF Stalled, JobType

LEMMA ActiveJobType ==
  ASSUME NEW job \in JobType
  PROVE  [job EXCEPT !.state = "active"] \in JobType
  BY DEF JobType

LEMMA TtlType ==
  ASSUME NEW duration \in Nat, clock \in Nat
  PROVE  Ttl(duration) \in ExpiryType
  BY LifecycleAssumption DEF Ttl, ExpiryType

LEMMA KeyTypes ==
  /\ NoKeys \in Keys
  /\ \A k \in Keys : Initialized(k, StartPrice, Owner) \in Keys
  /\ \A k \in Keys, price \in Price, bidder \in UserOrNull : Restored(k, price, Owner, bidder) \in Keys
  /\ \A k \in Keys, user \in Users, amount \in Nat : AfterBid(k, user, amount) \in Keys
<1>1. StartPrice \in Price /\ Owner \in UserOrNull /\ Null \in UserOrNull /\ Null \in Price
  BY LifecycleAssumption DEF Price, UserOrNull
<1>2. NoKeys \in Keys
  BY <1>1 DEF NoKeys, Keys
<1>3. ASSUME NEW k \in Keys PROVE Initialized(k, StartPrice, Owner) \in Keys
  BY <1>1 DEF Initialized, Keys
<1>4. ASSUME NEW k \in Keys, NEW price \in Price, NEW bidder \in UserOrNull
      PROVE  Restored(k, price, Owner, bidder) \in Keys
  BY <1>1 DEF Restored, Keys
<1>5. ASSUME NEW k \in Keys, NEW user \in Users, NEW amount \in Nat
      PROVE  AfterBid(k, user, amount) \in Keys
  BY DEF AfterBid, Keys, Price, UserOrNull
<1> QED
  BY <1>2, <1>3, <1>4, <1>5

LEMMA IdleTypes ==
  /\ IdleStarter \in StarterType /\ IdleStarter.pc = "idle"
  /\ IdleEnder \in EnderType /\ IdleEnder.pc = "idle"
  /\ IdleUpdater \in UpdaterType /\ IdleUpdater.pc = "idle"
  /\ IdleBoot \in BootType /\ IdleBoot.pc = "idle"
  /\ NoRow \in RowType
<1>1. NoRow \in RowType
  BY DEF NoRow, RowType, Price, UserOrNull
<1> QED
  BY <1>1 DEF IdleStarter, StarterType, IdleEnder, EnderType, IdleUpdater, UpdaterType,
              IdleBoot, BootType, Price, UserOrNull

\* The increment is a number, so the least bid is one.
LEMMA LeastBidType ==
  ASSUME NEW price \in Price
  PROVE  OrZero(price) + CalcMinIncrement(OrZero(price)) \in Nat
<1>1. OrZero(price) \in Nat
  BY DEF OrZero, Price
<1>2. OrZero(price) * Percent \in Nat
  BY <1>1, KeysAssumption
<1> DEFINE computed == (OrZero(price) * Percent + 99) \div 100
<1>3. computed \in Nat
  BY <1>2
<1>4. CalcMinIncrement(OrZero(price)) \in Nat
  BY <1>3, KeysAssumption DEF CalcMinIncrement
<1> QED
  BY <1>1, <1>4

\* TypeOK in the names of this module.
LEMMA TypesAre ==
  TypeOK <=>
    /\ clock \in 0..MaxTime /\ crashes \in 0..MaxCrashes
    /\ row \in RowType
    /\ bids \in [Bidders -> [state : {"none", "saving", "saved", "lost"}, amount : Nat]]
    /\ keys \in Keys /\ expiry \in ExpiryType
    /\ startJob \in JobType /\ endJob \in JobType
    /\ creator \in {"schedule", "commit", "done"}
    /\ canceler \in {"idle", "commit", "removeStart", "removeEnd", "cleanup", "dropPrice", "refused",
                     "done"}
    /\ updater \in UpdaterType
    /\ starter \in StarterType
    /\ ender \in EnderType
    /\ boot \in BootType
    /\ announced \in Seq([price : Price, winner : UserOrNull])
  BY DEF TypeOK, ExpiryType, UpdaterType, StarterType, EnderType, BootType

LEMMA InitIsTyped == Init => TypeInv
<1> SUFFICES ASSUME Init PROVE TypeInv
  OBVIOUS
<1>1. clock \in 0..MaxTime /\ crashes \in 0..MaxCrashes
  BY LifecycleAssumption DEF Init
<1>2. bids \in [Bidders -> [state : {"none", "saving", "saved", "lost"}, amount : Nat]]
  BY DEF Init, NoBid
<1>3. expiry \in ExpiryType
  BY DEF Init, NoTtl, ExpiryType
<1>4. announced \in Seq([price : Price, winner : UserOrNull])
  BY DEF Init
<1>5. TypeOK
  BY <1>1, <1>2, <1>3, <1>4, KeyTypes, NoJobType, IdleTypes, TypesAre DEF Init
<1>6. DurationsInv
  BY IdleTypes DEF Init, DurationsInv
<1> QED
  BY <1>5, <1>6 DEF TypeInv

-----------------------------------------------------------------------------
(* Each group of steps keeps the types. *)

\* What a step may use: the types, and that the clock counts.
LEMMA Known ==
  ASSUME TypeInv
  PROVE  /\ clock \in Nat
         /\ row \in RowType /\ row.endTime \in Nat /\ row.price \in Price
         /\ keys \in Keys /\ expiry \in ExpiryType
         /\ startJob \in JobType /\ endJob \in JobType
         /\ updater \in UpdaterType /\ starter \in StarterType
         /\ ender \in EnderType /\ boot \in BootType
  BY LifecycleAssumption, TypesAre DEF TypeInv, RowType

LEMMA CreateTypes ==
  ASSUME TypeInv, Create
  PROVE  TypeInv'
<1>1. CASE CreateSchedules
  <2>1. startJob' \in JobType
    BY <1>1, Known, EnqueuedType, LifecycleAssumption DEF CreateSchedules
  <2> QED
    BY <1>1, <2>1 DEF CreateSchedules, TypeInv, TypeOK, DurationsInv, database, redis, workers
<1>2. CASE CreateFails
  BY <1>2 DEF CreateFails, TypeInv, TypeOK, DurationsInv, database, redis, jobs, workers
<1>3. CASE CreateCommits
  <2>1. row' \in RowType
    BY <1>3, LifecycleAssumption DEF CreateCommits, RowType, Price, UserOrNull
  <2> QED
    BY <1>3, <2>1 DEF CreateCommits, TypeInv, TypeOK, DurationsInv, redis, jobs, workers
<1> QED
  BY <1>1, <1>2, <1>3 DEF Create

\* The steps of the start processor change at most these.
LEMMA StartFrame ==
  ASSUME TypeInv, Start, row' \in RowType, keys' \in Keys, expiry' \in ExpiryType,
         startJob' \in JobType, endJob' \in JobType, starter' \in StarterType,
         starter'.pc \in {"activate", "init", "scheduleEnd", "rollback"} => starter'.duration > 0
  PROVE  TypeInv'
<1>1. UNCHANGED <<clock, bids, api, ender, boot, announced, crashes>>
  BY DEF Start, StartPicks, StartSkips, StartReads, StartMarksEnded, StartActivates, StartLostRow,
         StartInitializes, StartSchedulesEnd, StartCannotSchedule, StartRollsBack, StartThrows, database
<1>2. TypeOK'
  BY <1>1, TypesAre DEF TypeInv, TypeOK, api, ExpiryType, StarterType
<1>3. DurationsInv'
  BY <1>1 DEF TypeInv, DurationsInv
<1> QED
  BY <1>2, <1>3 DEF TypeInv

LEMMA StartTypes ==
  ASSUME TypeInv, Start
  PROVE  TypeInv'
<1> DEFINE Late == {"activate", "init", "scheduleEnd", "rollback"}
<1>0. /\ row \in RowType /\ row.endTime \in Nat /\ keys \in Keys /\ expiry \in ExpiryType
      /\ startJob \in JobType /\ endJob \in JobType /\ starter \in StarterType /\ clock \in Nat
      /\ starter.pc \in Late => starter.duration > 0
  BY Known DEF TypeInv, DurationsInv
<1>1. CASE StartPicks
  <2>1. startJob' \in JobType
    BY <1>0, <1>1, ActiveJobType DEF StartPicks
  <2>2. starter' \in StarterType /\ starter'.pc = "read"
    BY <1>1 DEF StartPicks, IdleStarter, StarterType
  <2> QED
    BY <1>0, <1>1, <2>1, <2>2, StartFrame DEF StartPicks, database, redis
<1>2. CASE StartSkips \/ StartLostRow
  BY <1>0, <1>2, NoJobType, IdleTypes, StartFrame DEF StartSkips, StartLostRow, StartDone, database, redis
<1>3. CASE StartReads
  <2>1. Remaining(row.endTime) \in Int
    BY <1>0, RemainingBounds
  <2>2. starter' \in StarterType /\ (starter'.pc \in Late => starter'.duration > 0)
    BY <1>0, <1>3, <2>1 DEF StartReads, StarterType
  <2> QED
    BY <1>0, <1>3, <2>2, StartFrame DEF StartReads, database, redis, jobs
<1>4. CASE StartMarksEnded
  <2>1. row' \in RowType
    BY <1>0, <1>4 DEF StartMarksEnded, RowType
  <2> QED
    BY <1>0, <1>4, <2>1, NoJobType, IdleTypes, StartFrame DEF StartMarksEnded, StartDone, redis
<1>5. CASE StartActivates
  <2>1. row' \in RowType
    BY <1>0, <1>5 DEF StartActivates, RowType
  <2>2. starter' \in StarterType /\ starter'.duration > 0
    BY <1>0, <1>5 DEF StartActivates, StarterType
  <2> QED
    BY <1>0, <1>5, <2>1, <2>2, StartFrame DEF StartActivates, redis, jobs
<1>6. CASE StartInitializes
  <2>1. starter' \in StarterType /\ starter'.duration > 0
    BY <1>0, <1>6 DEF StartInitializes, StarterType
  <2>2. starter.duration \in Nat
    BY <1>0, <1>6 DEF StartInitializes, StarterType
  <2>3. Ttl(starter.duration) \in ExpiryType
    BY <1>0, <2>2, TtlType
  <2>4. keys' \in Keys /\ expiry' \in ExpiryType
    BY <1>0, <1>6, <2>3, KeyTypes DEF StartInitializes, ExpiryType, redis
  <2> QED
    BY <1>0, <1>6, <2>1, <2>4, StartFrame DEF StartInitializes, database, jobs
<1>7. CASE StartSchedulesEnd
  <2>1. starter.endTime \in Nat
    BY <1>0 DEF StarterType
  <2>2. endJob' \in JobType
    BY <1>0, <1>7, <2>1, EnqueuedType DEF StartSchedulesEnd
  <2> QED
    BY <1>0, <1>7, <2>2, NoJobType, IdleTypes, StartFrame DEF StartSchedulesEnd, StartDone, database, redis
<1>8. CASE StartCannotSchedule
  <2>1. starter' \in StarterType /\ starter'.duration > 0
    BY <1>0, <1>8 DEF StartCannotSchedule, StarterType
  <2> QED
    BY <1>0, <1>8, <2>1, StartFrame DEF StartCannotSchedule, database, redis, jobs
<1>9. CASE StartRollsBack
  <2>1. row' \in RowType
    BY <1>0, <1>9 DEF StartRollsBack, RowType
  <2> QED
    BY <1>0, <1>9, <2>1, RetriedType, IdleTypes, StartFrame DEF StartRollsBack, redis
<1>10. CASE StartThrows
  BY <1>0, <1>10, RetriedType, IdleTypes, StartFrame DEF StartThrows, database, redis
<1> QED
  BY <1>1, <1>2, <1>3, <1>4, <1>5, <1>6, <1>7, <1>8, <1>9, <1>10 DEF Start

LEMMA EndFrame ==
  ASSUME TypeInv, End, row' \in RowType, keys' \in Keys, endJob' \in JobType, ender' \in EnderType,
         announced' \in Seq([price : Price, winner : UserOrNull])
  PROVE  TypeInv'
<1>1. UNCHANGED <<clock, bids, expiry, startJob, api, starter, boot, crashes>>
  BY DEF End, EndPicks, EndSkips, EndReadsPrice, EndReadsBidder, EndCommits, EndCleansUp, EndNotifies,
         EndFinishes, EndThrows, database, redis, jobs
<1>2. TypeOK'
  BY <1>1, TypesAre DEF TypeInv, TypeOK, api, EnderType
<1>3. DurationsInv'
  BY <1>1 DEF TypeInv, DurationsInv
<1> QED
  BY <1>2, <1>3 DEF TypeInv

LEMMA EndTypes ==
  ASSUME TypeInv, End
  PROVE  TypeInv'
<1>0. /\ row \in RowType /\ keys \in Keys /\ endJob \in JobType /\ ender \in EnderType /\ clock \in Nat
      /\ announced \in Seq([price : Price, winner : UserOrNull])
  BY Known DEF TypeInv, TypeOK
<1>1. CASE EndPicks
  <2>1. endJob' \in JobType
    BY <1>0, <1>1, ActiveJobType DEF EndPicks
  <2>2. ender' \in EnderType
    BY <1>1, IdleTypes DEF EndPicks, EnderType
  <2> QED
    BY <1>0, <1>1, <2>1, <2>2, EndFrame DEF EndPicks, database, redis
<1>2. CASE EndSkips \/ EndFinishes
  BY <1>0, <1>2, NoJobType, IdleTypes, EndFrame DEF EndSkips, EndFinishes, EndDone, database, redis
<1>3. CASE EndReadsPrice
  <2>1. ender' \in EnderType
    BY <1>0, <1>3 DEF EndReadsPrice, EnderType, Keys
  <2> QED
    BY <1>0, <1>3, <2>1, EndFrame DEF EndReadsPrice, database, redis, jobs
<1>4. CASE EndReadsBidder
  <2>1. ender' \in EnderType
    BY <1>0, <1>4 DEF EndReadsBidder, EnderType, Keys
  <2> QED
    BY <1>0, <1>4, <2>1, EndFrame DEF EndReadsBidder, database, redis, jobs
<1>5. CASE EndCommits
  <2>1. row' \in RowType
    BY <1>0, <1>5 DEF EndCommits, RowType, EnderType
  <2>2. ender' \in EnderType
    BY <1>0, <1>5 DEF EndCommits, EnderType
  <2> QED
    BY <1>0, <1>5, <2>1, <2>2, EndFrame DEF EndCommits, redis, jobs
<1>6. CASE EndCleansUp
  <2>1. ender' \in EnderType
    BY <1>0, <1>6 DEF EndCleansUp, EnderType
  <2> QED
    BY <1>0, <1>6, <2>1, KeyTypes, EndFrame DEF EndCleansUp, database, jobs
<1>7. CASE EndNotifies
  <2>1. ender' \in EnderType /\ [price |-> ender.price, winner |-> ender.winner] \in [price : Price, winner : UserOrNull]
    BY <1>0, <1>7 DEF EndNotifies, EnderType
  <2>2. announced' \in Seq([price : Price, winner : UserOrNull])
    <3>1. CASE ender.updated
      <4>1. announced' = Append(announced, [price |-> ender.price, winner |-> ender.winner])
        BY <1>7, <3>1 DEF EndNotifies
      <4> QED
        BY <1>0, <2>1, <4>1
    <3>2. CASE ~ender.updated
      BY <1>0, <1>7, <3>2 DEF EndNotifies
    <3> QED
      BY <3>1, <3>2
  <2> QED
    BY <1>0, <1>7, <2>1, <2>2, EndFrame DEF EndNotifies, database, redis, jobs
<1>8. CASE EndThrows
  BY <1>0, <1>8, RetriedType, IdleTypes, EndFrame DEF EndThrows, database, redis
<1> QED
  BY <1>1, <1>2, <1>3, <1>4, <1>5, <1>6, <1>7, <1>8 DEF End

LEMMA CancelTypes ==
  ASSUME TypeInv, Cancel
  PROVE  TypeInv'
<1>0. /\ row \in RowType /\ keys \in Keys /\ startJob \in JobType /\ endJob \in JobType
  BY Known
<1>1. CASE CancelPrechecks
  BY <1>1 DEF CancelPrechecks, TypeInv, TypeOK, DurationsInv, database, redis, jobs, workers
<1>2. CASE CancelCommits
  <2>1. row' \in RowType
    BY <1>0, <1>2 DEF CancelCommits, RowType
  <2> QED
    BY <1>2, <2>1 DEF CancelCommits, TypeInv, TypeOK, DurationsInv, redis, jobs, workers
<1>3. CASE CancelRefused
  BY <1>3 DEF CancelRefused, TypeInv, TypeOK, DurationsInv, database, redis, jobs, workers
<1>4. CASE CancelRemovesStart
  <2>1. startJob' \in JobType
    BY <1>0, <1>4, NoJobType DEF CancelRemovesStart
  <2> QED
    BY <1>4, <2>1 DEF CancelRemovesStart, TypeInv, TypeOK, DurationsInv, database, redis, workers
<1>5. CASE CancelRemovesEnd
  <2>1. endJob' \in JobType
    BY <1>0, <1>5, NoJobType DEF CancelRemovesEnd
  <2> QED
    BY <1>5, <2>1 DEF CancelRemovesEnd, TypeInv, TypeOK, DurationsInv, database, redis, workers
<1>6. CASE CancelCleansUp
  <2>1. keys' \in Keys
    BY <1>0, <1>6, KeyTypes DEF CancelCleansUp
  <2> QED
    BY <1>6, <2>1 DEF CancelCleansUp, TypeInv, TypeOK, DurationsInv, database, jobs, workers
<1>7. CASE CancelDropsPrice
  <2>1. keys' \in Keys
    BY <1>0, <1>7 DEF CancelDropsPrice, Keys, Price
  <2> QED
    BY <1>7, <2>1 DEF CancelDropsPrice, TypeInv, TypeOK, DurationsInv, database, jobs, workers
<1> QED
  BY <1>1, <1>2, <1>3, <1>4, <1>5, <1>6, <1>7 DEF Cancel

LEMMA UpdateFrame ==
  ASSUME TypeInv, Update, row' \in RowType, expiry' \in ExpiryType, endJob' \in JobType,
         updater' \in UpdaterType
  PROVE  TypeInv'
<1>1. UNCHANGED <<clock, bids, keys, startJob, creator, canceler, workers, boot, announced, crashes>>
  BY DEF Update, UpdateReads, UpdateLocked, UpdateRefused, UpdateSavesCopy, UpdateRemovesEnd,
         UpdateSchedulesEnd, UpdateExtends, database, redis, jobs
<1>2. TypeOK'
  BY <1>1, TypesAre DEF TypeInv, TypeOK, workers, ExpiryType, UpdaterType
<1>3. DurationsInv'
  BY <1>1 DEF TypeInv, DurationsInv, workers
<1> QED
  BY <1>2, <1>3 DEF TypeInv

LEMMA UpdateTypes ==
  ASSUME TypeInv, Update
  PROVE  TypeInv'
<1>0. /\ row \in RowType /\ row.endTime \in Nat /\ expiry \in ExpiryType /\ endJob \in JobType
      /\ updater \in UpdaterType /\ updater.endTime \in Nat /\ updater.copy \in RowType /\ clock \in Nat
  BY Known DEF UpdaterType
<1>1. ASSUME NEW command \in AllCommands, UpdateReads(command) PROVE TypeInv'
  <2>1. [updater EXCEPT !.pc = "done"] \in UpdaterType
    BY <1>0 DEF UpdaterType
  <2>2. updater' \in UpdaterType
    BY <1>0, <1>1, <2>1, LifecycleAssumption DEF UpdateReads, UpdaterType
  <2> QED
    BY <1>0, <1>1, <2>2, UpdateFrame DEF UpdateReads, Update, database, redis, jobs
<1>2. CASE UpdateLocked
  <2>1. row' \in RowType /\ updater' \in UpdaterType
    BY <1>0, <1>2 DEF UpdateLocked, RowType, UpdaterType
  <2> QED
    BY <1>0, <1>2, <2>1, UpdateFrame DEF UpdateLocked, redis, jobs
<1>3. CASE UpdateRefused
  <2>1. updater' \in UpdaterType
    BY <1>0, <1>3 DEF UpdateRefused, UpdaterType
  <2> QED
    BY <1>0, <1>3, <2>1, UpdateFrame DEF UpdateRefused, database, redis, jobs
<1>4. CASE UpdateSavesCopy
  <2>1. row' \in RowType /\ updater' \in UpdaterType
    BY <1>0, <1>4 DEF UpdateSavesCopy, RowType, UpdaterType
  <2> QED
    BY <1>0, <1>4, <2>1, UpdateFrame DEF UpdateSavesCopy, redis, jobs
<1>5. CASE UpdateRemovesEnd
  <2>1. endJob' \in JobType
    BY <1>0, <1>5, NoJobType DEF UpdateRemovesEnd
  <2>2. updater' \in UpdaterType
    BY <1>0, <1>5 DEF UpdateRemovesEnd, UpdaterType
  <2> QED
    BY <1>0, <1>5, <2>1, <2>2, UpdateFrame DEF UpdateRemovesEnd, database, redis
<1>6. CASE UpdateSchedulesEnd
  <2>1. endJob' \in JobType
    BY <1>0, <1>6, EnqueuedType DEF UpdateSchedulesEnd
  <2>2. updater' \in UpdaterType
    BY <1>0, <1>6 DEF UpdateSchedulesEnd, UpdaterType
  <2> QED
    BY <1>0, <1>6, <2>1, <2>2, UpdateFrame DEF UpdateSchedulesEnd, database, redis
<1>7. CASE UpdateExtends
  <2>1. updater' \in UpdaterType
    BY <1>0, <1>7 DEF UpdateExtends, UpdaterType
  <2>2. Remaining(updater.endTime) > 0 => Ttl(Remaining(updater.endTime)) \in ExpiryType
    BY <1>0, RemainingBounds, TtlType
  <2>3. expiry' \in ExpiryType
    BY <1>0, <1>7, <2>2 DEF UpdateExtends, ExpiryType
  <2> QED
    BY <1>0, <1>7, <2>1, <2>3, UpdateFrame DEF UpdateExtends, database, jobs
<1> QED
  BY <1>1, <1>2, <1>3, <1>4, <1>5, <1>6, <1>7 DEF Update

LEMMA BootFrame ==
  ASSUME TypeInv, Boot, row' \in RowType, keys' \in Keys, expiry' \in ExpiryType,
         endJob' \in JobType, boot' \in BootType,
         boot'.pc = "restore" => WholeSeconds(boot'.copy.endTime - boot'.now) > 0
  PROVE  TypeInv'
<1>1. UNCHANGED <<clock, bids, startJob, api, workers, announced, crashes>>
  BY DEF Boot, BootFinds, BootChecks, BootReadsBids, BootMarksEnded, BootRestores, BootSchedulesEnd,
         database, jobs
<1>2. TypeOK'
  BY <1>1, TypesAre DEF TypeInv, TypeOK, api, workers, ExpiryType, BootType
<1>3. DurationsInv'
  BY <1>1 DEF TypeInv, DurationsInv, workers
<1> QED
  BY <1>2, <1>3 DEF TypeInv

LEMMA BootTypes ==
  ASSUME TypeInv, Boot
  PROVE  TypeInv'
<1>0. /\ row \in RowType /\ keys \in Keys /\ expiry \in ExpiryType /\ endJob \in JobType
      /\ boot \in BootType /\ clock \in Nat
      /\ boot.copy \in RowType /\ boot.copy.endTime \in Nat /\ boot.copy.price \in Price
      /\ boot.now \in Nat /\ boot.bidder \in UserOrNull
      /\ boot.pc = "restore" => WholeSeconds(boot.copy.endTime - boot.now) > 0
  BY Known DEF TypeInv, DurationsInv, BootType, RowType
<1>1. CASE BootFinds
  <2>1. boot' \in BootType /\ boot'.pc # "restore"
    BY <1>0, <1>1, IdleTypes DEF BootFinds, BootType
  <2> QED
    BY <1>0, <1>1, <2>1, BootFrame DEF BootFinds, database, redis, jobs
<1>2. CASE BootChecks
  <2>1. boot' \in BootType /\ boot'.pc # "restore"
    BY <1>0, <1>2, IdleTypes DEF BootChecks, BootType
  <2> QED
    BY <1>0, <1>2, <2>1, BootFrame DEF BootChecks, database, redis, jobs
<1>3. CASE BootReadsBids
  <2> DEFINE left == WholeSeconds(boot.copy.endTime - boot.now)
  <2>0. left \in Int
    BY <1>0, WholeSecondsBounds
  <2>1. PICK bidder \in UserOrNull :
          boot' = [boot EXCEPT !.bidder = bidder, !.pc = IF left <= 0 THEN "markEnded" ELSE "restore"]
    BY <1>3 DEF BootReadsBids
  <2>2. boot' \in BootType /\ boot'.copy = boot.copy /\ boot'.now = boot.now
        /\ (boot'.pc = "restore" => left > 0)
    <3> HIDE DEF left
    <3>1. CASE left <= 0
      <4>1. boot' = [boot EXCEPT !.bidder = bidder, !.pc = "markEnded"]
        BY <2>1, <3>1
      <4> QED
        BY <1>0, <4>1 DEF BootType
    <3>2. CASE ~(left <= 0)
      <4>1. boot' = [boot EXCEPT !.bidder = bidder, !.pc = "restore"]
        BY <2>1, <3>2
      <4>2. boot' \in BootType /\ boot'.copy = boot.copy /\ boot'.now = boot.now
        BY <1>0, <4>1 DEF BootType
      <4> QED
        BY <2>0, <3>2, <4>2
    <3> QED
      BY <3>1, <3>2
  <2>3. boot'.pc = "restore" => WholeSeconds(boot'.copy.endTime - boot'.now) > 0
    BY <2>2
  <2> QED
    BY <1>0, <1>3, <2>2, <2>3, BootFrame DEF BootReadsBids, database, redis, jobs
<1>4. CASE BootMarksEnded
  <2>1. row' \in RowType
    BY <1>0, <1>4 DEF BootMarksEnded, RowType
  <2> QED
    BY <1>0, <1>4, <2>1, IdleTypes, BootFrame DEF BootMarksEnded, redis, jobs
<1>5. CASE BootRestores
  <2>1. boot' \in BootType /\ boot'.pc # "restore"
    BY <1>0, <1>5 DEF BootRestores, BootType
  <2> DEFINE left == WholeSeconds(boot.copy.endTime - boot.now)
  <2>2. Ttl(left) \in ExpiryType
    <3>1. left \in Int /\ left > 0
      BY <1>0, <1>5, WholeSecondsBounds DEF BootRestores
    <3> HIDE DEF left
    <3> QED
      BY <1>0, <3>1, TtlType
  <2>3. keys' \in Keys /\ expiry' \in ExpiryType
    BY <1>0, <1>5, <2>2, KeyTypes DEF BootRestores, redis
  <2> QED
    BY <1>0, <1>5, <2>1, <2>3, BootFrame DEF BootRestores, database, jobs
<1>6. CASE BootSchedulesEnd
  <2>1. endJob' \in JobType
    BY <1>0, <1>6, EnqueuedType DEF BootSchedulesEnd
  <2> QED
    BY <1>0, <1>6, <2>1, IdleTypes, BootFrame DEF BootSchedulesEnd, database, redis
<1> QED
  BY <1>1, <1>2, <1>3, <1>4, <1>5, <1>6 DEF Boot

LEMMA BidTypes ==
  ASSUME TypeInv, NEW b \in Bidders, PlaceBid(b) \/ SaveBid(b)
  PROVE  TypeInv'
<1>0. keys \in Keys /\ b \in Users
  BY Known, LifecycleAssumption
<1> DEFINE BidType == [state : {"none", "saving", "saved", "lost"}, amount : Nat]
<1>1. bids \in [Bidders -> BidType]
  BY DEF TypeInv, TypeOK
<1>2. CASE PlaceBid(b)
  <2> DEFINE amount == OrZero(keys.price) + CalcMinIncrement(OrZero(keys.price))
  <2>1. amount \in Nat
    BY <1>0, LeastBidType DEF Keys
  <2>2. keys' = AfterBid(keys, b, amount) /\ bids' = [bids EXCEPT ![b] = [state |-> "saving", amount |-> amount]]
    BY <1>2 DEF PlaceBid
  <2> HIDE DEF amount
  <2>3. keys' \in Keys
    BY <1>0, <2>1, <2>2, KeyTypes
  <2>4. bids' \in [Bidders -> BidType]
    BY <1>1, <2>1, <2>2
  <2> QED
    BY <1>2, <2>3, <2>4 DEF PlaceBid, TypeInv, TypeOK, DurationsInv, jobs, api, workers
<1>3. CASE SaveBid(b)
  <2>1. bids' \in [Bidders -> BidType]
    BY <1>1, <1>3 DEF SaveBid
  <2> QED
    BY <1>3, <2>1 DEF SaveBid, TypeInv, TypeOK, DurationsInv, redis, jobs, api, workers
<1> QED
  BY <1>2, <1>3

LEMMA TickTypes ==
  ASSUME TypeInv, Tick
  PROVE  TypeInv'
<1>0. keys \in Keys /\ clock \in 0..MaxTime
  BY Known DEF TypeInv, TypeOK
<1>1. clock' \in 0..MaxTime
  BY <1>0, LifecycleAssumption DEF Tick
<1>2. keys' \in Keys
  BY <1>0 DEF Tick, Keys, Price, UserOrNull
<1> QED
  BY <1>1, <1>2 DEF Tick, TypeInv, TypeOK, DurationsInv, database, jobs, api, workers

LEMMA CrashTypes ==
  ASSUME TypeInv, Crash
  PROVE  TypeInv'
<1>0. keys \in Keys /\ startJob \in JobType /\ endJob \in JobType /\ clock \in Nat
  BY Known
<1> DEFINE BidType == [state : {"none", "saving", "saved", "lost"}, amount : Nat]
<1>1. bids \in [Bidders -> BidType]
  BY DEF TypeInv, TypeOK
<1>2. bids' \in [Bidders -> BidType]
  <2> DEFINE after == [b \in Bidders |-> IF bids[b].state = "saving" THEN [bids[b] EXCEPT !.state = "lost"]
                                         ELSE bids[b]]
  <2>1. \A b \in Bidders : bids[b] \in BidType
    BY <1>1
  <2>2. \A b \in Bidders : [bids[b] EXCEPT !.state = "lost"] \in BidType
    BY <2>1
  <2>3. after \in [Bidders -> BidType]
    BY <2>1, <2>2
  <2>4. bids' = after
    BY Zenon DEF Crash
  <2> QED
    BY <2>3, <2>4
<1>3. crashes' \in 0..MaxCrashes
  <2>1. crashes \in Nat /\ crashes < MaxCrashes /\ crashes' = crashes + 1
    BY LifecycleAssumption DEF Crash, TypeInv, TypeOK
  <2> QED
    BY <2>1, LifecycleAssumption
<1>4. keys' \in Keys /\ startJob' \in JobType /\ endJob' \in JobType
  BY <1>0, StalledType, NoJobType, KeyTypes DEF Crash
<1>5. updater' \in UpdaterType
  <2>1. [IdleUpdater EXCEPT !.pc = "done"] \in UpdaterType
    BY IdleTypes DEF UpdaterType
  <2> QED
    BY <2>1, Known DEF Crash
<1>6. boot' \in BootType /\ boot'.pc = "find"
  BY IdleTypes DEF Crash, BootType
<1>7. starter' \in StarterType /\ ender' \in EnderType /\ starter'.pc = "idle"
  BY IdleTypes DEF Crash
<1>8. TypeOK'
  BY <1>2, <1>3, <1>4, <1>5, <1>6, <1>7
  DEF Crash, TypeInv, TypeOK, UpdaterType, StarterType, EnderType, BootType
<1>9. DurationsInv'
  BY <1>6, <1>7 DEF DurationsInv
<1> QED
  BY <1>8, <1>9 DEF TypeInv

LEMMA NextTypes == TypeInv /\ [Next]_vars => TypeInv'
<1>1. TypeInv /\ UNCHANGED vars => TypeInv'
  BY DEF vars, database, redis, jobs, api, workers, TypeInv, TypeOK, DurationsInv
<1> QED
  BY <1>1, CreateTypes, StartTypes, EndTypes, CancelTypes, UpdateTypes, BootTypes, BidTypes,
     TickTypes, CrashTypes DEF Next

\* Whatever fails, crashes or overlaps, every row, key, job and handler keeps
\* its type; in particular no key is ever given a TTL that is not positive.
THEOREM TypeCorrect == Spec => []TypeOK
<1>1. TypeInv => TypeOK
  BY DEF TypeInv
<1> QED
  BY <1>1, InitIsTyped, NextTypes, PTL DEF Spec

-----------------------------------------------------------------------------
(* Before it is created. *)

\* Before the row exists nothing can have happened to it.
EarlyInv ==
  creator # "done" =>
    /\ row = NoRow /\ endJob.state = "none" /\ announced = <<>>
    /\ ender.pc = "idle" /\ boot.pc = "idle" /\ starter.pc \in {"idle", "read"}
    /\ canceler = "idle" /\ updater.pc = "idle"

LEMMA InitEarly == Init => EarlyInv
  BY DEF Init, EarlyInv, NoJob, IdleStarter, IdleEnder, IdleUpdater, IdleBoot

LEMMA NextKeepsEarly == EarlyInv /\ [Next]_vars => EarlyInv'
<1> SUFFICES ASSUME EarlyInv, [Next]_vars PROVE EarlyInv'
  OBVIOUS
<1>1. CASE Create
  BY <1>1 DEF Create, CreateSchedules, CreateFails, CreateCommits, EarlyInv, database, jobs, workers
<1>2. CASE Start
  <2>1. UNCHANGED <<creator, canceler, updater, ender, boot, announced>>
    BY <1>2 DEF Start, StartPicks, StartSkips, StartReads, StartMarksEnded, StartActivates, StartLostRow,
         StartInitializes, StartSchedulesEnd, StartCannotSchedule, StartRollsBack, StartThrows, api
  <2>2. CASE creator = "done"
    BY <2>1, <2>2 DEF EarlyInv
  <2>3. CASE creator # "done"
    <3>1. row.status = "NONE" /\ starter.pc \in {"idle", "read"}
      BY <2>3 DEF EarlyInv, NoRow
    <3>2. UNCHANGED <<row, endJob>> /\ starter'.pc \in {"idle", "read"}
      BY <1>2, <3>1 DEF Start, StartPicks, StartSkips, StartReads, StartMarksEnded, StartActivates,
         StartLostRow, StartInitializes, StartSchedulesEnd, StartCannotSchedule, StartRollsBack,
         StartThrows, StartDone, IdleStarter, database
    <3> QED
      BY <2>1, <3>2 DEF EarlyInv
  <2> QED
    BY <2>2, <2>3
<1>3. CASE End
  <2>1. creator = "done" /\ creator' = creator
    BY <1>3 DEF EarlyInv, Due, End, EndPicks, EndSkips, EndReadsPrice, EndReadsBidder, EndCommits,
                EndCleansUp, EndNotifies, EndFinishes, EndThrows, api
  <2> QED
    BY <2>1 DEF EarlyInv
<1>4. CASE Cancel \/ Update \/ Boot
  <2>1. creator = "done" /\ creator' = creator
    BY <1>4
    DEF EarlyInv, Cancel, CancelPrechecks, CancelCommits, CancelRefused, CancelRemovesStart,
        CancelRemovesEnd, CancelCleansUp, CancelDropsPrice, Update, UpdateReads, UpdateLocked, UpdateRefused,
        UpdateSavesCopy, UpdateRemovesEnd, UpdateSchedulesEnd, UpdateExtends,
        Boot, BootFinds, BootChecks, BootReadsBids, BootMarksEnded, BootRestores, BootSchedulesEnd, api
  <2> QED
    BY <2>1 DEF EarlyInv
<1>5. CASE Crash
  BY <1>5 DEF Crash, EarlyInv
<1>6. CASE Tick \/ (\E b \in Bidders : PlaceBid(b) \/ SaveBid(b)) \/ UNCHANGED vars
  BY <1>6 DEF Tick, PlaceBid, SaveBid, vars, database, jobs, api, workers, EarlyInv
<1> QED
  BY <1>1, <1>2, <1>3, <1>4, <1>5, <1>6 DEF Next

-----------------------------------------------------------------------------
(* One result is announced, and it is the one in the row. *)

\* The end job that has ended the auction is the only one that may announce,
\* and holds what the row says.
PendingInv ==
  ender.pc \in {"cleanup", "notify"} /\ ender.updated =>
    /\ announced = <<>>
    /\ row.status = "ENDED" /\ row.price = ender.price /\ row.winner = ender.winner

RecordedInv ==
  \/ announced = <<>>
  \/ /\ announced = <<[price |-> row.price, winner |-> row.winner]>>
     /\ row.status = "ENDED"

\* Nobody writes a row back that was read before.
NobodyUndoes == starter.pc # "rollback" /\ updater.pc \in {"idle", "done"}

RecordInv == EarlyInv /\ PendingInv /\ RecordedInv /\ NobodyUndoes

\* No extension or renaming, and no queue that refuses a job after the row has
\* become ACTIVE: both write a status back that was read earlier.
NoWriteBack == Commands \cap {"extend", "rename"} = {} /\ ~Fault("queue_fails")

LEMMA InitRecord == Init => RecordInv
  BY InitEarly
  DEF Init, RecordInv, PendingInv, RecordedInv, NobodyUndoes, IdleEnder, IdleStarter, IdleUpdater

\* What ended stays as it was: the row of an auction that has ended keeps its
\* price and winner, whoever comes after.
LEMMA EndedStays ==
  ASSUME TypeInv, RecordInv, NoWriteBack, [Next]_vars, row.status = "ENDED"
  PROVE  row'.status = "ENDED" /\ row'.price = row.price /\ row'.winner = row.winner
<1>0. row \in RowType /\ creator = "done"
  BY Known DEF RecordInv, EarlyInv, NoRow
<1>1. CASE UNCHANGED row
  BY <1>1
<1>2. CASE StartMarksEnded \/ BootMarksEnded
  BY <1>0, <1>2 DEF StartMarksEnded, BootMarksEnded, RowType
<1>3. CASE CreateCommits \/ StartActivates \/ StartRollsBack \/ CancelCommits \/ UpdateLocked \/ UpdateSavesCopy
  BY <1>0, <1>3 DEF CreateCommits, StartActivates, StartRollsBack, CancelCommits, UpdateLocked,
                    UpdateSavesCopy, RecordInv, NobodyUndoes
<1>4. CASE EndCommits
  BY <1>4 DEF EndCommits
<1>5. CASE Create \/ Start \/ End
  BY <1>1, <1>2, <1>3, <1>4, <1>5
  DEF Create, CreateSchedules, CreateFails, Start, StartPicks, StartSkips, StartReads, StartLostRow,
      StartInitializes, StartSchedulesEnd, StartCannotSchedule, StartThrows, End, EndPicks, EndSkips,
      EndReadsPrice, EndReadsBidder, EndCleansUp, EndNotifies, EndFinishes, EndThrows, database
<1>6. CASE Cancel \/ Update \/ Boot
  BY <1>1, <1>2, <1>3, <1>6
  DEF Cancel, CancelPrechecks, CancelRefused, CancelRemovesStart, CancelRemovesEnd, CancelCleansUp, CancelDropsPrice,
      Update, UpdateReads, UpdateRefused, UpdateRemovesEnd, UpdateSchedulesEnd, UpdateExtends,
      Boot, BootFinds, BootChecks, BootReadsBids, BootRestores, BootSchedulesEnd, database
<1>7. CASE Tick \/ Crash \/ (\E b \in Bidders : PlaceBid(b) \/ SaveBid(b)) \/ UNCHANGED vars
  BY <1>1, <1>7 DEF Tick, Crash, PlaceBid, SaveBid, database, vars
<1> QED
  BY <1>5, <1>6, <1>7 DEF Next

\* A step that leaves the end processor and what was announced alone.
LEMMA QuietKeepsRecord ==
  ASSUME TypeInv, RecordInv, NoWriteBack, [Next]_vars, UNCHANGED announced,
         ender' = ender \/ ender'.pc \notin {"cleanup", "notify"}
  PROVE  PendingInv' /\ RecordedInv'
<1>1. row.status = "ENDED" => row'.status = "ENDED" /\ row'.price = row.price /\ row'.winner = row.winner
  BY EndedStays
<1> QED
  BY <1>1 DEF RecordInv, PendingInv, RecordedInv

LEMMA CreateKeepsRecord ==
  ASSUME RecordInv, Create
  PROVE  NobodyUndoes' /\ UNCHANGED <<announced, ender>>
<1>1. UNCHANGED <<updater, workers, announced>>
  BY DEF Create, CreateSchedules, CreateFails, CreateCommits
<1> QED
  BY <1>1 DEF RecordInv, NobodyUndoes, workers

LEMMA StartKeepsRecord ==
  ASSUME TypeInv, RecordInv, NoWriteBack, Start
  PROVE  NobodyUndoes' /\ UNCHANGED <<announced, ender>>
<1>0. starter \in StarterType
  BY Known
<1>1. UNCHANGED <<updater, ender, announced>>
  BY DEF Start, StartPicks, StartSkips, StartReads, StartMarksEnded, StartActivates, StartLostRow,
         StartInitializes, StartSchedulesEnd, StartCannotSchedule, StartRollsBack, StartThrows, api
<1>2. starter'.pc # "rollback"
  BY <1>0 DEF Start, StartPicks, StartSkips, StartReads, StartMarksEnded, StartActivates, StartLostRow,
         StartInitializes, StartSchedulesEnd, StartCannotSchedule, StartRollsBack, StartThrows,
         StartDone, IdleStarter, StarterType, RecordInv, NobodyUndoes, NoWriteBack
<1> QED
  BY <1>1, <1>2 DEF RecordInv, NobodyUndoes

LEMMA EndKeepsRecord ==
  ASSUME TypeInv, RecordInv, NoWriteBack, End
  PROVE  RecordInv'
<1>0. /\ ender \in EnderType /\ row \in RowType
      /\ UNCHANGED <<updater, starter>>
  BY Known DEF End, EndPicks, EndSkips, EndReadsPrice, EndReadsBidder, EndCommits, EndCleansUp,
               EndNotifies, EndFinishes, EndThrows, api
<1>2. EarlyInv' /\ NobodyUndoes'
  BY <1>0, NextKeepsEarly DEF RecordInv, NobodyUndoes, Next
<1>3. CASE EndCommits
  <2>1. CASE row.status = "ENDED"
    <3>1. UNCHANGED <<row, announced>>
      BY <1>3, <2>1 DEF EndCommits
    <3>2. ~ender'.updated
      BY <1>0, <1>3, <2>1 DEF EndCommits, EnderType
    <3> QED
      BY <1>2, <3>1, <3>2 DEF RecordInv, PendingInv, RecordedInv
  <2>2. CASE row.status # "ENDED"
    <3>1. announced' = <<>>
      BY <1>3, <2>2 DEF EndCommits, RecordInv, RecordedInv
    <3>2. row' = [row EXCEPT !.status = "ENDED", !.price = ender.price, !.winner = ender.winner]
      BY <1>3, <2>2 DEF EndCommits
    <3>3. row'.status = "ENDED" /\ row'.price = ender.price /\ row'.winner = ender.winner
      BY <1>0, <3>2 DEF RowType
    <3>4. ender'.price = ender.price /\ ender'.winner = ender.winner
      BY <1>0, <1>3 DEF EndCommits, EnderType
    <3> QED
      BY <1>2, <3>1, <3>3, <3>4 DEF RecordInv, PendingInv, RecordedInv
  <2> QED
    BY <2>1, <2>2
<1>4. CASE EndCleansUp
  <2>1. /\ ender'.price = ender.price /\ ender'.winner = ender.winner
        /\ ender'.updated = ender.updated /\ ender.pc = "cleanup"
        /\ UNCHANGED <<row, announced>>
    BY <1>0, <1>4 DEF EndCleansUp, EnderType, database
  <2> QED
    BY <2>1, <1>2 DEF RecordInv, PendingInv, RecordedInv
<1>5. CASE EndNotifies
  <2>1. ender'.pc = "finish" /\ ender.pc = "notify" /\ UNCHANGED row
    BY <1>0, <1>5 DEF EndNotifies, EnderType, database
  <2>2. CASE ender.updated
    <3>1. /\ announced = <<>> /\ row.status = "ENDED"
          /\ row.price = ender.price /\ row.winner = ender.winner
      BY <2>1, <2>2 DEF RecordInv, PendingInv
    <3>2. announced' = Append(announced, [price |-> ender.price, winner |-> ender.winner])
      BY <1>5, <2>2 DEF EndNotifies
    <3>3. announced' = <<[price |-> row.price, winner |-> row.winner]>>
      BY <3>1, <3>2
    <3> QED
      BY <1>2, <2>1, <3>1, <3>3 DEF RecordInv, PendingInv, RecordedInv
  <2>3. CASE ~ender.updated
    <3>1. announced' = announced
      BY <1>5, <2>3 DEF EndNotifies
    <3> QED
      BY <1>2, <2>1, <3>1 DEF RecordInv, PendingInv, RecordedInv
  <2> QED
    BY <2>2, <2>3
<1>6. CASE EndPicks \/ EndSkips \/ EndReadsPrice \/ EndReadsBidder \/ EndFinishes \/ EndThrows
  <2>1. UNCHANGED <<row, announced>>
    BY <1>6 DEF EndPicks, EndSkips, EndReadsPrice, EndReadsBidder, EndFinishes, EndThrows, database
  <2>2. ender'.pc \notin {"cleanup", "notify"}
    <3>1. CASE EndPicks \/ EndSkips \/ EndFinishes \/ EndThrows
      BY <3>1 DEF EndPicks, EndSkips, EndFinishes, EndThrows, EndDone, IdleEnder
    <3>2. CASE EndReadsPrice
      BY <1>0, <3>2 DEF EndReadsPrice, EnderType
    <3>3. CASE EndReadsBidder
      BY <1>0, <3>3 DEF EndReadsBidder, EnderType
    <3> QED
      BY <1>6, <3>1, <3>2, <3>3
  <2> QED
    BY <1>2, <2>1, <2>2 DEF RecordInv, PendingInv, RecordedInv
<1> QED
  BY <1>3, <1>4, <1>5, <1>6 DEF End

LEMMA CallsKeepRecord ==
  ASSUME TypeInv, RecordInv, NoWriteBack, Cancel \/ Update
  PROVE  NobodyUndoes' /\ UNCHANGED <<announced, ender>>
<1>1. CASE Cancel
  <2>1. UNCHANGED <<updater, workers, announced>>
    BY <1>1 DEF Cancel, CancelPrechecks, CancelCommits, CancelRefused, CancelRemovesStart,
                CancelRemovesEnd, CancelCleansUp, CancelDropsPrice
  <2> QED
    BY <2>1 DEF RecordInv, NobodyUndoes, workers
<1>2. CASE Update
  BY <1>2 DEF Update, UpdateReads, UpdateLocked, UpdateRefused, UpdateSavesCopy, UpdateRemovesEnd,
              UpdateSchedulesEnd, UpdateExtends, NoWriteBack, RecordInv, NobodyUndoes
<1> QED
  BY <1>1, <1>2

LEMMA BootKeepsRecord ==
  ASSUME RecordInv, Boot
  PROVE  NobodyUndoes' /\ UNCHANGED <<announced, ender>>
<1>1. UNCHANGED <<api, workers, announced>>
  BY DEF Boot, BootFinds, BootChecks, BootReadsBids, BootMarksEnded, BootRestores, BootSchedulesEnd
<1> QED
  BY <1>1 DEF RecordInv, NobodyUndoes, api, workers

LEMMA CrashKeepsRecord ==
  ASSUME RecordInv, Crash
  PROVE  NobodyUndoes' /\ UNCHANGED announced /\ ender'.pc = "idle"
  BY DEF Crash, RecordInv, NobodyUndoes, IdleStarter, IdleEnder, IdleUpdater

LEMMA NextKeepsRecord ==
  ASSUME NoWriteBack
  PROVE  TypeInv /\ RecordInv /\ [Next]_vars => RecordInv'
<1> SUFFICES ASSUME TypeInv, RecordInv, [Next]_vars PROVE RecordInv'
  OBVIOUS
<1>0. EarlyInv'
  BY NextKeepsEarly DEF RecordInv
<1>1. CASE End
  BY <1>1, EndKeepsRecord
<1>2. CASE Create \/ Start \/ Cancel \/ Update \/ Boot
  BY <1>0, <1>2, CreateKeepsRecord, StartKeepsRecord, CallsKeepRecord, BootKeepsRecord, QuietKeepsRecord
  DEF RecordInv
<1>3. CASE Crash
  <2>1. ender'.pc \notin {"cleanup", "notify"}
    BY <1>3, CrashKeepsRecord
  <2> QED
    BY <1>0, <1>3, <2>1, CrashKeepsRecord, QuietKeepsRecord DEF RecordInv
<1>4. CASE Tick \/ (\E b \in Bidders : PlaceBid(b) \/ SaveBid(b)) \/ UNCHANGED vars
  <2>1. UNCHANGED <<row, updater, starter, ender, announced>>
    BY <1>4 DEF Tick, PlaceBid, SaveBid, vars, database, api, workers
  <2> QED
    BY <1>0, <2>1 DEF RecordInv, PendingInv, RecordedInv, NobodyUndoes
<1> QED
  BY <1>1, <1>2, <1>3, <1>4 DEF Next

\* Whatever is retried, crashes or is canceled meanwhile, and whatever of Redis
\* is lost, at most one result is announced, and the row keeps it.
THEOREM OneResultIsAnnounced ==
  ASSUME NoWriteBack
  PROVE  Spec => []AnnouncedIsRecorded
<1>1. RecordInv => AnnouncedIsRecorded
  <2> SUFFICES ASSUME RecordInv PROVE AnnouncedIsRecorded
    OBVIOUS
  <2>1. CASE announced = <<>>
    BY <2>1 DEF AnnouncedIsRecorded
  <2>2. CASE announced # <<>>
    <3> DEFINE told == [price |-> row.price, winner |-> row.winner]
    <3>1. announced = <<told>> /\ row.status = "ENDED"
      BY <2>2 DEF RecordInv, RecordedInv
    <3> HIDE DEF told
    <3>2. Len(announced) = 1 /\ announced[1] = told
      BY <3>1
    <3> QED
      BY <3>1, <3>2 DEF AnnouncedIsRecorded, told
  <2> QED
    BY <2>1, <2>2
<1> QED
  BY <1>1, InitIsTyped, InitRecord, NextTypes, NextKeepsRecord, PTL DEF Spec

-----------------------------------------------------------------------------
(* What every step keeps, whatever fails: jobs and their processors go        *)
(* together, end times never come before the first one, and keys have a       *)
(* price and an owner as long as they are active.                             *)

\* A job is active exactly while its processor runs, and ran when it was due;
\* there is no start job before createAuction adds it.
JobsInv ==
  /\ starter.pc = "idle" <=> startJob.state # "active"
  /\ ender.pc = "idle" <=> endJob.state # "active"
  /\ endJob.state = "active" => endJob.due <= clock
  /\ creator = "schedule" => startJob.state = "none"

LEMMA JobStates ==
  ASSUME NEW job \in JobType, clock \in Nat
  PROVE  /\ Retried(job) \in JobType /\ Retried(job).state \in {"delayed", "failed"}
         /\ Stalled(job) \in JobType /\ Stalled(job).state # "active"
         /\ [job EXCEPT !.state = "active"].state = "active"
         /\ [job EXCEPT !.state = "active"].due = job.due
         /\ NoJob.state = "none"
<1>1. Retried(job) \in JobType /\ Stalled(job) \in JobType
  BY RetriedType, StalledType
<1>2. Retried(job).state \in {"delayed", "failed"} /\ Stalled(job).state # "active"
  BY DEF Retried, Stalled, JobType
<1> QED
  BY <1>1, <1>2 DEF JobType, NoJob

\* A job that is there is left alone.
LEMMA EnqueuedState ==
  ASSUME NEW job, NEW due
  PROVE  \/ job.state # "none" /\ Enqueued(job, due) = job
         \/ job.state = "none" /\ Enqueued(job, due).state = "delayed"
  BY DEF Enqueued

LEMMA StartKeepsJobs ==
  ASSUME TypeInv, JobsInv, Start
  PROVE  JobsInv'
<1>0. startJob \in JobType /\ endJob \in JobType /\ starter \in StarterType /\ clock \in Nat
  BY Known
<1>1. UNCHANGED <<clock, ender, creator>>
  BY DEF Start, StartPicks, StartSkips, StartReads, StartMarksEnded, StartActivates, StartLostRow,
         StartInitializes, StartSchedulesEnd, StartCannotSchedule, StartRollsBack, StartThrows, api
<1>2. endJob' = endJob \/ (endJob.state = "none" /\ endJob'.state = "delayed")
  <2>1. CASE StartSchedulesEnd
    BY <1>0, <2>1, EnqueuedState DEF StartSchedulesEnd
  <2>2. CASE ~StartSchedulesEnd
    BY <2>2
    DEF Start, StartPicks, StartSkips, StartReads, StartMarksEnded, StartActivates, StartLostRow,
        StartInitializes, StartCannotSchedule, StartRollsBack, StartThrows, jobs
  <2> QED
    BY <2>1, <2>2
<1>3. starter'.pc = "idle" <=> startJob'.state # "active"
  <2>1. CASE StartPicks
    BY <1>0, <2>1, JobStates DEF StartPicks, IdleStarter
  <2>2. CASE StartSkips \/ StartMarksEnded \/ StartLostRow \/ StartSchedulesEnd
    BY <1>0, <2>2, JobStates
    DEF StartSkips, StartMarksEnded, StartLostRow, StartSchedulesEnd, StartDone, IdleStarter
  <2>3. CASE StartReads \/ StartActivates \/ StartInitializes \/ StartCannotSchedule
    BY <1>0, <2>3
    DEF StartReads, StartActivates, StartInitializes, StartCannotSchedule, jobs, JobsInv, StarterType
  <2>4. CASE StartRollsBack \/ StartThrows
    BY <1>0, <2>4, JobStates DEF StartRollsBack, StartThrows, IdleStarter
  <2> QED
    BY <2>1, <2>2, <2>3, <2>4 DEF Start
<1>4. creator # "schedule"
  BY DEF Start, StartPicks, StartSkips, StartReads, StartMarksEnded, StartActivates, StartLostRow,
         StartInitializes, StartSchedulesEnd, StartCannotSchedule, StartRollsBack, StartThrows, Due,
         JobsInv
<1> QED
  BY <1>1, <1>2, <1>3, <1>4 DEF JobsInv

LEMMA EndKeepsJobs ==
  ASSUME TypeInv, JobsInv, End
  PROVE  JobsInv'
<1>0. startJob \in JobType /\ endJob \in JobType /\ ender \in EnderType /\ clock \in Nat
  BY Known
<1>1. UNCHANGED <<clock, starter, startJob, creator>>
  BY DEF End, EndPicks, EndSkips, EndReadsPrice, EndReadsBidder, EndCommits, EndCleansUp, EndNotifies,
         EndFinishes, EndThrows, jobs, api
<1>2. CASE EndPicks
  BY <1>0, <1>1, <1>2, JobStates DEF EndPicks, IdleEnder, Due, JobsInv
<1>3. CASE EndSkips \/ EndFinishes \/ EndThrows
  BY <1>0, <1>1, <1>3, JobStates DEF EndSkips, EndFinishes, EndThrows, EndDone, IdleEnder, JobsInv
<1>4. CASE EndReadsPrice \/ EndReadsBidder \/ EndCommits \/ EndCleansUp \/ EndNotifies
  BY <1>0, <1>1, <1>4
  DEF EndReadsPrice, EndReadsBidder, EndCommits, EndCleansUp, EndNotifies, jobs, JobsInv, EnderType
<1> QED
  BY <1>2, <1>3, <1>4 DEF End

LEMMA NextKeepsJobs == TypeInv /\ JobsInv /\ [Next]_vars => JobsInv'
<1> SUFFICES ASSUME TypeInv, JobsInv, [Next]_vars PROVE JobsInv'
  OBVIOUS
<1>0. startJob \in JobType /\ endJob \in JobType /\ clock \in Nat
  BY Known
<1>1. CASE Create
  BY <1>0, <1>1, JobStates, EnqueuedState
  DEF Create, CreateSchedules, CreateFails, CreateCommits, JobsInv, workers, jobs
<1>2. CASE Cancel
  BY <1>0, <1>2, JobStates
  DEF Cancel, CancelPrechecks, CancelCommits, CancelRefused, CancelRemovesStart, CancelRemovesEnd,
      CancelCleansUp, CancelDropsPrice, JobsInv, workers, jobs
<1>3. CASE Update
  BY <1>0, <1>3, JobStates, EnqueuedState
  DEF Update, UpdateReads, UpdateLocked, UpdateRefused, UpdateSavesCopy, UpdateRemovesEnd,
      UpdateSchedulesEnd, UpdateExtends, JobsInv, workers, jobs
<1>4. CASE Boot
  <2>1. UNCHANGED <<clock, startJob, workers, creator>>
    BY <1>4
    DEF Boot, BootFinds, BootChecks, BootReadsBids, BootMarksEnded, BootRestores, BootSchedulesEnd,
        jobs, api
  <2>2. endJob' = endJob \/ endJob' = Enqueued(endJob, boot.copy.endTime)
    BY <1>4
    DEF Boot, BootFinds, BootChecks, BootReadsBids, BootMarksEnded, BootRestores, BootSchedulesEnd, jobs
  <2>3. endJob' = endJob \/ (endJob.state = "none" /\ endJob'.state = "delayed")
    BY <1>0, <2>2, EnqueuedState
  <2> QED
    BY <2>1, <2>3 DEF JobsInv, workers
<1>5. CASE Crash
  <2>1. startJob'.state # "active" /\ endJob'.state # "active"
    BY <1>0, <1>5, JobStates DEF Crash
  <2>2. starter'.pc = "idle" /\ ender'.pc = "idle"
    BY <1>5 DEF Crash, IdleStarter, IdleEnder
  <2> QED
    BY <1>5, <2>1, <2>2 DEF Crash, JobsInv
<1>6. CASE Tick
  BY <1>0, <1>6 DEF Tick, JobsInv, jobs, workers, api, JobType
<1>7. CASE (\E b \in Bidders : PlaceBid(b) \/ SaveBid(b)) \/ UNCHANGED vars
  BY <1>7 DEF PlaceBid, SaveBid, JobsInv, vars, jobs, workers, api
<1> QED
  BY <1>1, <1>2, <1>3, <1>4, <1>5, <1>6, <1>7, StartKeepsJobs, EndKeepsJobs DEF Next

LEMMA InitJobs == Init => JobsInv
  BY DEF Init, JobsInv, NoJob, IdleStarter, IdleEnder

-----------------------------------------------------------------------------
(* Keys last, and the live price does not fall. *)

Opening == starter.pc \in {"activate", "init", "scheduleEnd", "rollback"}

Editing == updater.pc \in {"locked", "save", "removeEnd", "scheduleEnd", "ttl"}

Reconciling == boot.pc \notin {"idle", "find"}

\* No end time comes before the one the auction was created with, and what may
\* be written to the price key is a number.
SpansInv ==
  /\ row.status \in {"PENDING", "ACTIVE"} \/ Opening => row.endTime >= EndTime
  /\ row.price \in Nat /\ boot.copy.price \in Nat /\ updater.copy.price \in Nat
  /\ ender.pc \in {"bidder", "commit"} => ender.price # Null
  /\ Opening => starter.endTime >= EndTime /\ clock + starter.duration + Second > starter.endTime
  /\ Reconciling => boot.copy.endTime >= EndTime /\ boot.now <= clock
  /\ Editing => updater.endTime >= EndTime

LEMMA InitSpans == Init => SpansInv
  BY DEF Init, SpansInv, NoRow, IdleBoot, IdleUpdater, IdleEnder, IdleStarter, Opening, Reconciling,
         Editing

\* What the steps of the start processor do to the row and to their times.
LEMMA StartMoves ==
  ASSUME TypeInv, Start
  PROVE  /\ UNCHANGED <<clock, creator, canceler, updater, ender, boot>>
         /\ row'.endTime = row.endTime /\ row'.price = row.price
         /\ row'.status = row.status \/ (row.status = "PENDING" /\ row'.status = "ACTIVE" /\ starter'.pc = "init")
            \/ row'.status = "ENDED" \/ starter.pc = "rollback"
         /\ Opening' => \/ /\ Opening /\ starter'.endTime = starter.endTime
                            /\ starter'.duration = starter.duration
                         \/ /\ row.status = "PENDING" /\ starter'.endTime = row.endTime
                            /\ starter'.duration = Remaining(row.endTime)
<1>0. starter \in StarterType /\ row \in RowType /\ row.endTime \in Nat /\ clock \in Nat
  BY Known
<1>1. UNCHANGED <<clock, creator, canceler, updater, ender, boot>>
  BY DEF Start, StartPicks, StartSkips, StartReads, StartMarksEnded, StartActivates, StartLostRow,
         StartInitializes, StartSchedulesEnd, StartCannotSchedule, StartRollsBack, StartThrows, api
<1>2. row'.endTime = row.endTime /\ row'.price = row.price
  BY <1>0
  DEF Start, StartPicks, StartSkips, StartReads, StartMarksEnded, StartActivates, StartLostRow,
      StartInitializes, StartSchedulesEnd, StartCannotSchedule, StartRollsBack, StartThrows, database,
      RowType
<1>3. \/ row'.status = row.status
      \/ row.status = "PENDING" /\ row'.status = "ACTIVE" /\ starter'.pc = "init"
      \/ row'.status = "ENDED" \/ starter.pc = "rollback"
  <2>1. CASE StartMarksEnded
    BY <1>0, <2>1 DEF StartMarksEnded, RowType
  <2>2. CASE StartActivates
    BY <1>0, <2>2 DEF StartActivates, RowType, StarterType
  <2>3. CASE StartRollsBack
    BY <2>3 DEF StartRollsBack
  <2> QED
    BY <2>1, <2>2, <2>3
    DEF Start, StartPicks, StartSkips, StartReads, StartLostRow, StartInitializes, StartSchedulesEnd,
        StartCannotSchedule, StartThrows, database
<1>4. Opening' => \/ /\ Opening /\ starter'.endTime = starter.endTime
                     /\ starter'.duration = starter.duration
                  \/ /\ row.status = "PENDING" /\ starter'.endTime = row.endTime
                     /\ starter'.duration = Remaining(row.endTime)
  BY <1>0
  DEF Start, StartPicks, StartSkips, StartReads, StartMarksEnded, StartActivates, StartLostRow,
      StartInitializes, StartSchedulesEnd, StartCannotSchedule, StartRollsBack, StartThrows,
      StartDone, IdleStarter, StarterType, Opening
<1> QED
  BY <1>1, <1>2, <1>3, <1>4

LEMMA StartKeepsSpans ==
  ASSUME TypeInv, SpansInv, Start
  PROVE  SpansInv'
<1>0. row \in RowType /\ row.endTime \in Nat /\ clock \in Nat
  BY Known
<1>1. row'.status \in {"PENDING", "ACTIVE"} => row.status \in {"PENDING", "ACTIVE"} \/ Opening
  BY StartMoves DEF Opening
<1>2. /\ Remaining(row.endTime) \in Int
      /\ clock + Remaining(row.endTime) + Second > row.endTime
  BY <1>0, RemainingBounds, LifecycleAssumption
<1> QED
  BY <1>0, <1>1, <1>2, StartMoves DEF SpansInv, Reconciling, Editing

LEMMA EndKeepsSpans ==
  ASSUME TypeInv, SpansInv, End
  PROVE  SpansInv'
<1>0. row \in RowType /\ ender \in EnderType /\ keys \in Keys
  BY Known
<1>1. UNCHANGED <<clock, boot, updater, starter>>
  BY DEF End, EndPicks, EndSkips, EndReadsPrice, EndReadsBidder, EndCommits, EndCleansUp, EndNotifies,
         EndFinishes, EndThrows, api
<1>2. CASE EndCommits
  <2>1. row'.endTime = row.endTime /\ row'.status = "ENDED" /\ row'.price \in Nat
    BY <1>0, <1>2 DEF EndCommits, SpansInv, RowType, EnderType, Price
  <2>2. ender'.pc = "cleanup"
    BY <1>0, <1>2 DEF EndCommits, EnderType
  <2> QED
    BY <1>1, <2>1, <2>2 DEF SpansInv, Opening, Reconciling, Editing
<1>3. CASE ~EndCommits
  <2>1. UNCHANGED row
    BY <1>3 DEF End, EndPicks, EndSkips, EndReadsPrice, EndReadsBidder, EndCleansUp, EndNotifies,
                EndFinishes, EndThrows, database
  <2>2. ender'.pc \in {"bidder", "commit"} => ender'.price # Null
    <3>1. CASE EndReadsPrice
      BY <1>0, <3>1 DEF EndReadsPrice, EnderType
    <3>2. CASE EndReadsBidder
      BY <1>0, <3>2 DEF EndReadsBidder, EnderType, SpansInv
    <3>3. CASE EndPicks \/ EndSkips \/ EndFinishes \/ EndThrows
      BY <3>3 DEF EndPicks, EndSkips, EndFinishes, EndThrows, EndDone, IdleEnder
    <3>4. CASE EndCleansUp \/ EndNotifies
      BY <1>0, <3>4 DEF EndCleansUp, EndNotifies, EnderType
    <3> QED
      BY <1>3, <3>1, <3>2, <3>3, <3>4 DEF End
  <2> QED
    BY <1>1, <2>1, <2>2 DEF SpansInv, Opening, Reconciling, Editing
<1> QED
  BY <1>2, <1>3

LEMMA UpdateKeepsSpans ==
  ASSUME TypeInv, SpansInv, Update
  PROVE  SpansInv'
<1>0. row \in RowType /\ row.endTime \in Nat /\ updater \in UpdaterType /\ updater.copy \in RowType
      /\ clock \in Nat
  BY Known DEF UpdaterType
<1>1. UNCHANGED <<clock, boot, starter, ender>>
  BY DEF Update, UpdateReads, UpdateLocked, UpdateRefused, UpdateSavesCopy, UpdateRemovesEnd,
         UpdateSchedulesEnd, UpdateExtends, workers
<1>2. /\ row'.endTime \in {row.endTime, updater.endTime} /\ row'.price \in {row.price, updater.copy.price}
      /\ row'.endTime # row.endTime => Editing
      /\ row'.status \in {"PENDING", "ACTIVE"} =>
           row.status \in {"PENDING", "ACTIVE"} \/ (Editing /\ row'.endTime = updater.endTime)
  <2>1. CASE UpdateLocked
    BY <1>0, <2>1 DEF UpdateLocked, RowType, Editing
  <2>2. CASE UpdateSavesCopy
    BY <1>0, <2>2 DEF UpdateSavesCopy, RowType, Editing
  <2>3. CASE ~UpdateLocked /\ ~UpdateSavesCopy
    <3>1. UNCHANGED row
      BY <2>3
      DEF Update, UpdateReads, UpdateRefused, UpdateRemovesEnd, UpdateSchedulesEnd, UpdateExtends, database
    <3> QED
      BY <3>1 DEF Editing
  <2> QED
    BY <2>1, <2>2, <2>3
<1>3. /\ updater'.copy.price \in {row.price, updater.copy.price}
      /\ Editing' => \/ Editing /\ updater'.endTime = updater.endTime
                     \/ row.status \in {"PENDING", "ACTIVE"} /\ updater'.endTime >= row.endTime
  <2>1. ASSUME NEW command \in AllCommands, UpdateReads(command)
        PROVE  /\ updater'.copy.price \in {row.price, updater.copy.price}
               /\ Editing' => row.status \in {"PENDING", "ACTIVE"} /\ updater'.endTime >= row.endTime
    BY <1>0, <2>1, LifecycleAssumption DEF UpdateReads, UpdaterType, Editing, AllCommands
  <2>2. CASE ~\E command \in AllCommands : UpdateReads(command)
    BY <1>0, <2>2
    DEF Update, UpdateLocked, UpdateRefused, UpdateSavesCopy, UpdateRemovesEnd, UpdateSchedulesEnd,
        UpdateExtends, UpdaterType, Editing
  <2> QED
    BY <2>1, <2>2
<1>4. updater.endTime \in Nat
  BY <1>0 DEF UpdaterType
<1>5. row'.status \in {"PENDING", "ACTIVE"} \/ Opening' => row'.endTime >= EndTime
  BY <1>0, <1>1, <1>2, <1>4, LifecycleAssumption DEF SpansInv, Opening
<1>6. row'.price \in Nat /\ updater'.copy.price \in Nat
  BY <1>2, <1>3 DEF SpansInv
<1>7. Editing' => updater'.endTime >= EndTime
  <2>1. updater' \in UpdaterType
    BY UpdateTypes, Known DEF TypeInv, TypeOK, UpdaterType
  <2>2. updater'.endTime \in Nat
    BY <2>1 DEF UpdaterType
  <2> QED
    BY <1>0, <1>3, <1>4, <2>2, LifecycleAssumption DEF SpansInv
<1> QED
  BY <1>1, <1>5, <1>6, <1>7 DEF SpansInv, Opening, Reconciling

\* What the steps of the reconciliation do to the row and to their copy of it.
LEMMA BootMoves ==
  ASSUME TypeInv, Boot
  PROVE  /\ UNCHANGED <<clock, creator, canceler, updater, starter, ender>>
         /\ row'.endTime = row.endTime /\ row'.price = row.price
         /\ row'.status = row.status \/ row'.status = "ENDED"
         /\ \/ ~Reconciling' /\ boot'.copy.price \in {boot.copy.price, row.price, 0}
            \/ Reconciling /\ boot'.copy = boot.copy /\ boot'.now = boot.now
            \/ row.status = "ACTIVE" /\ boot'.copy = row /\ boot'.now = clock /\ boot'.pc = "check"
<1>0. row \in RowType /\ row.endTime \in Nat /\ boot \in BootType /\ clock \in Nat
  BY Known
<1>1. UNCHANGED <<clock, creator, canceler, updater, starter, ender>>
  BY DEF Boot, BootFinds, BootChecks, BootReadsBids, BootMarksEnded, BootRestores, BootSchedulesEnd,
         api, workers
<1>2. /\ row'.endTime = row.endTime /\ row'.price = row.price
      /\ row'.status = row.status \/ row'.status = "ENDED"
  BY <1>0
  DEF Boot, BootFinds, BootChecks, BootReadsBids, BootMarksEnded, BootRestores, BootSchedulesEnd,
      database, RowType
<1>3. \/ ~Reconciling' /\ boot'.copy.price \in {boot.copy.price, row.price, 0}
      \/ Reconciling /\ boot'.copy = boot.copy /\ boot'.now = boot.now
      \/ row.status = "ACTIVE" /\ boot'.copy = row /\ boot'.now = clock /\ boot'.pc = "check"
  <2>1. CASE BootFinds
    BY <1>0, <2>1 DEF BootFinds, Reconciling, BootType, IdleBoot, NoRow
  <2>2. CASE BootReadsBids
    <3>1. boot.pc = "bids" /\ boot'.copy = boot.copy /\ boot'.now = boot.now
      BY <1>0, <2>2 DEF BootReadsBids, BootType
    <3> QED
      BY <3>1 DEF Reconciling
  <2>4. CASE BootChecks
    BY <1>0, <2>4 DEF BootChecks, Reconciling, BootType, IdleBoot, NoRow
  <2>5. CASE BootRestores
    BY <1>0, <2>5 DEF BootRestores, Reconciling, BootType
  <2>3. CASE BootMarksEnded \/ BootSchedulesEnd
    BY <2>3 DEF BootMarksEnded, BootSchedulesEnd, Reconciling, IdleBoot, NoRow
  <2> QED
    BY <2>1, <2>2, <2>3, <2>4, <2>5 DEF Boot
<1> QED
  BY <1>1, <1>2, <1>3

LEMMA BootKeepsSpans ==
  ASSUME TypeInv, SpansInv, Boot
  PROVE  SpansInv'
<1>0. row \in RowType /\ row.endTime \in Nat /\ clock \in Nat
  BY Known
<1> QED
  BY <1>0, BootMoves DEF SpansInv, Opening, Editing, Reconciling

LEMMA NextKeepsSpans == TypeInv /\ SpansInv /\ [Next]_vars => SpansInv'
<1> SUFFICES ASSUME TypeInv, SpansInv, [Next]_vars PROVE SpansInv'
  OBVIOUS
<1>0. clock \in Nat /\ row \in RowType /\ row.endTime \in Nat
  BY Known
<1>1. CASE Create
  <2>1. UNCHANGED <<clock, updater, boot, workers>>
    BY <1>1 DEF Create, CreateSchedules, CreateFails, CreateCommits
  <2>2. \/ UNCHANGED row
        \/ row' = [status |-> "PENDING", price |-> StartPrice, winner |-> Null, endTime |-> EndTime]
    BY <1>1 DEF Create, CreateSchedules, CreateFails, CreateCommits, database
  <2> QED
    BY <2>1, <2>2, LifecycleAssumption DEF SpansInv, Opening, Reconciling, Editing, workers
<1>2. CASE Cancel
  <2>1. UNCHANGED <<clock, updater, boot, workers>>
    BY <1>2 DEF Cancel, CancelPrechecks, CancelCommits, CancelRefused, CancelRemovesStart,
                CancelRemovesEnd, CancelCleansUp, CancelDropsPrice
  <2>2. /\ row'.endTime = row.endTime /\ row'.price = row.price
        /\ row'.status \in {"PENDING", "ACTIVE"} => row.status = row'.status
    BY <1>0, <1>2
    DEF Cancel, CancelPrechecks, CancelCommits, CancelRefused, CancelRemovesStart, CancelRemovesEnd,
        CancelCleansUp, CancelDropsPrice, database, RowType
  <2> QED
    BY <2>1, <2>2 DEF SpansInv, Opening, Reconciling, Editing, workers
<1>3. CASE Crash
  <2>1. UNCHANGED <<clock, row>>
    BY <1>3 DEF Crash
  <2>2. /\ ~Opening' /\ ~Reconciling' /\ ~Editing' /\ ender'.pc = "idle"
        /\ boot'.copy.price = 0 /\ updater'.copy.price \in {0, updater.copy.price}
    BY <1>3 DEF Crash, IdleStarter, IdleEnder, IdleUpdater, IdleBoot, NoRow, Opening, Reconciling, Editing
  <2> QED
    BY <2>1, <2>2 DEF SpansInv
<1>4. CASE Tick
  <2>1. UNCHANGED <<row, updater, boot, starter, ender>> /\ clock' = clock + 1
    BY <1>4 DEF Tick, database, api, workers
  <2>2. Opening => starter.duration \in Int /\ starter.endTime \in Nat
    BY Known DEF StarterType
  <2>3. boot.now \in Nat
    BY Known DEF BootType
  <2> QED
    BY <1>0, <2>1, <2>2, <2>3, LifecycleAssumption DEF SpansInv, Opening, Reconciling, Editing
<1>5. CASE (\E b \in Bidders : PlaceBid(b) \/ SaveBid(b)) \/ UNCHANGED vars
  <2>1. UNCHANGED <<clock, row, updater, boot, starter, ender>>
    BY <1>5 DEF PlaceBid, SaveBid, vars, database, api, workers
  <2> QED
    BY <2>1 DEF SpansInv, Opening, Reconciling, Editing
<1> QED
  BY <1>1, <1>2, <1>3, <1>4, <1>5, StartKeepsSpans, EndKeepsSpans, UpdateKeepsSpans, BootKeepsSpans
  DEF Next

\* The hour by which price and owner outlive the active key is not over before
\* the run is, counted from the first end time.
BufferCovers == MaxTime + Second <= EndTime + Buffer

\* An active auction has a price and an owner, and they do not expire.
KeysStand ==
  /\ keys.price # Null <=> keys.owner # Null
  /\ keys.active => keys.price # Null
  /\ keys.price # Null => expiry.rest + Second > EndTime + Buffer

\* A cancelation that has committed may delete the price on its own.
KeysInv == Canceled \/ KeysStand

LEMMA InitKeys == Init => KeysInv
  BY DEF Init, KeysInv, KeysStand, NoKeys

\* What has committed stays committed.
LEMMA CanceledStays ==
  ASSUME [Next]_vars, Canceled
  PROVE  Canceled'
<1>1. CASE UNCHANGED canceler
  BY <1>1 DEF Canceled
<1>2. CASE Cancel
  BY <1>2 DEF Cancel, CancelPrechecks, CancelCommits, CancelRefused, CancelRemovesStart,
              CancelRemovesEnd, CancelCleansUp, CancelDropsPrice, Canceled
<1>3. CASE Crash
  BY <1>3 DEF Crash, Canceled
<1>4. CASE Create \/ Start \/ End
  BY <1>1, <1>4
  DEF Create, CreateSchedules, CreateFails, CreateCommits, Start, StartPicks, StartSkips, StartReads,
      StartMarksEnded, StartActivates, StartLostRow, StartInitializes, StartSchedulesEnd,
      StartCannotSchedule, StartRollsBack, StartThrows, End, EndPicks, EndSkips, EndReadsPrice,
      EndReadsBidder, EndCommits, EndCleansUp, EndNotifies, EndFinishes, EndThrows, api
<1>5. CASE Update \/ Boot
  BY <1>1, <1>5
  DEF Update, UpdateReads, UpdateLocked, UpdateRefused, UpdateSavesCopy, UpdateRemovesEnd,
      UpdateSchedulesEnd, UpdateExtends, Boot, BootFinds, BootChecks, BootReadsBids, BootMarksEnded,
      BootRestores, BootSchedulesEnd, api
<1>6. CASE Tick \/ (\E b \in Bidders : PlaceBid(b) \/ SaveBid(b)) \/ UNCHANGED vars
  BY <1>1, <1>6 DEF Tick, PlaceBid, SaveBid, vars, api
<1> QED
  BY <1>2, <1>3, <1>4, <1>5, <1>6 DEF Next

\* Until it has, a cancelation leaves the keys alone.
LEMMA CancelSparesKeys ==
  ASSUME Cancel, ~Canceled
  PROVE  UNCHANGED redis
  BY DEF Cancel, CancelPrechecks, CancelCommits, CancelRefused, CancelRemovesStart, CancelRemovesEnd,
         CancelCleansUp, CancelDropsPrice, Canceled

LEMMA StartKeepsKeys ==
  ASSUME TypeInv, SpansInv, KeysStand, Start
  PROVE  KeysStand'
<1>0. keys \in Keys /\ expiry \in ExpiryType /\ starter \in StarterType /\ clock \in Nat
  BY Known
<1>1. CASE UNCHANGED <<keys, expiry>>
  BY <1>1 DEF KeysStand
<1>2. CASE StartInitializes /\ keys' = Initialized(keys, StartPrice, Owner)
  <2>1. /\ keys'.active
        /\ keys'.price = IF keys.price = Null THEN StartPrice ELSE keys.price
        /\ keys'.owner = IF keys.owner = Null THEN Owner ELSE keys.owner
    BY <1>0, <1>2 DEF Initialized, Keys
  <2>2. StartPrice # Null /\ Owner # Null
    BY LifecycleAssumption, KeysAssumption
  <2>3. CASE keys.price = Null /\ expiry'.rest = Ttl(starter.duration).rest
    <3>1. Opening /\ starter.duration \in Int /\ starter.endTime \in Nat
      BY <1>0, <1>2 DEF StartInitializes, Opening, StarterType
    <3>2. Ttl(starter.duration).rest + Second > EndTime + Buffer
      BY <1>0, <3>1, LifecycleAssumption DEF Ttl, SpansInv
    <3> QED
      BY <2>1, <2>2, <2>3, <3>2 DEF KeysStand
  <2>4. CASE keys.price # Null /\ expiry'.rest = expiry.rest
    BY <2>1, <2>2, <2>4 DEF KeysStand
  <2>5. CASE UNCHANGED redis
    BY <2>5 DEF redis, KeysStand
  <2> QED
    BY <1>2, <2>3, <2>4, <2>5 DEF StartInitializes
<1> QED
  BY <1>1, <1>2
  DEF Start, StartPicks, StartSkips, StartReads, StartMarksEnded, StartActivates, StartLostRow,
      StartInitializes, StartSchedulesEnd, StartCannotSchedule, StartRollsBack, StartThrows, redis

LEMMA UpdateKeepsKeys ==
  ASSUME TypeInv, SpansInv, KeysStand, Update
  PROVE  KeysStand'
<1>0. /\ updater \in UpdaterType /\ updater.endTime \in Nat /\ clock \in Nat
  BY Known DEF UpdaterType
<1>1. CASE UNCHANGED redis
  BY <1>1 DEF KeysStand, redis
<1>2. CASE UpdateExtends
  <2>0. /\ Remaining(updater.endTime) \in Int
        /\ clock + Remaining(updater.endTime) + Second > updater.endTime
    BY <1>0, RemainingBounds, LifecycleAssumption
  <2>1. Ttl(Remaining(updater.endTime)).rest + Second > EndTime + Buffer
    BY <1>0, <1>2, <2>0, LifecycleAssumption DEF UpdateExtends, Ttl, SpansInv, Editing
  <2>2. UNCHANGED keys
    BY <1>2 DEF UpdateExtends
  <2>3. keys.price # Null =>
          expiry'.rest = Ttl(Remaining(updater.endTime)).rest \/ expiry'.rest = expiry.rest
    BY <1>2 DEF UpdateExtends
  <2> QED
    BY <2>1, <2>2, <2>3 DEF KeysStand
<1> QED
  BY <1>1, <1>2
  DEF Update, UpdateReads, UpdateLocked, UpdateRefused, UpdateSavesCopy, UpdateRemovesEnd,
      UpdateSchedulesEnd

LEMMA BootKeepsKeys ==
  ASSUME TypeInv, SpansInv, KeysStand, Boot
  PROVE  KeysStand'
<1>0. boot \in BootType /\ boot.copy.endTime \in Nat /\ boot.now \in Nat /\ clock \in Nat
  BY Known DEF BootType, RowType
<1>1. CASE UNCHANGED redis
  BY <1>1 DEF KeysStand, redis
<1>2. CASE /\ boot.pc = "restore"
           /\ keys' = Restored(keys, boot.copy.price, Owner, boot.bidder)
           /\ expiry' = Ttl(WholeSeconds(boot.copy.endTime - boot.now))
  <2>1. keys'.active /\ keys'.price = boot.copy.price /\ keys'.owner = Owner
    BY <1>2 DEF Restored
  <2>2. boot.copy.price # Null /\ Owner # Null
    BY LifecycleAssumption, KeysAssumption DEF SpansInv
  <2> DEFINE left == WholeSeconds(boot.copy.endTime - boot.now)
  <2>3. left \in Int /\ boot.copy.endTime - boot.now < left + Second
    BY <1>0, WholeSecondsBounds
  <2>4. expiry'.rest = clock + left + Buffer
    BY <1>2 DEF Ttl
  <2> HIDE DEF left
  <2>5. expiry'.rest + Second > EndTime + Buffer
    BY <1>0, <1>2, <2>3, <2>4, LifecycleAssumption DEF SpansInv, Reconciling
  <2> QED
    BY <2>1, <2>2, <2>5 DEF KeysStand
<1> QED
  BY <1>1, <1>2
  DEF Boot, BootFinds, BootChecks, BootReadsBids, BootMarksEnded, BootRestores, BootSchedulesEnd

\* What a bid that is accepted does: the price rises by at least the floor.
LEMMA BidRaises ==
  ASSUME TypeInv, NEW b \in Bidders, PlaceBid(b)
  PROVE  /\ keys.active /\ keys'.active /\ keys.owner # Null /\ keys'.owner = keys.owner
         /\ keys'.price \in Nat /\ keys'.price # Null
         /\ keys.price # Null => keys'.price > keys.price
         /\ keys'.bidder = b /\ UNCHANGED <<row, boot, expiry, starter, ender, updater>>
<1> DEFINE price == OrZero(keys.price)
           amount == price + CalcMinIncrement(price)
<1>0. keys \in Keys
  BY Known
<1>1. price \in Nat /\ (keys.price # Null => price = keys.price)
  BY <1>0 DEF OrZero, Keys, Price
<1>2. CalcMinIncrement(price) \in Nat /\ CalcMinIncrement(price) >= MinAbsolute
  <2>1. price * Percent \in Nat
    BY <1>1, KeysAssumption
  <2> DEFINE computed == (price * Percent + 99) \div 100
  <2>2. computed \in Nat
    BY <2>1
  <2> HIDE DEF price
  <2> QED
    BY <2>2, KeysAssumption DEF CalcMinIncrement
<1>3. /\ keys.owner # Null
      /\ BidVerdict(keys, b, amount, CalcMinIncrement(price)) = "ACCEPTED"
      /\ keys' = AfterBid(keys, b, amount)
      /\ UNCHANGED <<row, boot, expiry, starter, ender, updater>>
  BY DEF PlaceBid, api, workers
<1> HIDE DEF price
<1>4. amount \in Nat /\ amount > price
  BY <1>1, <1>2, KeysAssumption
<1> HIDE DEF amount
<1>5. keys.active
  BY <1>3 DEF BidVerdict
<1>6. /\ keys'.active /\ keys'.price = amount /\ keys'.bidder = b /\ keys'.owner = keys.owner
  BY <1>0, <1>3, <1>5 DEF AfterBid, Keys
<1> QED
  BY <1>1, <1>3, <1>4, <1>5, <1>6, KeysAssumption

LEMMA TickKeepsKeys ==
  ASSUME BufferCovers, TypeInv, KeysStand, Tick
  PROVE  /\ KeysStand' /\ keys'.price = keys.price /\ keys'.owner = keys.owner
         /\ keys'.bidder = keys.bidder
<1>0. keys \in Keys /\ expiry \in ExpiryType /\ clock \in 0..MaxTime
  BY Known DEF TypeInv, TypeOK
<1>1. clock + 1 <= MaxTime /\ clock \in Nat /\ expiry.rest \in Nat
  BY <1>0, LifecycleAssumption DEF Tick, ExpiryType
<1>2. keys.price # Null => expiry.rest > clock + 1
  BY <1>1, LifecycleAssumption DEF KeysStand, BufferCovers
<1>3. /\ keys'.price = keys.price /\ keys'.owner = keys.owner /\ keys'.bidder = keys.bidder
      /\ keys'.active => keys.active
  BY <1>0, <1>2 DEF Tick, Keys, KeysStand
<1> QED
  BY <1>3 DEF Tick, KeysStand

LEMMA NextKeepsKeys ==
  ASSUME BufferCovers, TypeInv, SpansInv, KeysInv, [Next]_vars
  PROVE  KeysInv'
<1>0. CASE Canceled
  BY <1>0, CanceledStays DEF KeysInv
<1> SUFFICES ASSUME ~Canceled PROVE KeysStand'
  BY <1>0 DEF KeysInv
<1>1. KeysStand
  BY DEF KeysInv
<1>2. CASE UNCHANGED redis
  BY <1>1, <1>2 DEF redis, KeysStand
<1>3. CASE Create \/ Cancel \/ UNCHANGED vars \/ \E b \in Bidders : SaveBid(b)
  BY <1>2, <1>3, CancelSparesKeys DEF Create, CreateSchedules, CreateFails, CreateCommits, SaveBid, vars
<1>4. CASE End
  BY <1>1, <1>4
  DEF End, EndPicks, EndSkips, EndReadsPrice, EndReadsBidder, EndCommits, EndCleansUp, EndNotifies,
      EndFinishes, EndThrows, redis, NoKeys, KeysStand
<1>5. CASE Crash
  BY <1>1, <1>5 DEF Crash, KeysStand, NoKeys
<1>6. ASSUME NEW b \in Bidders, PlaceBid(b) PROVE KeysStand'
  BY <1>1, <1>6, BidRaises DEF KeysStand
<1> QED
  BY <1>1, <1>3, <1>4, <1>5, <1>6, StartKeepsKeys, UpdateKeepsKeys, BootKeepsKeys, TickKeepsKeys
  DEF Next

\* A step that leaves an active auction active, other than the restore of the
\* reconciliation, a bid and the deletions of a cancelation, leaves price and bidder alone.
LEMMA PriceStays ==
  ASSUME BufferCovers, TypeInv, KeysStand, [Next]_vars, keys.active, keys'.active, ~Canceled,
         boot.pc # "restore", ~\E b \in Bidders : PlaceBid(b)
  PROVE  keys'.price = keys.price /\ keys'.bidder = keys.bidder
<1>0. keys \in Keys /\ keys.price # Null
  BY Known DEF KeysStand
<1>1. CASE UNCHANGED keys
  BY <1>1
<1>2. CASE keys' = NoKeys
  BY <1>2 DEF NoKeys
<1>3. CASE keys' = Initialized(keys, StartPrice, Owner)
  BY <1>0, <1>3 DEF Initialized, Keys
<1>4. CASE Tick
  BY <1>4, TickKeepsKeys
<1>5. CASE Start
  BY <1>1, <1>3, <1>5
  DEF Start, StartPicks, StartSkips, StartReads, StartMarksEnded, StartActivates, StartLostRow,
      StartInitializes, StartSchedulesEnd, StartCannotSchedule, StartRollsBack, StartThrows, redis
<1>6. CASE End \/ Cancel
  BY <1>1, <1>2, <1>6, CancelSparesKeys
  DEF End, EndPicks, EndSkips, EndReadsPrice, EndReadsBidder, EndCommits, EndCleansUp, EndNotifies,
      EndFinishes, EndThrows, redis
<1>7. CASE Update \/ Boot
  BY <1>1, <1>7
  DEF Update, UpdateReads, UpdateLocked, UpdateRefused, UpdateSavesCopy, UpdateRemovesEnd,
      UpdateSchedulesEnd, UpdateExtends, Boot, BootFinds, BootChecks, BootReadsBids, BootMarksEnded,
      BootRestores, BootSchedulesEnd, redis
<1>8. CASE Create \/ Crash \/ UNCHANGED vars \/ \E b \in Bidders : SaveBid(b)
  BY <1>1, <1>2, <1>8
  DEF Create, CreateSchedules, CreateFails, CreateCommits, Crash, SaveBid, vars, redis
<1> QED
  BY <1>4, <1>5, <1>6, <1>7, <1>8 DEF Next

\* Whatever fails, crashes, is retried or extended, the price people bid on does
\* not fall while the auction is active, and the lead changes with a higher price
\* only, until a cancelation has committed: that one deletes the price, and may
\* meet an auction that is just being opened.  The restore of the reconciliation
\* is excepted.
THEOREM LivePriceStands ==
  ASSUME BufferCovers
  PROVE  Spec => LivePriceNeverFalls
<1> DEFINE Inv == TypeInv /\ SpansInv /\ KeysInv
           Stands == keys.active /\ keys'.active /\ ~Canceled /\ boot.pc # "restore" =>
                       /\ keys'.price >= keys.price
                       /\ keys'.bidder # keys.bidder => keys'.price > keys.price
<1>1. Init => Inv
  BY InitIsTyped, InitSpans, InitKeys
<1>2. Inv /\ [Next]_vars => Inv'
  BY NextTypes, NextKeepsSpans, NextKeepsKeys
<1>3. ASSUME Inv, [Next]_vars PROVE Stands
  <2> SUFFICES ASSUME keys.active, keys'.active, ~Canceled, boot.pc # "restore"
               PROVE  /\ keys'.price >= keys.price
                      /\ keys'.bidder # keys.bidder => keys'.price > keys.price
    OBVIOUS
  <2>0. KeysStand
    BY <1>3 DEF KeysInv
  <2>1. keys.price \in Nat
    BY <1>3, <2>0, Known DEF KeysStand, Keys, Price
  <2>2. CASE \E b \in Bidders : PlaceBid(b)
    <3>1. PICK b \in Bidders : PlaceBid(b)
      BY <2>2
    <3>2. keys'.price \in Nat /\ keys'.price > keys.price
      BY <1>3, <2>0, <3>1, BidRaises DEF KeysStand
    <3> QED
      BY <2>1, <3>2
  <2>3. CASE ~\E b \in Bidders : PlaceBid(b)
    BY <1>3, <2>0, <2>1, <2>3, PriceStays
  <2> QED
    BY <2>2, <2>3
<1>4. Inv /\ [Next]_vars => [Stands]_vars
  BY <1>3
<1> HIDE DEF Inv, Stands
<1>5. Spec => [][Stands]_vars
  BY <1>1, <1>2, <1>4, PTL DEF Spec
<1> QED
  BY <1>5 DEF LivePriceNeverFalls, Stands

-----------------------------------------------------------------------------
(* The reconciliation restores the bidder of the best row. *)

HasLead(bidder) ==
  IF Rows = {} THEN bidder = Null
  ELSE bidder \in Rows /\ \A b \in Rows : bids[b].amount <= bids[bidder].amount

\* While the server boots no insert of a bid is left over, so what has been
\* read from the bids table stays what the table says.
LeaderInv ==
  /\ boot.pc # "idle" => \A b \in Bidders : bids[b].state # "saving"
  /\ boot.pc \in {"markEnded", "restore"} => HasLead(boot.bidder)

LEMMA InitLeader == Init => LeaderInv
  BY DEF Init, LeaderInv, IdleBoot

\* Other steps than bids and crashes leave the bids alone.
LEMMA BidsStay ==
  ASSUME [Next]_vars, ~Crash, ~\E b \in Bidders : PlaceBid(b) \/ SaveBid(b)
  PROVE  bids' = bids
<1>1. CASE Create \/ Start
  BY <1>1
  DEF Create, CreateSchedules, CreateFails, CreateCommits, Start, StartPicks, StartSkips, StartReads,
      StartMarksEnded, StartActivates, StartLostRow, StartInitializes, StartSchedulesEnd,
      StartCannotSchedule, StartRollsBack, StartThrows, database
<1>2. CASE End \/ Cancel
  BY <1>2
  DEF End, EndPicks, EndSkips, EndReadsPrice, EndReadsBidder, EndCommits, EndCleansUp, EndNotifies,
      EndFinishes, EndThrows, Cancel, CancelPrechecks, CancelCommits, CancelRefused,
      CancelRemovesStart, CancelRemovesEnd, CancelCleansUp, CancelDropsPrice, database
<1>3. CASE Update \/ Boot
  BY <1>3
  DEF Update, UpdateReads, UpdateLocked, UpdateRefused, UpdateSavesCopy, UpdateRemovesEnd,
      UpdateSchedulesEnd, UpdateExtends, Boot, BootFinds, BootChecks, BootReadsBids, BootMarksEnded,
      BootRestores, BootSchedulesEnd, database
<1>4. CASE Tick \/ UNCHANGED vars
  BY <1>4 DEF Tick, vars, database
<1> QED
  BY <1>1, <1>2, <1>3, <1>4 DEF Next

\* Only the reconciliation and a crash move the reconciliation.
LEMMA BootActs ==
  ASSUME [Next]_vars, ~Crash, boot' # boot
  PROVE  Boot
  BY DEF Next, Create, CreateSchedules, CreateFails, CreateCommits, Start, StartPicks, StartSkips,
         StartReads, StartMarksEnded, StartActivates, StartLostRow, StartInitializes,
         StartSchedulesEnd, StartCannotSchedule, StartRollsBack, StartThrows,
         End, EndPicks, EndSkips, EndReadsPrice, EndReadsBidder, EndCommits, EndCleansUp,
         EndNotifies, EndFinishes, EndThrows, Cancel, CancelPrechecks, CancelCommits, CancelRefused,
         CancelRemovesStart, CancelRemovesEnd, CancelCleansUp, CancelDropsPrice,
         Update, UpdateReads, UpdateLocked, UpdateRefused, UpdateSavesCopy, UpdateRemovesEnd,
         UpdateSchedulesEnd, UpdateExtends, Tick, PlaceBid, SaveBid, vars

LEMMA BootChoosesLead ==
  ASSUME TypeInv, [Next]_vars, ~Crash, boot' # boot
  PROVE  /\ boot.pc # "idle"
         /\ boot'.pc \in {"markEnded", "restore"} => HasLead(boot'.bidder)
<1>0. boot \in BootType
  BY Known
<1>1. Boot
  BY BootActs
<1>2. CASE BootReadsBids
  <2>1. PICK bidder \in UserOrNull : HasLead(bidder) /\ boot'.bidder = bidder
    BY <1>0, <1>2 DEF BootReadsBids, BootType, HasLead
  <2> QED
    BY <1>2, <2>1 DEF BootReadsBids
<1>3. CASE BootFinds
  BY <1>0, <1>3 DEF BootFinds, BootType, IdleBoot
<1>4. CASE BootChecks \/ BootMarksEnded \/ BootSchedulesEnd
  BY <1>0, <1>4 DEF BootChecks, BootMarksEnded, BootSchedulesEnd, BootType, IdleBoot
<1>5. CASE BootRestores
  BY <1>0, <1>5 DEF BootRestores, BootType
<1> QED
  BY <1>1, <1>2, <1>3, <1>4, <1>5 DEF Boot

LEMMA NextKeepsLeader == TypeInv /\ LeaderInv /\ [Next]_vars => LeaderInv'
<1> SUFFICES ASSUME TypeInv, LeaderInv, [Next]_vars PROVE LeaderInv'
  OBVIOUS
<1> DEFINE BidType == [state : {"none", "saving", "saved", "lost"}, amount : Nat]
<1>0. bids \in [Bidders -> BidType]
  BY DEF TypeInv, TypeOK
<1>1. CASE Crash
  <2>1. ASSUME NEW b \in Bidders PROVE bids'[b].state # "saving"
    <3>1. bids'[b] = IF bids[b].state = "saving" THEN [bids[b] EXCEPT !.state = "lost"] ELSE bids[b]
      BY <1>1 DEF Crash
    <3>2. bids[b] \in BidType
      BY <1>0
    <3> QED
      BY <3>1, <3>2
  <2>2. boot'.pc = "find"
    BY <1>1 DEF Crash, IdleBoot
  <2> QED
    BY <2>1, <2>2 DEF LeaderInv
<1>2. CASE \E b \in Bidders : PlaceBid(b)
  BY <1>2 DEF PlaceBid, Serving, LeaderInv
<1>3. CASE \E b \in Bidders : SaveBid(b)
  <2>1. boot.pc = "idle" /\ boot' = boot
    BY <1>3 DEF SaveBid, LeaderInv
  <2> QED
    BY <2>1 DEF LeaderInv
<1>4. CASE ~Crash /\ ~\E b \in Bidders : PlaceBid(b) \/ SaveBid(b)
  <2>1. bids' = bids
    BY <1>4, BidsStay
  <2>2. CASE boot' = boot
    BY <2>1, <2>2 DEF LeaderInv, HasLead, Rows
  <2>3. CASE boot' # boot
    <3>1. boot'.pc \in {"markEnded", "restore"} => HasLead(boot'.bidder)
      BY <1>4, <2>3, BootChoosesLead
    <3>2. boot.pc # "idle"
      BY <1>4, <2>3, BootChoosesLead
    <3> QED
      BY <2>1, <3>1, <3>2 DEF LeaderInv, HasLead, Rows
  <2> QED
    BY <2>2, <2>3
<1> QED
  BY <1>1, <1>2, <1>3, <1>4

\* For any number of bidders, and whatever the crash or the Redis it took down
\* has left in the bidder key, the reconciliation gives the lead to the bidder
\* of the highest saved bid.
THEOREM LeadIsRestored == Spec => BootRestoresLeader
<1> DEFINE Inv == TypeInv /\ LeaderInv
           Restores == boot.pc = "restore" /\ boot'.pc = "scheduleEnd" /\ keys' # keys /\ Rows # {} =>
                         /\ keys'.bidder \in Rows
                         /\ \A b \in Rows : bids[b].amount <= bids[keys'.bidder].amount
<1>1. Init => Inv
  BY InitIsTyped, InitLeader
<1>2. Inv /\ [Next]_vars => Inv'
  BY NextTypes, NextKeepsLeader
<1>3. ASSUME Inv, [Next]_vars PROVE Restores
  <2> SUFFICES ASSUME boot.pc = "restore", boot'.pc = "scheduleEnd", keys' # keys, Rows # {}
               PROVE  /\ keys'.bidder \in Rows
                      /\ \A b \in Rows : bids[b].amount <= bids[keys'.bidder].amount
    OBVIOUS
  <2>0. boot \in BootType /\ HasLead(boot.bidder)
    BY <1>3, Known DEF LeaderInv
  <2>1. keys' = Restored(keys, boot.copy.price, Owner, boot.bidder)
    <3>1. boot' # boot /\ ~Crash
      BY <2>0 DEF Crash, IdleBoot, BootType
    <3>2. Boot
      BY <1>3, <3>1, BootActs
    <3> QED
      BY <3>2 DEF Boot, BootFinds, BootChecks, BootReadsBids, BootMarksEnded, BootRestores,
                  BootSchedulesEnd, redis
  <2>2. boot.bidder \in Rows /\ \A b \in Rows : bids[b].amount <= bids[boot.bidder].amount
    BY <2>0 DEF HasLead
  <2>3. boot.bidder # Null
    BY <2>2, LifecycleAssumption, KeysAssumption DEF Rows
  <2>4. keys'.bidder = boot.bidder
    BY <2>1, <2>3 DEF Restored
  <2> QED
    BY <2>2, <2>4
<1>4. Inv /\ [Next]_vars => [Restores]_vars
  BY <1>3
<1> HIDE DEF Inv, Restores
<1>5. Spec => [][Restores]_vars
  BY <1>1, <1>2, <1>4, PTL DEF Spec
<1> QED
  BY <1>5, PTL DEF BootRestoresLeader, Restores

-----------------------------------------------------------------------------
(* An active auction ends when its row says. *)

\* Nobody asks for another end time, and no write to the keys or the queue
\* fails.  Commits, processors and the server itself still may.
EndIsFixed ==
  /\ Commands \subseteq {"cancel"}
  /\ ~Fault("queue_fails") /\ ~Fault("redis_fails")

\* Every time that was computed from the row, and the delay of the end job, is
\* that of the one end time.
TimesInv ==
  /\ row.status \in {"PENDING", "ACTIVE"} => row.endTime = EndTime
  /\ Opening => starter.endTime = EndTime /\ clock + starter.duration + Second > EndTime
  /\ Reconciling => boot.copy.endTime = EndTime /\ boot.now <= clock
  /\ boot.pc = "markEnded" => clock + Second > EndTime
  /\ endJob.state # "none" => endJob.due = EndTime \/ (EndTime < endJob.due /\ endJob.due <= clock)
  /\ ender.pc # "idle" => clock >= EndTime
  /\ keys.active => expiry.active + Second > EndTime

\* Until a second before its end time an active auction is open for bids, or
\* somebody is on the way to open it.
OpenInv ==
  /\ canceler \in {"removeEnd", "cleanup"} => row.status \in {"CANCELED", "ENDED"}
  /\ row.status = "ACTIVE" /\ clock + Second <= EndTime =>
       keys.active \/ starter.pc = "init" \/ boot.pc \in {"find", "check", "bids", "restore"}

EndInv == JobsInv /\ RecordInv /\ TimesInv /\ OpenInv

LEMMA FixedWriteBack == EndIsFixed => NoWriteBack
  BY DEF EndIsFixed, NoWriteBack

LEMMA InitEnd == Init => EndInv
<1>1. Init => TimesInv
  BY DEF Init, TimesInv, NoRow, IdleBoot, IdleEnder, IdleStarter, NoJob, NoKeys, Opening, Reconciling
<1>2. Init => OpenInv
  BY DEF Init, OpenInv, NoRow
<1> QED
  BY <1>1, <1>2, InitJobs, InitRecord DEF EndInv

\* A job scheduled for the end time runs then, or now if that is over.
LEMMA EnqueuedAtEnd ==
  ASSUME clock \in Nat, NEW job, job.state # "none" => job.due = EndTime \/ (EndTime < job.due /\ job.due <= clock)
  PROVE  LET after == Enqueued(job, EndTime)
         IN  after.due = EndTime \/ (EndTime < after.due /\ after.due <= clock)
  BY LifecycleAssumption DEF Enqueued

LEMMA StartKeepsEnd ==
  ASSUME EndIsFixed, TypeInv, EndInv, Start
  PROVE  TimesInv' /\ OpenInv'
<1>0. /\ starter \in StarterType /\ row \in RowType /\ row.endTime \in Nat /\ keys \in Keys
      /\ endJob \in JobType /\ clock \in Nat /\ starter.pc # "rollback"
  BY Known DEF EndInv, RecordInv, NobodyUndoes
<1>1. endJob' = endJob \/ (Opening /\ endJob' = Enqueued(endJob, starter.endTime))
  BY DEF Start, StartPicks, StartSkips, StartReads, StartMarksEnded, StartActivates, StartLostRow,
         StartInitializes, StartSchedulesEnd, StartCannotSchedule, StartRollsBack, StartThrows, jobs,
         Opening
<1>2. endJob'.state # "none" => endJob'.due = EndTime \/ (EndTime < endJob'.due /\ endJob'.due <= clock)
  <2>1. endJob' = endJob \/ endJob' = Enqueued(endJob, EndTime)
    BY <1>1 DEF EndInv, TimesInv
  <2> QED
    BY <1>0, <2>1, EnqueuedAtEnd DEF EndInv, TimesInv
<1>3. \/ UNCHANGED redis
      \/ /\ starter.pc = "init" /\ keys'.active
         /\ expiry'.active = IF keys.active THEN expiry.active ELSE clock + starter.duration
  <2>1. CASE StartInitializes
    <3>1. /\ starter.pc = "init" /\ keys' = Initialized(keys, StartPrice, Owner)
          /\ expiry'.active = IF keys.active THEN expiry.active ELSE Ttl(starter.duration).active
      BY <2>1 DEF StartInitializes, EndIsFixed
    <3>2. Ttl(starter.duration).active = clock + starter.duration
      BY DEF Ttl
    <3>3. Initialized(keys, StartPrice, Owner).active
      BY <1>0 DEF Initialized, Keys
    <3> QED
      BY <3>1, <3>2, <3>3
  <2>2. CASE ~StartInitializes
    BY <2>2 DEF Start, StartPicks, StartSkips, StartReads, StartMarksEnded, StartActivates,
         StartLostRow, StartSchedulesEnd, StartCannotSchedule, StartRollsBack, StartThrows
  <2> QED
    BY <2>1, <2>2
<1>4. keys'.active => expiry'.active + Second > EndTime
  <2>1. starter.pc = "init" => clock + starter.duration + Second > EndTime
    BY DEF EndInv, TimesInv, Opening
  <2> QED
    BY <1>3, <2>1 DEF EndInv, TimesInv, redis
<1>5. Opening' => starter'.endTime = EndTime /\ clock + starter'.duration + Second > EndTime
  <2>1. clock + Remaining(row.endTime) + Second > row.endTime
    BY <1>0, RemainingBounds, LifecycleAssumption
  <2> QED
    BY <1>0, <2>1, StartMoves, LifecycleAssumption DEF EndInv, TimesInv
<1>6. TimesInv'
  BY <1>0, <1>2, <1>4, <1>5, StartMoves DEF EndInv, TimesInv, Reconciling
<1>7. OpenInv'
  <2>1. starter.pc = "init" => keys'.active
    <3>1. CASE starter.pc = "init"
      <4>1. StartInitializes
        BY <3>1
        DEF Start, StartPicks, StartSkips, StartReads, StartMarksEnded, StartActivates, StartLostRow,
            StartSchedulesEnd, StartCannotSchedule, StartRollsBack, StartThrows
      <4> QED
        BY <1>0, <4>1 DEF StartInitializes, EndIsFixed, Initialized, Keys
    <3> QED
      BY <3>1
  <2> QED
    BY <1>0, <1>3, <2>1, StartMoves DEF EndInv, OpenInv, redis
<1> QED
  BY <1>6, <1>7

LEMMA EndKeepsEnd ==
  ASSUME EndIsFixed, TypeInv, EndInv, End
  PROVE  TimesInv' /\ OpenInv'
<1>0. ender \in EnderType /\ row \in RowType /\ keys \in Keys /\ endJob \in JobType /\ clock \in Nat
  BY Known
<1>1. UNCHANGED <<clock, expiry, canceler, starter, boot>>
  BY DEF End, EndPicks, EndSkips, EndReadsPrice, EndReadsBidder, EndCommits, EndCleansUp, EndNotifies,
         EndFinishes, EndThrows, api, redis
<1>2. clock >= EndTime
  <2>1. CASE EndPicks
    BY <1>0, <2>1, LifecycleAssumption DEF EndPicks, Due, EndInv, TimesInv, JobType
  <2>2. CASE ~EndPicks
    BY <2>2 DEF End, EndSkips, EndReadsPrice, EndReadsBidder, EndCommits, EndCleansUp, EndNotifies,
                EndFinishes, EndThrows, EndInv, TimesInv
  <2> QED
    BY <2>1, <2>2
<1>3. row' = row \/ row'.status = "ENDED"
  BY <1>0 DEF End, EndPicks, EndSkips, EndReadsPrice, EndReadsBidder, EndCommits, EndCleansUp,
              EndNotifies, EndFinishes, EndThrows, database, RowType
<1>4. keys' = keys \/ ~keys'.active
  BY DEF End, EndPicks, EndSkips, EndReadsPrice, EndReadsBidder, EndCommits, EndCleansUp,
         EndNotifies, EndFinishes, EndThrows, redis, NoKeys
<1>5. endJob'.state # "none" => endJob'.due \in {clock, endJob.due} /\ endJob.state # "none"
  <2>1. CASE EndPicks
    BY <1>0, <2>1, JobStates DEF EndPicks, Due
  <2>2. CASE EndThrows
    <3>1. endJob.state = "active"
      BY <1>0, <2>2 DEF EndThrows, EndInv, JobsInv, JobType
    <3>2. Retried(endJob).due \in {clock, endJob.due}
      BY <1>0 DEF Retried, JobType
    <3> QED
      BY <2>2, <3>1, <3>2 DEF EndThrows
  <2>3. CASE EndSkips \/ EndFinishes
    BY <2>3 DEF EndSkips, EndFinishes, EndDone, NoJob
  <2> QED
    BY <2>1, <2>2, <2>3
    DEF End, EndReadsPrice, EndReadsBidder, EndCommits, EndCleansUp, EndNotifies, jobs
<1> QED
  BY <1>0, <1>1, <1>2, <1>3, <1>4, <1>5, LifecycleAssumption
  DEF EndInv, TimesInv, OpenInv, Opening, Reconciling

LEMMA CancelKeepsEnd ==
  ASSUME EndIsFixed, TypeInv, EndInv, Cancel
  PROVE  TimesInv' /\ OpenInv'
<1>0. row \in RowType /\ keys \in Keys /\ creator = "done"
  BY Known DEF Cancel, CancelPrechecks, CancelCommits, CancelRefused, CancelRemovesStart,
               CancelRemovesEnd, CancelCleansUp, CancelDropsPrice, EndInv, RecordInv, EarlyInv
<1>1. UNCHANGED <<clock, expiry, starter, ender, boot>>
  BY DEF Cancel, CancelPrechecks, CancelCommits, CancelRefused, CancelRemovesStart,
         CancelRemovesEnd, CancelCleansUp, CancelDropsPrice, redis, workers
<1>2. endJob' \in {endJob, NoJob}
  BY DEF Cancel, CancelPrechecks, CancelCommits, CancelRefused, CancelRemovesStart,
         CancelRemovesEnd, CancelCleansUp, CancelDropsPrice, jobs
<1>3. \/ UNCHANGED <<row, keys>> /\ (canceler' \in {"removeEnd", "cleanup"} => canceler = "removeEnd")
      \/ UNCHANGED keys /\ row'.status = "CANCELED"
      \/ canceler = "cleanup" /\ row' = row /\ ~keys'.active /\ canceler' = "dropPrice"
      \/ canceler = "dropPrice" /\ row' = row /\ keys'.active = keys.active /\ canceler' = "done"
  <2>1. CASE CancelDropsPrice
    BY <1>0, <2>1 DEF CancelDropsPrice, database, EndIsFixed, Keys
  <2> QED
    BY <1>0, <2>1
    DEF Cancel, CancelPrechecks, CancelCommits, CancelRefused, CancelRemovesStart, CancelRemovesEnd,
        CancelCleansUp, redis, database, EndIsFixed, RowType, NoKeys
<1> QED
  BY <1>0, <1>1, <1>2, <1>3 DEF EndInv, TimesInv, OpenInv, Opening, Reconciling, NoJob

LEMMA BootKeepsEnd ==
  ASSUME EndIsFixed, TypeInv, EndInv, Boot
  PROVE  TimesInv' /\ OpenInv'
<1>0. /\ boot \in BootType /\ boot.copy.endTime \in Nat /\ boot.now \in Nat
      /\ row \in RowType /\ keys \in Keys /\ endJob \in JobType /\ clock \in Nat
  BY Known DEF BootType, RowType
<1> DEFINE left == WholeSeconds(boot.copy.endTime - boot.now)
<1>0a. left \in Int /\ left <= boot.copy.endTime - boot.now /\ boot.copy.endTime - boot.now < left + Second
  BY <1>0, WholeSecondsBounds
<1>1. endJob' = endJob \/ (Reconciling /\ endJob' = Enqueued(endJob, boot.copy.endTime))
  BY DEF Boot, BootFinds, BootChecks, BootReadsBids, BootMarksEnded, BootRestores, BootSchedulesEnd,
         jobs, Reconciling
<1>2. endJob'.state # "none" => endJob'.due = EndTime \/ (EndTime < endJob'.due /\ endJob'.due <= clock)
  <2>1. endJob' = endJob \/ endJob' = Enqueued(endJob, EndTime)
    BY <1>1 DEF EndInv, TimesInv
  <2> QED
    BY <1>0, <2>1, EnqueuedAtEnd DEF EndInv, TimesInv
<1>3. \/ UNCHANGED redis
      \/ keys'.active /\ Reconciling /\ expiry'.active = clock + left
  <2>1. CASE BootRestores
    <3>1. /\ boot.pc = "restore" /\ keys' = Restored(keys, boot.copy.price, Owner, boot.bidder)
          /\ expiry' = Ttl(left)
      BY <2>1 DEF BootRestores, EndIsFixed
    <3> QED
      BY <3>1 DEF Restored, Ttl, Reconciling
  <2>2. CASE ~BootRestores
    BY <2>2 DEF Boot, BootFinds, BootChecks, BootReadsBids, BootMarksEnded, BootSchedulesEnd
  <2> QED
    BY <2>1, <2>2
<1>4. boot'.pc = "markEnded" => clock + Second > EndTime
  <2>1. CASE BootReadsBids
    <3>1. boot'.pc = "markEnded" => left <= 0
      BY <1>0, <2>1 DEF BootReadsBids, BootType
    <3>2. Reconciling
      BY <2>1 DEF BootReadsBids, Reconciling
    <3> HIDE DEF left
    <3> QED
      BY <1>0, <1>0a, <3>1, <3>2, LifecycleAssumption DEF EndInv, TimesInv
  <2>2. CASE BootFinds
    BY <1>0, <2>2 DEF BootFinds, BootType, IdleBoot
  <2>4. CASE BootChecks
    BY <1>0, <2>4 DEF BootChecks, BootType, IdleBoot
  <2>3. CASE BootMarksEnded \/ BootRestores \/ BootSchedulesEnd
    BY <1>0, <2>3 DEF BootMarksEnded, BootRestores, BootSchedulesEnd, BootType, IdleBoot
  <2> QED
    BY <2>1, <2>2, <2>3, <2>4 DEF Boot
<1> HIDE DEF left
<1>5. TimesInv'
  BY <1>0, <1>0a, <1>2, <1>3, <1>4, BootMoves, LifecycleAssumption
  DEF EndInv, TimesInv, Opening, Reconciling, redis
<1>6. OpenInv'
  <2>1. CASE BootFinds
    BY <1>0, <2>1 DEF BootFinds, BootType, IdleBoot, EndInv, OpenInv, database, redis, api, workers
  <2>2. CASE BootChecks
    BY <1>0, <2>2 DEF BootChecks, BootType, IdleBoot, EndInv, OpenInv, database, redis, api, workers
  <2>3. CASE BootReadsBids
    <3>1. boot'.pc = "restore" \/ clock + Second > EndTime
      BY <1>0, <1>4, <2>3 DEF BootReadsBids, BootType
    <3> QED
      BY <1>0, <2>3, <3>1, LifecycleAssumption
      DEF BootReadsBids, EndInv, OpenInv, database, redis, api, workers
  <2>4. CASE BootMarksEnded
    BY <1>0, <2>4 DEF BootMarksEnded, EndInv, OpenInv, RowType, api
  <2>5. CASE BootRestores
    BY <1>0, <2>5
    DEF BootRestores, EndInv, OpenInv, EndIsFixed, Restored, database, api
  <2>6. CASE BootSchedulesEnd
    BY <1>0, <2>6 DEF BootSchedulesEnd, EndInv, OpenInv, database, redis, api, workers
  <2> QED
    BY <2>1, <2>2, <2>3, <2>4, <2>5, <2>6 DEF Boot
<1> QED
  BY <1>5, <1>6

LEMMA NextKeepsEnd ==
  ASSUME EndIsFixed
  PROVE  TypeInv /\ EndInv /\ [Next]_vars => EndInv'
<1> SUFFICES ASSUME TypeInv, EndInv, [Next]_vars PROVE EndInv'
  OBVIOUS
<1>0. /\ row \in RowType /\ keys \in Keys /\ endJob \in JobType /\ clock \in Nat
      /\ starter \in StarterType /\ boot \in BootType /\ expiry \in ExpiryType
  BY Known
<1> SUFFICES TimesInv' /\ OpenInv'
  BY NextKeepsJobs, NextKeepsRecord, FixedWriteBack DEF EndInv
<1>1. CASE Create
  <2>1. UNCHANGED <<clock, redis, endJob, canceler, workers, boot>>
    BY <1>1 DEF Create, CreateSchedules, CreateFails, CreateCommits, jobs
  <2>2. canceler = "idle"
    BY <1>1 DEF Create, CreateSchedules, CreateFails, CreateCommits, EndInv, RecordInv, EarlyInv
  <2>3. \/ UNCHANGED row
        \/ row' = [status |-> "PENDING", price |-> StartPrice, winner |-> Null, endTime |-> EndTime]
    BY <1>1 DEF Create, CreateSchedules, CreateFails, CreateCommits, database
  <2> QED
    BY <2>1, <2>2, <2>3 DEF EndInv, TimesInv, OpenInv, Opening, Reconciling, redis, workers
<1>2. CASE Update
  <2>1. updater.pc = "idle" \/ updater.pc = "done"
    BY DEF EndInv, RecordInv, NobodyUndoes
  <2> QED
    BY <1>2, <2>1
    DEF Update, UpdateReads, UpdateLocked, UpdateRefused, UpdateSavesCopy, UpdateRemovesEnd,
        UpdateSchedulesEnd, UpdateExtends, EndIsFixed
<1>3. CASE Crash
  <2>1. /\ UNCHANGED <<clock, row, expiry>> /\ ~Opening' /\ ~Reconciling'
        /\ ender'.pc = "idle" /\ boot'.pc = "find" /\ canceler' \notin {"removeEnd", "cleanup"}
        /\ keys' = keys \/ ~keys'.active
    BY <1>3 DEF Crash, IdleStarter, IdleEnder, IdleBoot, NoKeys, Opening, Reconciling
  <2>2. endJob' = NoJob \/ endJob' = Stalled(endJob)
    BY <1>3 DEF Crash
  <2>3. endJob.state = "active" => clock >= EndTime
    BY DEF EndInv, TimesInv, JobsInv
  <2>4. endJob'.state # "none" =>
          endJob.state # "none" /\ (endJob'.due = endJob.due \/ (endJob'.due = clock /\ clock >= EndTime))
    <3>1. CASE endJob' = NoJob
      BY <3>1 DEF NoJob
    <3>2. CASE endJob' = Stalled(endJob) /\ endJob.state = "active"
      BY <1>0, <2>3, <3>2 DEF Stalled, JobType
    <3>3. CASE endJob' = Stalled(endJob) /\ endJob.state # "active"
      BY <3>3 DEF Stalled
    <3> QED
      BY <2>2, <3>1, <3>2, <3>3
  <2> QED
    BY <1>0, <2>1, <2>4, LifecycleAssumption DEF EndInv, TimesInv, OpenInv
<1>4. CASE Tick
  <2>1. /\ UNCHANGED <<row, endJob, canceler, starter, ender, boot, expiry>> /\ clock' = clock + 1
        /\ keys'.active <=> (keys.active /\ expiry.active > clock + 1)
    BY <1>0, <1>4 DEF Tick, database, jobs, api, workers, Keys
  <2>2. Opening => starter.duration \in Int
    BY <1>0 DEF StarterType
  <2>3. boot.now \in Nat /\ endJob.due \in Nat /\ expiry.active \in Nat
    BY <1>0 DEF BootType, JobType, ExpiryType
  <2>4. TimesInv'
    <3>1. Opening' => starter'.endTime = EndTime /\ clock' + starter'.duration + Second > EndTime
      BY <1>0, <2>1, <2>2, LifecycleAssumption DEF EndInv, TimesInv, Opening
    <3>2. Reconciling' => boot'.copy.endTime = EndTime /\ boot'.now <= clock'
      BY <1>0, <2>1, <2>3 DEF EndInv, TimesInv, Reconciling
    <3>3. /\ ender'.pc # "idle" => clock' >= EndTime
          /\ boot'.pc = "markEnded" => clock' + Second > EndTime
      BY <1>0, <2>1, LifecycleAssumption DEF EndInv, TimesInv
    <3>4. endJob'.state # "none" => endJob'.due = EndTime \/ (EndTime < endJob'.due /\ endJob'.due <= clock')
      BY <1>0, <2>1, <2>3, LifecycleAssumption DEF EndInv, TimesInv
    <3> QED
      BY <2>1, <3>1, <3>2, <3>3, <3>4 DEF EndInv, TimesInv
  <2>5. OpenInv'
    BY <1>0, <2>1, <2>3, LifecycleAssumption DEF EndInv, TimesInv, OpenInv
  <2> QED
    BY <2>4, <2>5
<1>5. ASSUME NEW b \in Bidders, PlaceBid(b) PROVE TimesInv' /\ OpenInv'
  <2>1. UNCHANGED <<clock, endJob, canceler>>
    BY <1>5 DEF PlaceBid, jobs, api
  <2> QED
    BY <1>5, <2>1, BidRaises DEF EndInv, TimesInv, OpenInv, Opening, Reconciling
<1>6. CASE (\E b \in Bidders : SaveBid(b)) \/ UNCHANGED vars
  <2>1. UNCHANGED <<clock, row, keys, expiry, endJob, canceler, starter, ender, boot>>
    BY <1>6 DEF SaveBid, vars, database, redis, jobs, api, workers
  <2> QED
    BY <2>1 DEF EndInv, TimesInv, OpenInv, Opening, Reconciling
<1> QED
  BY <1>1, <1>2, <1>3, <1>4, <1>5, <1>6, StartKeepsEnd, EndKeepsEnd, CancelKeepsEnd, BootKeepsEnd
  DEF Next

\* Whatever commits late, crashes, throws in a processor or is canceled, an
\* active auction at rest has its end job due at the end time of its row, and
\* the keys stay open for bids until less than a second before.
THEOREM EndsWhenTheRowSays ==
  ASSUME EndIsFixed
  PROVE  Spec => []EndFollowsRow
<1>1. TypeInv /\ EndInv => EndFollowsRow
  <2> SUFFICES ASSUME TypeInv, EndInv, row.status = "ACTIVE", NobodyAtWork, endJob.state = "delayed",
                      clock < row.endTime
               PROVE  /\ endJob.due = row.endTime
                      /\ clock + Second <= row.endTime => keys.active
                      /\ keys.active => expiry.active + Second > row.endTime
    BY DEF EndFollowsRow
  <2>1. row.endTime = EndTime /\ clock \in Nat /\ endJob.due \in Nat
    BY Known DEF EndInv, TimesInv, JobType
  <2>2. endJob.due = EndTime
    BY <2>1, LifecycleAssumption DEF EndInv, TimesInv
  <2>3. clock + Second <= row.endTime => keys.active
    BY <2>1 DEF EndInv, OpenInv, NobodyAtWork
  <2> QED
    BY <2>1, <2>2, <2>3 DEF EndInv, TimesInv
<1> QED
  BY <1>1, InitIsTyped, InitEnd, NextTypes, NextKeepsEnd, PTL DEF Spec

-----------------------------------------------------------------------------
(* Who has bid hears the result. *)

\* The server does not die, and the queue takes the jobs it is given.
NothingDies == MaxCrashes = 0 /\ ~Fault("queue_fails")

\* Nobody can have bid yet.
Unopened == keys = NoKeys /\ \A b \in Bidders : bids[b].state = "none"

\* The start job has its work before it, or will be added.
StartAhead == creator = "schedule" \/ (startJob.state # "none" /\ starter.pc # "scheduleEnd")

\* An auction that has ended without an announcement was never open, or is
\* with the end job that has ended it; and the start job of an auction finds
\* its keys as it will set them.
ToldInv ==
  row.status = "ENDED" =>
    announced # <<>> \/ Unopened \/ (ender.pc \in {"cleanup", "notify"} /\ ender.updated)

AheadInv == StartAhead => Unopened /\ ender.pc \in {"idle", "price"} /\ row.status # "ENDED"

NoReturnInv ==
  /\ starter.pc # "rollback" /\ boot.pc = "idle"
  /\ updater.pc = "save" => updater.copy.status \in {"PENDING", "ACTIVE"}

TellInv == JobsInv /\ ToldInv /\ AheadInv /\ NoReturnInv

LEMMA InitTell == Init => TellInv
  BY InitJobs
  DEF Init, TellInv, ToldInv, AheadInv, NoReturnInv, Unopened, NoRow, NoBid, NoJob, IdleStarter,
      IdleEnder, IdleBoot, IdleUpdater

LEMMA StartKeepsTell ==
  ASSUME NothingDies, TypeInv, TellInv, Start
  PROVE  ToldInv' /\ AheadInv' /\ NoReturnInv'
<1>0. starter \in StarterType /\ row \in RowType /\ startJob \in JobType /\ clock \in Nat
  BY Known
<1>1. UNCHANGED <<bids, creator, updater, ender, boot, announced>>
  BY DEF Start, StartPicks, StartSkips, StartReads, StartMarksEnded, StartActivates, StartLostRow,
         StartInitializes, StartSchedulesEnd, StartCannotSchedule, StartRollsBack, StartThrows,
         database, api
<1>2. creator # "schedule" /\ startJob.state # "none"
  BY <1>0
  DEF Start, StartPicks, StartSkips, StartReads, StartMarksEnded, StartActivates, StartLostRow,
      StartInitializes, StartSchedulesEnd, StartCannotSchedule, StartRollsBack, StartThrows, Due,
      TellInv, JobsInv, AheadInv
<1>3. starter'.pc # "rollback"
  BY <1>0
  DEF Start, StartPicks, StartSkips, StartReads, StartMarksEnded, StartActivates, StartLostRow,
      StartInitializes, StartSchedulesEnd, StartCannotSchedule, StartRollsBack, StartThrows, StartDone,
      IdleStarter, StarterType, NothingDies, TellInv, NoReturnInv
<1>4. CASE StartInitializes
  <2>1. StartAhead /\ row' = row
    BY <1>2, <1>4 DEF StartInitializes, StartAhead, database
  <2>2. starter'.pc = "scheduleEnd"
    BY <1>0, <1>4 DEF StartInitializes, StarterType
  <2> QED
    BY <1>1, <1>2, <1>3, <2>1, <2>2 DEF TellInv, ToldInv, AheadInv, NoReturnInv, StartAhead
<1>5. CASE StartSchedulesEnd
  <2>1. row' = row /\ keys' = keys /\ startJob' = NoJob
    BY <1>5 DEF StartSchedulesEnd, StartDone, database, redis
  <2> QED
    BY <1>1, <1>2, <1>3, <2>1
    DEF TellInv, ToldInv, AheadInv, NoReturnInv, StartAhead, Unopened, NoJob
<1>6. CASE StartPicks \/ StartSkips \/ StartReads \/ StartMarksEnded \/ StartActivates \/ StartLostRow
           \/ StartThrows
  <2>1. StartAhead /\ keys' = keys
    BY <1>2, <1>6 DEF StartPicks, StartSkips, StartReads, StartMarksEnded, StartActivates,
                      StartLostRow, StartThrows, StartAhead, redis, TellInv, JobsInv, Due
  <2>2. Unopened' /\ ender'.pc \in {"idle", "price"}
    BY <1>1, <2>1 DEF TellInv, AheadInv, Unopened
  <2>3. row'.status # "ENDED" \/ ~StartAhead'
    <3>1. CASE StartMarksEnded
      BY <1>1, <1>2, <3>1 DEF StartMarksEnded, StartDone, NoJob, StartAhead
    <3>2. CASE ~StartMarksEnded
      BY <1>0, <1>6, <2>1, <3>2
      DEF StartPicks, StartSkips, StartReads, StartActivates, StartLostRow, StartThrows, database,
          RowType, TellInv, AheadInv
    <3> QED
      BY <3>1, <3>2
  <2> QED
    BY <1>1, <1>2, <1>3, <2>2, <2>3 DEF TellInv, ToldInv, AheadInv, NoReturnInv
<1> QED
  BY <1>4, <1>5, <1>6
  DEF Start, StartCannotSchedule, StartRollsBack, NothingDies, TellInv, NoReturnInv

LEMMA EndKeepsTell ==
  ASSUME TypeInv, TellInv, End
  PROVE  ToldInv' /\ AheadInv' /\ NoReturnInv'
<1>0. ender \in EnderType /\ row \in RowType
  BY Known
<1>1. UNCHANGED <<bids, creator, updater, startJob, starter, boot>>
  BY DEF End, EndPicks, EndSkips, EndReadsPrice, EndReadsBidder, EndCommits, EndCleansUp, EndNotifies,
         EndFinishes, EndThrows, database, api, jobs
<1>2. keys' = keys \/ keys' = NoKeys
  BY DEF End, EndPicks, EndSkips, EndReadsPrice, EndReadsBidder, EndCommits, EndCleansUp, EndNotifies,
         EndFinishes, EndThrows, redis
<1>3. Unopened => Unopened'
  BY <1>1, <1>2 DEF Unopened
<1>4. StartAhead => row'.status # "ENDED" /\ ender'.pc \in {"idle", "price"}
  <2> SUFFICES ASSUME StartAhead PROVE row'.status # "ENDED" /\ ender'.pc \in {"idle", "price"}
    OBVIOUS
  <2>1. keys.price = Null /\ ender.pc \in {"idle", "price"} /\ row.status # "ENDED"
    BY DEF TellInv, AheadInv, Unopened, NoKeys
  <2>2. (EndPicks \/ EndSkips) /\ row' = row
    BY <2>1
    DEF End, EndPicks, EndSkips, EndReadsPrice, EndReadsBidder, EndCommits, EndCleansUp, EndNotifies,
        EndFinishes, EndThrows, database
  <2> QED
    BY <2>1, <2>2 DEF EndPicks, EndSkips, EndDone, IdleEnder
<1>5. AheadInv' /\ NoReturnInv'
  BY <1>1, <1>3, <1>4 DEF TellInv, AheadInv, NoReturnInv, StartAhead
<1>6. ToldInv'
  <2>1. CASE EndCommits
    <3>1. ender.pc = "commit" /\ ender'.pc = "cleanup" /\ (ender'.updated <=> row.status # "ENDED")
          /\ UNCHANGED announced
      BY <1>0, <2>1 DEF EndCommits, EnderType
    <3> QED
      BY <1>3, <3>1 DEF TellInv, ToldInv
  <2>2. CASE EndCleansUp
    <3>1. ender'.pc = "notify" /\ ender'.updated = ender.updated /\ UNCHANGED <<row, announced>>
      BY <1>0, <2>2 DEF EndCleansUp, EnderType, database
    <3> QED
      BY <1>3, <3>1 DEF TellInv, ToldInv
  <2>3. CASE EndNotifies
    <3>1. CASE ender.updated
      <4> DEFINE told == [price |-> ender.price, winner |-> ender.winner]
      <4>1. announced' = Append(announced, told)
        BY <2>3, <3>1 DEF EndNotifies
      <4>2. announced \in Seq([price : Price, winner : UserOrNull])
        BY DEF TypeInv, TypeOK
      <4>3. told \in [price : Price, winner : UserOrNull]
        BY <1>0 DEF EnderType
      <4> HIDE DEF told
      <4>4. announced' # <<>>
        BY <4>1, <4>2, <4>3
      <4> QED
        BY <4>4 DEF ToldInv
    <3>2. CASE ~ender.updated
      <4>1. UNCHANGED <<row, announced>>
        BY <2>3, <3>2 DEF EndNotifies, database
      <4> QED
        BY <1>3, <3>2, <4>1 DEF TellInv, ToldInv
    <3> QED
      BY <3>1, <3>2
  <2>4. CASE EndPicks \/ EndSkips \/ EndReadsPrice \/ EndReadsBidder \/ EndFinishes \/ EndThrows
    <3>1. UNCHANGED <<row, announced>> /\ ender.pc \notin {"cleanup", "notify"}
      BY <2>4 DEF EndPicks, EndSkips, EndReadsPrice, EndReadsBidder, EndFinishes, EndThrows, database
    <3> QED
      BY <1>3, <3>1 DEF TellInv, ToldInv
  <2> QED
    BY <2>1, <2>2, <2>3, <2>4 DEF End
<1> QED
  BY <1>5, <1>6

LEMMA CallsKeepTell ==
  ASSUME TypeInv, TellInv, Cancel \/ Update
  PROVE  ToldInv' /\ AheadInv' /\ NoReturnInv'
<1>0. row \in RowType /\ updater \in UpdaterType /\ updater.copy \in RowType
  BY Known DEF UpdaterType
<1>1. UNCHANGED <<bids, creator, workers, boot, announced>>
  BY DEF Cancel, CancelPrechecks, CancelCommits, CancelRefused, CancelRemovesStart, CancelRemovesEnd,
         CancelCleansUp, CancelDropsPrice, Update, UpdateReads, UpdateLocked, UpdateRefused, UpdateSavesCopy,
         UpdateRemovesEnd, UpdateSchedulesEnd, UpdateExtends, database
<1>2. /\ keys' \in {keys, NoKeys, [keys EXCEPT !.price = Null]}
      /\ startJob' \in {startJob, NoJob}
  BY DEF Cancel, CancelPrechecks, CancelCommits, CancelRefused, CancelRemovesStart, CancelRemovesEnd,
         CancelCleansUp, CancelDropsPrice, Update, UpdateReads, UpdateLocked, UpdateRefused, UpdateSavesCopy,
         UpdateRemovesEnd, UpdateSchedulesEnd, UpdateExtends, redis, jobs
<1>3. Unopened => Unopened'
  <2>1. NoKeys \in Keys /\ NoKeys.price = Null
    BY KeyTypes DEF NoKeys
  <2>2. [NoKeys EXCEPT !.price = Null] = NoKeys
    BY <2>1 DEF Keys
  <2> QED
    BY <1>1, <1>2, <2>2 DEF Unopened
<1>4. row' = row \/ row'.status # "ENDED"
  <2>1. CASE CancelCommits \/ UpdateLocked
    BY <1>0, <2>1 DEF CancelCommits, UpdateLocked, RowType
  <2>2. CASE UpdateSavesCopy
    BY <1>0, <2>2 DEF UpdateSavesCopy, RowType, TellInv, NoReturnInv
  <2> QED
    BY <2>1, <2>2
    DEF Cancel, CancelPrechecks, CancelRefused, CancelRemovesStart, CancelRemovesEnd,
        CancelCleansUp, CancelDropsPrice, Update, UpdateReads, UpdateRefused, UpdateRemovesEnd, UpdateSchedulesEnd,
        UpdateExtends, database
<1>5. updater'.pc = "save" => updater'.copy.status \in {"PENDING", "ACTIVE"}
  <2>1. CASE \E command \in AllCommands : UpdateReads(command)
    <3>1. PICK command \in AllCommands : UpdateReads(command)
      BY <2>1
    <3>2. CASE row.status \in {"PENDING", "ACTIVE"}
      BY <1>0, <3>1, <3>2 DEF UpdateReads, UpdaterType
    <3>3. CASE row.status \notin {"PENDING", "ACTIVE"}
      BY <1>0, <3>1, <3>3 DEF UpdateReads, UpdaterType
    <3> QED
      BY <3>2, <3>3
  <2>2. CASE ~\E command \in AllCommands : UpdateReads(command)
    BY <1>0, <2>2
    DEF Cancel, CancelPrechecks, CancelCommits, CancelRefused, CancelRemovesStart, CancelRemovesEnd,
        CancelCleansUp, CancelDropsPrice, Update, UpdateLocked, UpdateRefused, UpdateSavesCopy, UpdateRemovesEnd,
        UpdateSchedulesEnd, UpdateExtends, UpdaterType, TellInv, NoReturnInv
  <2> QED
    BY <2>1, <2>2
<1> QED
  BY <1>1, <1>2, <1>4, <1>5, <1>3
  DEF TellInv, ToldInv, AheadInv, NoReturnInv, StartAhead, workers, NoJob

LEMMA NextKeepsTell ==
  ASSUME NothingDies
  PROVE  TypeInv /\ TellInv /\ [Next]_vars => TellInv'
<1> SUFFICES ASSUME TypeInv, TellInv, [Next]_vars PROVE TellInv'
  OBVIOUS
<1> SUFFICES ToldInv' /\ AheadInv' /\ NoReturnInv'
  BY NextKeepsJobs DEF TellInv
<1>1. CASE Create
  <2>1. UNCHANGED <<bids, redis, updater, workers, boot, announced>>
    BY <1>1 DEF Create, CreateSchedules, CreateFails, CreateCommits, database
  <2>2. row' = row \/ row'.status = "PENDING"
    BY <1>1 DEF Create, CreateSchedules, CreateFails, CreateCommits, database
  <2>3. creator' # "schedule" /\ (StartAhead' => StartAhead)
    <3>1. CASE CreateSchedules
      BY <3>1 DEF CreateSchedules, StartAhead
    <3>2. CASE CreateCommits
      BY <3>2 DEF CreateCommits, StartAhead, jobs, workers
    <3> QED
      BY <1>1, <3>1, <3>2 DEF Create, CreateFails, NothingDies
  <2> QED
    BY <2>1, <2>2, <2>3
    DEF TellInv, ToldInv, AheadInv, NoReturnInv, Unopened, redis, workers
<1>2. CASE Boot \/ Crash
  BY <1>2, LifecycleAssumption
  DEF Boot, BootFinds, BootChecks, BootReadsBids, BootMarksEnded, BootRestores, BootSchedulesEnd,
      Crash, NothingDies, TellInv, NoReturnInv, TypeInv, TypeOK
<1>3. CASE Tick
  <2>1. UNCHANGED <<row, bids, startJob, creator, updater, starter, ender, boot, announced>>
    BY <1>3 DEF Tick, database, jobs, api, workers
  <2>2. keys = NoKeys => keys' = NoKeys
    <3>1. keys \in Keys /\ keys' \in Keys
      BY <1>3, Known, TickTypes DEF TypeInv, TypeOK
    <3>2. /\ keys'.active => keys.active
          /\ keys'.price \in {keys.price, Null} /\ keys'.owner \in {keys.owner, Null}
          /\ keys'.bidder = keys.bidder
      BY <1>3, <3>1 DEF Tick, Keys
    <3>3. keys = NoKeys =>
            ~keys'.active /\ keys'.price = Null /\ keys'.owner = Null /\ keys'.bidder = Null
      BY <3>2 DEF NoKeys
    <3> QED
      BY <3>1, <3>3 DEF NoKeys, Keys
  <2> QED
    BY <2>1, <2>2 DEF TellInv, ToldInv, AheadInv, NoReturnInv, StartAhead, Unopened
<1>4. ASSUME NEW b \in Bidders, PlaceBid(b) \/ SaveBid(b)
      PROVE  ToldInv' /\ AheadInv' /\ NoReturnInv'
  <2>1. UNCHANGED <<row, startJob, creator, updater, starter, ender, boot, announced>>
    BY <1>4 DEF PlaceBid, SaveBid, jobs, api, workers
  <2>2. ~Unopened
    BY <1>4 DEF PlaceBid, SaveBid, Unopened, NoKeys
  <2> QED
    BY <2>1, <2>2 DEF TellInv, ToldInv, AheadInv, NoReturnInv, StartAhead
<1>5. CASE UNCHANGED vars
  <2>1. UNCHANGED <<row, bids, keys, startJob, creator, updater, starter, ender, boot, announced>>
    BY <1>5 DEF vars, database, redis, jobs, api, workers
  <2> QED
    BY <2>1 DEF TellInv, ToldInv, AheadInv, NoReturnInv, StartAhead, Unopened
<1> QED
  BY <1>1, <1>2, <1>3, <1>4, <1>5, StartKeepsTell, EndKeepsTell, CallsKeepTell DEF Next

\* Whatever the API is asked meanwhile, and whatever a processor, a commit or a
\* write to the keys fails at, an auction with bids does not end unnoticed.
THEOREM BiddersAreTold ==
  ASSUME NothingDies
  PROVE  Spec => []EndedIsAnnounced
<1>1. TellInv => EndedIsAnnounced
  BY DEF TellInv, ToldInv, EndedIsAnnounced, NobodyAtWork, Unopened, Rows
<1> QED
  BY <1>1, InitIsTyped, InitTell, NextTypes, NextKeepsTell, PTL DEF Spec

-----------------------------------------------------------------------------
(* An active auction is not forgotten. *)

\* The server does not die, nothing is renamed, and transactions and writes to
\* the keys do not fail.  The queue may refuse a job, the auction may be extended
\* or canceled at any time and createAuction may commit late.
NothingRollsBack ==
  /\ MaxCrashes = 0 /\ Commands \subseteq {"cancel", "extend"}
  /\ ~Fault("db_fails") /\ ~Fault("redis_fails")

\* The start job has done its work, or never will.
StartOver == creator # "schedule" /\ startJob.state = "none"

Behind == {"cleanup", "notify", "finish"}

\* What the update in progress has read and written.
UpdateInv ==
  /\ updater.pc = "save" => updater.copy.status = "PENDING"
  /\ updater.pc \in {"locked", "removeEnd", "scheduleEnd", "ttl"} => updater.copy.status = "ACTIVE"
  /\ updater.pc \in {"removeEnd", "scheduleEnd", "ttl"} => row.endTime = updater.endTime

\* An end job that is there before the start job is over comes from an update
\* that found the auction active, and is not due before the row's end time.
ForeignEndInv ==
  endJob.state # "none" /\ ~StartOver =>
    /\ updater.pc \in {"ttl", "done"} /\ updater.copy.status = "ACTIVE"
    /\ row.endTime = updater.endTime /\ endJob.due >= row.endTime

\* Behind the end processor the auction is not active, and will not become so.
BehindInv ==
  ender.pc \in Behind =>
    /\ row.status # "ACTIVE"
    /\ row.status = "PENDING" /\ ~StartOver => clock >= row.endTime /\ starter.pc # "activate"

PricedInv == row.status = "ACTIVE" => keys.price # Null \/ starter.pc = "init"

\* No end job is given up, and no reconciliation deals with the auction.
AloneInv == endJob.state # "failed" /\ boot.pc = "idle"

\* What holds until a cancelation has committed.
PlanInv ==
  /\ ~Canceled
  /\ JobsInv /\ SpansInv /\ KeysStand /\ EarlyInv
  /\ UpdateInv /\ ForeignEndInv /\ BehindInv /\ PricedInv /\ AloneInv /\ ActiveIsScheduled

PlannedInv == JobsInv /\ SpansInv /\ KeysInv /\ EarlyInv /\ (Canceled \/ PlanInv)

PlanStep ==
  UpdateInv' /\ ForeignEndInv' /\ BehindInv' /\ PricedInv' /\ AloneInv' /\ ActiveIsScheduled'

LEMMA InitPlan == Init => PlannedInv
<1>1. Init => /\ ~Canceled /\ UpdateInv /\ ForeignEndInv /\ BehindInv /\ PricedInv /\ AloneInv
              /\ ActiveIsScheduled
  BY DEF Init, Canceled, UpdateInv, ForeignEndInv, BehindInv, Behind, PricedInv, AloneInv,
         ActiveIsScheduled, NoRow, NoJob, IdleEnder, IdleBoot, IdleUpdater
<1> QED
  BY <1>1, InitJobs, InitSpans, InitKeys, InitEarly DEF PlannedInv, PlanInv, KeysInv

LEMMA StartKeepsPlan ==
  ASSUME NothingRollsBack, TypeInv, PlanInv, Start
  PROVE  PlanStep
<1>0. /\ starter \in StarterType /\ row \in RowType /\ row.endTime \in Nat /\ keys \in Keys
      /\ startJob \in JobType /\ endJob \in JobType /\ endJob.due \in Nat /\ clock \in Nat
  BY Known DEF JobType
<1>1. UNCHANGED <<clock, creator, canceler, updater, ender, boot>> /\ row'.endTime = row.endTime
  BY StartMoves
<1>2. ~StartOver
  BY <1>0
  DEF Start, StartPicks, StartSkips, StartReads, StartMarksEnded, StartActivates, StartLostRow,
      StartInitializes, StartSchedulesEnd, StartCannotSchedule, StartRollsBack, StartThrows, Due,
      PlanInv, JobsInv, StartOver
<1>3. endJob' = endJob \/ (StartOver' /\ endJob' = Enqueued(endJob, starter.endTime) /\ StartSchedulesEnd)
  BY <1>1, <1>2
  DEF Start, StartPicks, StartSkips, StartReads, StartMarksEnded, StartActivates, StartLostRow,
      StartInitializes, StartSchedulesEnd, StartCannotSchedule, StartRollsBack, StartThrows, jobs,
      StartOver, StartDone, NoJob, PlanInv, JobsInv
<1>4. endJob'.state = endJob.state \/ (endJob.state = "none" /\ endJob'.state = "delayed")
  BY <1>0, <1>3, EnqueuedState
<1>5. UpdateInv' /\ AloneInv'
  BY <1>1, <1>4 DEF PlanInv, UpdateInv, AloneInv
<1>6. ForeignEndInv'
  BY <1>1, <1>2, <1>3 DEF PlanInv, ForeignEndInv
<1>7. ender.pc \in Behind => clock >= row.endTime
  <2> SUFFICES ASSUME ender.pc \in Behind PROVE clock >= row.endTime
    OBVIOUS
  <2>1. endJob.state = "active" /\ endJob.due <= clock
    BY DEF PlanInv, JobsInv, Behind
  <2> QED
    BY <1>0, <1>2, <2>1 DEF PlanInv, ForeignEndInv
<1>8. BehindInv'
  <2> SUFFICES ASSUME ender.pc \in Behind
               PROVE  /\ row'.status # "ACTIVE"
                      /\ row'.status = "PENDING" /\ ~StartOver' => starter'.pc # "activate"
    BY <1>1, <1>7 DEF BehindInv
  <2>1. row.status # "ACTIVE" /\ (row.status = "PENDING" => starter.pc # "activate")
    BY <1>2 DEF PlanInv, BehindInv
  <2>2. row'.status # "ACTIVE"
    BY <1>0, <2>1
    DEF Start, StartPicks, StartSkips, StartReads, StartMarksEnded, StartActivates, StartLostRow,
        StartInitializes, StartSchedulesEnd, StartCannotSchedule, StartRollsBack, StartThrows,
        database, RowType
  <2>3. starter'.pc # "activate" \/ row.status # "PENDING" \/ ~UNCHANGED row
    <3>1. CASE StartReads
      <4>1. clock >= row.endTime /\ Remaining(row.endTime) <= 0
        BY <1>0, <1>7, RemainingBounds
      <4> QED
        BY <1>0, <3>1, <4>1 DEF StartReads
    <3>2. CASE ~StartReads
      BY <1>0, <2>1, <3>2
      DEF Start, StartPicks, StartSkips, StartMarksEnded, StartActivates, StartLostRow,
          StartInitializes, StartSchedulesEnd, StartCannotSchedule, StartRollsBack, StartThrows,
          StartDone, IdleStarter, StarterType
    <3> QED
      BY <3>1, <3>2
  <2>4. UNCHANGED row \/ starter'.pc # "activate"
    BY <1>0
    DEF Start, StartPicks, StartSkips, StartReads, StartMarksEnded, StartActivates, StartLostRow,
        StartInitializes, StartSchedulesEnd, StartCannotSchedule, StartRollsBack, StartThrows,
        StartDone, IdleStarter, StarterType, database
  <2> QED
    BY <2>2, <2>3, <2>4
<1>9. PricedInv' /\ ActiveIsScheduled'
  <2>1. CASE StartActivates
    <3>1. starter'.pc = "init"
      BY <1>0, <2>1 DEF StartActivates, StarterType
    <3> QED
      BY <3>1 DEF PricedInv, ActiveIsScheduled, EndIsUnderway
  <2>2. CASE StartInitializes
    <3>1. keys' = Initialized(keys, StartPrice, Owner) /\ starter'.pc = "scheduleEnd"
      BY <1>0, <2>2 DEF StartInitializes, NothingRollsBack, StarterType
    <3>2. keys'.price # Null
      BY <1>0, <3>1, LifecycleAssumption, KeysAssumption DEF Initialized, Keys
    <3> QED
      BY <3>1, <3>2 DEF PricedInv, ActiveIsScheduled, EndIsUnderway
  <2>3. CASE StartSchedulesEnd
    <3>1. UNCHANGED <<row, keys>> /\ starter.pc = "scheduleEnd"
      BY <2>3 DEF StartSchedulesEnd, database, redis
    <3>2. endJob'.state \in {"delayed", "active"}
      <4>1. CASE endJob.state = "none"
        BY <2>3, <4>1, EnqueuedState DEF StartSchedulesEnd
      <4>2. CASE endJob.state # "none"
        BY <1>0, <2>3, <4>2, EnqueuedState DEF StartSchedulesEnd, PlanInv, AloneInv, JobType
      <4> QED
        BY <4>1, <4>2
    <3> QED
      BY <3>1, <3>2 DEF PlanInv, PricedInv, ActiveIsScheduled, EndIsUnderway
  <2>4. CASE StartCannotSchedule
    BY <1>0, <2>4
    DEF StartCannotSchedule, PlanInv, PricedInv, ActiveIsScheduled, EndIsUnderway, StarterType,
        database, redis
  <2>5. CASE StartMarksEnded \/ StartRollsBack
    <3>1. row'.status # "ACTIVE"
      BY <1>0, <2>5 DEF StartMarksEnded, StartRollsBack, NothingRollsBack, RowType
    <3> QED
      BY <3>1 DEF PricedInv, ActiveIsScheduled
  <2>6. CASE StartPicks \/ StartSkips \/ StartReads \/ StartLostRow \/ StartThrows
    <3>1. UNCHANGED <<row, keys, endJob, updater, boot>> /\ starter.pc \in {"idle", "read", "activate", "markEnded"}
      BY <1>1, <2>6
      DEF StartPicks, StartSkips, StartReads, StartLostRow, StartThrows, database, redis, jobs
    <3> QED
      BY <3>1 DEF PlanInv, PricedInv, ActiveIsScheduled, EndIsUnderway
  <2> QED
    BY <2>1, <2>2, <2>3, <2>4, <2>5, <2>6 DEF Start
<1> QED
  BY <1>5, <1>6, <1>8, <1>9 DEF PlanStep

LEMMA EndKeepsPlan ==
  ASSUME NothingRollsBack, TypeInv, PlanInv, End
  PROVE  PlanStep
<1>0. /\ ender \in EnderType /\ row \in RowType /\ endJob \in JobType /\ clock \in Nat
  BY Known
<1>1. UNCHANGED <<clock, creator, canceler, updater, startJob, starter, boot>>
  BY DEF End, EndPicks, EndSkips, EndReadsPrice, EndReadsBidder, EndCommits, EndCleansUp, EndNotifies,
         EndFinishes, EndThrows, api, jobs
<1>2. row'.endTime = row.endTime /\ (row' = row \/ row'.status = "ENDED")
  BY <1>0 DEF End, EndPicks, EndSkips, EndReadsPrice, EndReadsBidder, EndCommits, EndCleansUp,
              EndNotifies, EndFinishes, EndThrows, database, RowType
<1>3. \/ endJob'.state = "none"
      \/ endJob'.due = endJob.due /\ endJob.state # "none" /\ endJob'.state \in {endJob.state, "active"}
  <2>1. CASE EndPicks
    BY <1>0, <2>1, JobStates DEF EndPicks, Due
  <2>2. CASE EndSkips \/ EndFinishes
    BY <2>2 DEF EndSkips, EndFinishes, EndDone, NoJob
  <2>3. CASE EndReadsPrice \/ EndReadsBidder \/ EndCommits \/ EndCleansUp \/ EndNotifies
    <3>1. endJob' = endJob /\ ender.pc # "idle"
      BY <2>3 DEF EndReadsPrice, EndReadsBidder, EndCommits, EndCleansUp, EndNotifies, jobs
    <3> QED
      BY <3>1 DEF PlanInv, JobsInv
  <2> QED
    BY <2>1, <2>2, <2>3 DEF End, EndThrows, NothingRollsBack
<1>4. UpdateInv' /\ AloneInv' /\ ForeignEndInv'
  BY <1>1, <1>2, <1>3 DEF PlanInv, UpdateInv, AloneInv, ForeignEndInv, StartOver
<1>5. BehindInv'
  <2>1. CASE EndCommits
    <3>1. row'.status = "ENDED"
      BY <1>0, <2>1 DEF EndCommits, RowType
    <3> QED
      BY <3>1 DEF BehindInv
  <2>2. CASE ~EndCommits
    <3>1. row' = row
      BY <2>2 DEF End, EndPicks, EndSkips, EndReadsPrice, EndReadsBidder, EndCleansUp, EndNotifies,
                  EndFinishes, EndThrows, database
    <3>2. CASE EndCleansUp \/ EndNotifies
      BY <1>1, <3>1, <3>2 DEF EndCleansUp, EndNotifies, Behind, PlanInv, BehindInv, StartOver
    <3>3. CASE EndReadsPrice
      BY <1>0, <3>3 DEF EndReadsPrice, Behind, BehindInv, EnderType
    <3>4. CASE EndReadsBidder
      BY <1>0, <3>4 DEF EndReadsBidder, Behind, BehindInv, EnderType
    <3>5. CASE EndPicks \/ EndSkips \/ EndFinishes \/ EndThrows
      BY <3>5 DEF EndPicks, EndSkips, EndFinishes, EndThrows, EndDone, IdleEnder, Behind, BehindInv
    <3> QED
      BY <2>2, <3>2, <3>3, <3>4, <3>5 DEF End
  <2> QED
    BY <2>1, <2>2
<1>6. row'.status = "ACTIVE" => row' = row /\ keys' = keys /\ ender.pc # "finish"
  BY <1>2 DEF End, EndPicks, EndSkips, EndReadsPrice, EndReadsBidder, EndCommits, EndCleansUp,
         EndNotifies, EndFinishes, EndThrows, redis, database, PlanInv, BehindInv, Behind
<1>7. PricedInv'
  BY <1>1, <1>6 DEF PlanInv, PricedInv
<1>8. ActiveIsScheduled'
  <2>1. CASE EndSkips
    BY <1>1, <1>6, <2>1 DEF EndSkips, PlanInv, PricedInv, ActiveIsScheduled, EndIsUnderway
  <2>2. CASE EndFinishes
    BY <1>6, <2>2 DEF EndFinishes, ActiveIsScheduled
  <2>3. CASE EndPicks
    BY <1>0, <2>3, JobStates DEF EndPicks, ActiveIsScheduled, EndIsUnderway
  <2>4. CASE EndReadsPrice \/ EndReadsBidder \/ EndCommits \/ EndCleansUp \/ EndNotifies
    <3>1. endJob' = endJob
      BY <2>4 DEF EndReadsPrice, EndReadsBidder, EndCommits, EndCleansUp, EndNotifies, jobs
    <3> QED
      BY <1>1, <1>6, <3>1 DEF PlanInv, ActiveIsScheduled, EndIsUnderway
  <2> QED
    BY <2>1, <2>2, <2>3, <2>4 DEF End, EndThrows, NothingRollsBack
<1> QED
  BY <1>4, <1>5, <1>7, <1>8 DEF PlanStep

LEMMA UpdateKeepsPlan ==
  ASSUME NothingRollsBack, TypeInv, PlanInv, Update
  PROVE  PlanStep
<1>0. /\ updater \in UpdaterType /\ row \in RowType /\ row.endTime \in Nat /\ endJob \in JobType
      /\ updater.endTime \in Nat /\ clock \in Nat
  BY Known DEF UpdaterType
<1>1. UNCHANGED <<clock, creator, canceler, keys, startJob, starter, ender, boot>>
  BY DEF Update, UpdateReads, UpdateLocked, UpdateRefused, UpdateSavesCopy, UpdateRemovesEnd,
         UpdateSchedulesEnd, UpdateExtends, redis, jobs, workers
<1>2. updater.pc \notin {"ttl", "done"} => endJob.state = "none" \/ StartOver
  BY DEF PlanInv, ForeignEndInv
<1>3. ASSUME NEW command \in AllCommands, UpdateReads(command) PROVE PlanStep
  <2>1. UNCHANGED <<row, endJob>> /\ updater.pc = "idle" /\ command = "extend"
    BY <1>3 DEF UpdateReads, NothingRollsBack, database, jobs
  <2>2. /\ updater'.pc \in {"locked", "save", "done"}
        /\ updater'.pc = "save" => updater'.copy.status = "PENDING"
        /\ updater'.pc = "locked" => updater'.copy.status = "ACTIVE"
    <3>1. CASE row.status \notin {"PENDING", "ACTIVE"} \/ LaterEndTime <= clock \/ LaterEndTime <= row.endTime
      BY <1>0, <1>3, <2>1, <3>1 DEF UpdateReads, UpdaterType
    <3>2. CASE ~(row.status \notin {"PENDING", "ACTIVE"} \/ LaterEndTime <= clock \/ LaterEndTime <= row.endTime)
      <4>1. updater' = [pc |-> IF row.status = "ACTIVE" THEN "locked" ELSE "save",
                        copy |-> row, endTime |-> LaterEndTime]
        BY <1>3, <2>1, <3>2 DEF UpdateReads
      <4> QED
        BY <3>2, <4>1
    <3> QED
      BY <3>1, <3>2
  <2>3. UpdateInv' /\ AloneInv' /\ ForeignEndInv'
    BY <1>1, <1>2, <2>1, <2>2 DEF PlanInv, UpdateInv, AloneInv, ForeignEndInv, StartOver
  <2>4. BehindInv' /\ PricedInv' /\ ActiveIsScheduled'
    BY <1>1, <2>1
    DEF PlanInv, BehindInv, PricedInv, ActiveIsScheduled, EndIsUnderway, StartOver
  <2> QED
    BY <2>3, <2>4 DEF PlanStep
<1>4. CASE UpdateLocked
  <2>1. /\ row.status = "ACTIVE" /\ row' = [row EXCEPT !.endTime = updater.endTime]
        /\ updater.pc = "locked" /\ updater' = [updater EXCEPT !.pc = "removeEnd"] /\ endJob' = endJob
    BY <1>4 DEF UpdateLocked, jobs
  <2>2. /\ row'.status = "ACTIVE" /\ row'.endTime = updater.endTime
        /\ updater'.pc = "removeEnd" /\ updater'.copy = updater.copy /\ updater'.endTime = updater.endTime
    BY <1>0, <2>1 DEF RowType, UpdaterType
  <2>3. ender.pc \notin Behind
    BY <2>1 DEF PlanInv, BehindInv
  <2> QED
    BY <1>1, <1>2, <2>1, <2>2, <2>3
    DEF PlanStep, PlanInv, UpdateInv, AloneInv, ForeignEndInv, BehindInv, PricedInv,
        ActiveIsScheduled, EndIsUnderway, StartOver
<1>5. CASE UpdateRefused
  <2>1. UNCHANGED <<row, endJob>> /\ updater.pc = "locked" /\ updater'.pc = "done"
    BY <1>0, <1>5 DEF UpdateRefused, UpdaterType, database, jobs
  <2> QED
    BY <1>1, <1>2, <2>1
    DEF PlanStep, PlanInv, UpdateInv, AloneInv, ForeignEndInv, BehindInv, PricedInv,
        ActiveIsScheduled, EndIsUnderway, StartOver
<1>6. CASE UpdateSavesCopy
  <2>1. /\ updater.pc = "save" /\ updater'.pc = "done" /\ endJob' = endJob
        /\ row' = [updater.copy EXCEPT !.endTime = updater.endTime]
    BY <1>0, <1>6 DEF UpdateSavesCopy, UpdaterType, jobs
  <2>2. row'.status = "PENDING"
    <3>1. updater.copy \in RowType /\ updater.copy.status = "PENDING"
      BY <1>0, <2>1 DEF UpdaterType, PlanInv, UpdateInv
    <3> QED
      BY <2>1, <3>1 DEF RowType
  <2>3. StartOver \/ ender.pc \notin Behind
    BY <1>2, <2>1 DEF PlanInv, JobsInv, Behind
  <2> QED
    BY <1>1, <1>2, <2>1, <2>2, <2>3
    DEF PlanStep, PlanInv, UpdateInv, AloneInv, ForeignEndInv, BehindInv, PricedInv,
        ActiveIsScheduled, StartOver
<1>7. CASE UpdateRemovesEnd
  <2>1. /\ updater.pc = "removeEnd" /\ row' = row /\ updater'.copy = updater.copy
        /\ updater'.endTime = updater.endTime
        /\ \/ endJob.state = "active" /\ endJob' = endJob /\ updater'.pc = "done"
           \/ endJob'.state = "none" /\ updater'.pc = "scheduleEnd"
    <3>1. CASE endJob.state = "active"
      BY <1>0, <1>7, <3>1 DEF UpdateRemovesEnd, UpdaterType, database
    <3>2. CASE endJob.state # "active"
      BY <1>0, <1>7, <3>2 DEF UpdateRemovesEnd, UpdaterType, database, NoJob
    <3> QED
      BY <3>1, <3>2
  <2> QED
    BY <1>1, <1>2, <2>1
    DEF PlanStep, PlanInv, UpdateInv, AloneInv, ForeignEndInv, BehindInv, PricedInv,
        ActiveIsScheduled, EndIsUnderway, StartOver
<1>8. CASE UpdateSchedulesEnd
  <2>1. /\ updater.pc = "scheduleEnd" /\ row' = row /\ updater'.copy = updater.copy
        /\ updater'.endTime = updater.endTime
        /\ \/ endJob' = Enqueued(endJob, updater.endTime) /\ updater'.pc = "ttl"
           \/ endJob' = endJob /\ updater'.pc = "failed"
    BY <1>0, <1>8 DEF UpdateSchedulesEnd, UpdaterType, database
  <2>2. row.endTime = updater.endTime /\ updater.copy.status = "ACTIVE"
    BY <2>1 DEF PlanInv, UpdateInv
  <2>3. Enqueued(endJob, updater.endTime).state \in {"delayed", "active"}
    BY <1>0, EnqueuedState DEF PlanInv, AloneInv, JobType
  <2>4. endJob.state = "none" => Enqueued(endJob, updater.endTime).due >= updater.endTime
    BY <1>0 DEF Enqueued
  <2>5. AloneInv' /\ UpdateInv'
    BY <1>1, <2>1, <2>2, <2>3 DEF PlanInv, AloneInv, UpdateInv
  <2>6. ForeignEndInv'
    BY <1>1, <1>2, <2>1, <2>2, <2>4 DEF ForeignEndInv, StartOver
  <2>7. BehindInv' /\ PricedInv' /\ ActiveIsScheduled'
    BY <1>1, <2>1, <2>3
    DEF PlanInv, BehindInv, PricedInv, ActiveIsScheduled, EndIsUnderway, StartOver
  <2> QED
    BY <2>5, <2>6, <2>7 DEF PlanStep
<1>9. CASE UpdateExtends
  <2>1. /\ updater.pc = "ttl" /\ updater'.pc = "done" /\ UNCHANGED <<row, endJob>>
        /\ updater'.copy = updater.copy /\ updater'.endTime = updater.endTime
    BY <1>0, <1>9 DEF UpdateExtends, UpdaterType, database, jobs
  <2> QED
    BY <1>1, <2>1
    DEF PlanStep, PlanInv, UpdateInv, AloneInv, ForeignEndInv, BehindInv, PricedInv,
        ActiveIsScheduled, EndIsUnderway, StartOver
<1> QED
  BY <1>3, <1>4, <1>5, <1>6, <1>7, <1>8, <1>9 DEF Update

LEMMA OthersKeepPlan ==
  ASSUME NothingRollsBack, BufferCovers, TypeInv, PlanInv, ~Canceled',
         Create \/ Cancel \/ Boot \/ Tick \/ Crash \/ UNCHANGED vars
         \/ \E b \in Bidders : PlaceBid(b) \/ SaveBid(b)
  PROVE  PlanStep
<1>1. CASE Create
  <2>1. UNCHANGED <<clock, keys, endJob, canceler, updater, starter, ender, boot>>
    BY <1>1 DEF Create, CreateSchedules, CreateFails, CreateCommits, redis, jobs, workers
  <2>2. /\ row.status = "NONE" /\ endJob.state = "none" /\ ender.pc = "idle" /\ updater.pc = "idle"
    BY <1>1 DEF Create, CreateSchedules, CreateFails, CreateCommits, PlanInv, EarlyInv, NoRow
  <2>3. row' = row \/ row'.status = "PENDING"
    BY <1>1 DEF Create, CreateSchedules, CreateFails, CreateCommits, database
  <2> QED
    BY <2>1, <2>2, <2>3
    DEF PlanStep, PlanInv, UpdateInv, AloneInv, ForeignEndInv, BehindInv, Behind, PricedInv,
        ActiveIsScheduled
<1>2. CASE Boot \/ Crash
  BY <1>2, LifecycleAssumption
  DEF Boot, BootFinds, BootChecks, BootReadsBids, BootMarksEnded, BootRestores,
      BootSchedulesEnd, Crash, NothingRollsBack, PlanInv, AloneInv, TypeInv, TypeOK
<1>3. CASE Cancel
  <2>1. CancelPrechecks \/ CancelRefused
    BY <1>3
    DEF Cancel, CancelCommits, CancelRemovesStart, CancelRemovesEnd, CancelCleansUp, CancelDropsPrice,
        PlanInv, Canceled
  <2>2. UNCHANGED <<clock, row, keys, startJob, endJob, creator, updater, starter, ender, boot>>
    BY <2>1 DEF CancelPrechecks, CancelRefused, database, redis, jobs, workers
  <2> QED
    BY <2>2
    DEF PlanStep, PlanInv, UpdateInv, AloneInv, ForeignEndInv, BehindInv, PricedInv,
        ActiveIsScheduled, EndIsUnderway, StartOver
<1>4. CASE Tick
  <2>1. /\ UNCHANGED <<row, startJob, endJob, creator, canceler, updater, starter, ender, boot>>
        /\ clock' = clock + 1 /\ clock \in Nat /\ row.endTime \in Nat
    BY <1>4, Known DEF Tick, database, jobs, api, workers
  <2>2. keys'.price = keys.price
    BY <1>4, TickKeepsKeys DEF PlanInv
  <2> QED
    BY <2>1, <2>2
    DEF PlanStep, PlanInv, UpdateInv, AloneInv, ForeignEndInv, BehindInv, PricedInv,
        ActiveIsScheduled, EndIsUnderway, StartOver
<1>5. ASSUME NEW b \in Bidders, PlaceBid(b) PROVE PlanStep
  <2>1. UNCHANGED <<clock, row, startJob, endJob, creator, canceler, updater, starter, ender, boot>>
    BY <1>5 DEF PlaceBid, jobs, api, workers
  <2>2. keys'.price # Null
    BY <1>5, BidRaises
  <2> QED
    BY <2>1, <2>2
    DEF PlanStep, PlanInv, UpdateInv, AloneInv, ForeignEndInv, BehindInv, PricedInv,
        ActiveIsScheduled, EndIsUnderway, StartOver
<1>6. CASE UNCHANGED vars \/ \E b \in Bidders : SaveBid(b)
  <2>1. UNCHANGED <<clock, row, keys, startJob, endJob, creator, canceler, updater, starter, ender, boot>>
    BY <1>6 DEF SaveBid, vars, database, redis, jobs, api, workers
  <2> QED
    BY <2>1
    DEF PlanStep, PlanInv, UpdateInv, AloneInv, ForeignEndInv, BehindInv, PricedInv,
        ActiveIsScheduled, EndIsUnderway, StartOver
<1> QED
  BY <1>1, <1>2, <1>4, <1>5, <1>6, <1>3

LEMMA NextKeepsPlan ==
  ASSUME NothingRollsBack, BufferCovers
  PROVE  TypeInv /\ PlannedInv /\ [Next]_vars => PlannedInv'
<1> SUFFICES ASSUME TypeInv, PlannedInv, [Next]_vars PROVE PlannedInv'
  OBVIOUS
<1>1. JobsInv' /\ SpansInv' /\ KeysInv' /\ EarlyInv'
  BY NextKeepsJobs, NextKeepsSpans, NextKeepsKeys, NextKeepsEarly DEF PlannedInv
<1>2. CASE Canceled
  BY <1>1, <1>2, CanceledStays DEF PlannedInv
<1>3. CASE Canceled'
  BY <1>1, <1>3 DEF PlannedInv
<1>4. CASE ~Canceled /\ ~Canceled'
  <2>1. PlanInv /\ ~Canceled'
    BY <1>4 DEF PlannedInv
  <2>2. PlanStep
    BY <2>1, StartKeepsPlan, EndKeepsPlan, UpdateKeepsPlan, OthersKeepPlan DEF Next
  <2>3. KeysStand'
    BY <1>1, <2>1 DEF KeysInv
  <2> QED
    BY <1>1, <2>1, <2>2, <2>3 DEF PlannedInv, PlanInv, PlanStep
<1> QED
  BY <1>2, <1>3, <1>4

LEMMA PlanHolds ==
  ASSUME NothingRollsBack, BufferCovers
  PROVE  Spec => []PlannedInv
  BY InitIsTyped, InitPlan, NextTypes, NextKeepsPlan, PTL DEF Spec

\* Until a cancelation has committed, however often the queue refuses the end
\* job, the auction is extended and the start job is retried, an active auction
\* has an end job that will run, or somebody on the way to schedule one.
THEOREM ActiveIsNotForgotten ==
  ASSUME NothingRollsBack, BufferCovers
  PROVE  Spec => []ActiveIsScheduled
<1>1. PlannedInv => ActiveIsScheduled
  BY DEF PlannedInv, PlanInv, ActiveIsScheduled
<1> QED
  BY <1>1, PlanHolds, PTL

\* In the same runs, until a cancelation has committed, an active auction at rest
\* has price and owner in Redis: every bid on it is compared with a price.
THEOREM ActiveCanBeBidOn ==
  ASSUME NothingRollsBack, BufferCovers
  PROVE  Spec => []ActiveHasKeys
<1>1. PlannedInv => ActiveHasKeys
  BY DEF PlannedInv, PlanInv, PricedInv, KeysStand, ActiveHasKeys
<1> QED
  BY <1>1, PlanHolds, PTL

=============================================================================
