# BidBattle, verified

TLA+ specifications of BidBattle (an Angular client and a NestJS server on MySQL, Redis,
BullMQ and Socket.IO): bids, the life of an auction, its rooms, the catalogue, accounts
and sessions, and what the client keeps in a tab. They are model-checked with TLC, with
theorems checked by TLAPS. Source paths are relative to the repository; `server/…`
abbreviates `src/server/src/…`.

## 1. The system

| component | state it keeps | operations | what is hard about it |
|---|---|---|---|
| live keys (`server/shared/redis/redis.service.ts`) | price, bidder, active, owner of an auction, each with a TTL | Lua bid script, initialize, extend, restore, clean up, roll back | getters swallow errors; only the script is atomic |
| bid placement (`server/modules/bid/bid.service.ts`) | one row per bid | `placeBid` | decides in Redis first, persists in MySQL second, compensates on failure; any number at once |
| auction commands (`server/modules/auctions/auctions.service.ts`) | the auction row | create, cancel, update, update images, list with cache | row locks that bids do not take; unlocked copies; jobs and keys changed after the commit |
| scheduler (`…/auction.scheduler.ts`) | two BullMQ jobs per auction | add, remove | fixed job ids, removal fails while a job runs |
| start processor (`…/auctions-start.processor.ts`) | – | PENDING → ACTIVE, rollback, reconciliation at boot | row, keys and end job change one after the other; retries; crashes |
| end processor (`…/auctions-end.processor.ts`) | – | ACTIVE → ENDED, cleanup, announcement | reads while bids still arrive; retries |
| rooms and presence (`…/bid.gateway.ts`, `ws-jwt.guard.ts`) | socket data, rooms, a participants hash per auction, a key per socket | connect, join, leave, rejoin, bid, current state, disconnect | handlers of one socket interleave at each await; the user may vanish in between |
| list cache (`auctions.service.ts`) | lists for 30 s | read, invalidate | a read older than the invalidation is cached after it |
| images (`auctions.service.ts`, `file-upload.service.ts`) | files, image rows, main image | replace | two stores that fail separately; rows saved from an old copy |
| sessions and tokens (`server/modules/auth`, `users-token.service.ts`) | user, user_tokens, exchange codes | register, verify, login, refresh, logout, reset, OAuth | one-time tokens checked and used in two steps |
| users (`server/modules/users`) | profile, preferences, avatar | read, change, delete the account | whole rows are saved from a copy; files and rows |
| mail (`server/shared/mail`) | queue | enqueue, send, retry | letters carry links that may be dead by then |
| client: session (`client/…/auth.service.ts`, interceptors, guards, auth pages) | token, user, requests, navigation | answers, shared refresh, logout, page changes | one refresh for many requests; pages left while requests run |
| client: socket link (`socket-connection.ts`) | socket, status, subscriptions | connect, disconnect, on | sockets reconnect, drop and are replaced |
| client: toasts (`notification.service.ts`) | a bounded list, two timers each | push, dismiss, remove | a repeated message meets one that is leaving |

`PROJECT.json` lists every component with its status, and under `hazards` each place
where the code can go wrong in a way a test hardly reaches.

How the core interacts: a socket event reaches `placeBid`, which reads three keys, runs
the script and inserts the row. `createAuction` adds the start job; its worker activates
the row, sets the keys and adds the end job; the worker of that job reads price and
bidder, writes the result, deletes the keys and tells the room. `cancelAuction` and
`updateAuction` change the same row, jobs and keys from HTTP requests. After a crash
BullMQ delivers running jobs again, and the reconciliation restores ACTIVE auctions
whose active key is missing.

What makes each part correct:

- bids: the live price covers every saved bid, no two saved bids tie, the owner never
  bids, answers are true, every bid is answered, a rollback leaves Redis in agreement
  with the table;
- end: one result is announced, it is in the row, and it is the best saved bid;
- lifecycle: an ACTIVE auction has keys and an end job, the end follows the row's end
  time, every auction finishes, a boot restores the leader;
- rooms: a socket that is bound to an auction is counted in it, bids come from the room
  only, announced counts are right, nobody is counted who is not there;
- catalogue: a list that is out of date comes from a race of one reader and ages out;
  image rows name stored files;
- accounts: what was used or revoked stays so, a password change ends the sessions, a
  declined mail stays declined, the avatar is a stored file or a provider's photo, a link
  that was mailed works;
- client: nobody waits for a token that nobody asks for, there is no half session, toasts
  go away, listeners sit on the current socket.

A user's way crosses the parts: a tab's `Session` gets the token that `Accounts` signed,
`SocketLink` opens the socket that `AuctionRoom` admits, and a bid that passed the room's
checks is a request of `BidPlacement`. Each arrow is a message that may be lost or late,
so the receiving module takes whatever the sender can send, and nothing more is shared.

## 2. Modules

| module | models |
|---|---|
| `AuctionKeys` | the keys, the script and the increment rule as operators |
| `BidPlacement` | concurrent `placeBid` calls and the end processor on one ACTIVE auction |
| `OrderlyBids` | `BidPlacement` with a history: whether bids came one after the other |
| `OpenAuction` | the abstract promise: an open ascending auction |
| `AuctionLifecycle` | row, jobs, keys, API calls, processors, reconciliation, time and crashes of one auction |
| `AuctionRoom` | the gateway's handlers over rooms, `client.data`, participants hash and socket keys |
| `Catalog` | the row a visitor sees, its images and files, and the cached lists |
| `Accounts` | one account: tokens, sessions, links by mail, OAuth, profile, avatar, preferences |
| `Toasts`, `Session`, `SocketLink` | the three state machines of a tab of the client |
| `Client` | their composition: what the user does, what follows by itself, what the network does |
| `MC…` | instances for TLC: users, sets of faults, symmetry |
| `BidProofs`, `WinnerProofs`, `OpenProofs` | theorems about `BidPlacement` and `OpenAuction`, and the refinement between them |
| `LifecycleProofs`, `RoomProofs`, `CatalogProofs`, `AccountProofs`, `ClientProofs` | theorems about `AuctionLifecycle`, `AuctionRoom`, `Catalog`, `Accounts` and `Client` |

**Correspondence.** A call is a record: its program counter names the await it is at,
the other fields are the locals of the handler that outlive the await. One action is the
code between two awaits that touch shared state. In `BidPlacement` these are the three
reads (`Promise.all` sends three commands, and other clients' commands come in between),
the script, the insert, and the TTL read and the two writes of `rollbackBid` (a pipeline
is not a transaction). `accepted` is the only history variable: the bids accepted by the
script, in order. In `AuctionLifecycle` a bid is one script and one insert; its own
interleavings are the subject of `BidPlacement`.

In `AuctionRoom` a handler of the gateway is a record too. Handlers of one process share
one Redis connection, whose replies come in the order of the commands: `replies` is the
queue of the handlers that wait for it, and only its head goes on (`Replied`); a look-up in
the database may answer in any order. A step may find that the socket has closed, or that
another handler has taken `client.data.user` away. Histories name what a property excludes:
`failed` (a command was refused), `misread` (a look-up threw), `lapsed` (a handler lost its
user on the way), `odd` (a socket sent events the client does not send: joining a second
room without leaving, acting while it is still connecting).

In `Accounts` and `Catalog` a request's record holds the entity it read (`copy`), because
`save()` writes it back. Tokens, links and exchange codes are numbers; what happens to one
is the state of its row. `Accounts` counts half seconds: MySQL rounds `passwordChangedAt`
to a second and a token's `iat` is cut off, and the comparison of both is what a password
change rests on. In `Catalog` every query lists the one auction while it is ACTIVE, and the
jobs and commands of `AuctionLifecycle` appear as the row changes and invalidations they
make.

In `Session` an action is the handling of one answer: what loading, auth, refresh and
error interceptor, the token queue and the page do to it happens in one turn of the
browser. `nav` is the navigation in progress, which a later one ends; leaving a page
unsubscribes from the requests of its form. `Client` puts the three machines together and
bounds what the user and the network do by `MaxEvents`; `SessionGoes` and `Opens` are not
bounded.

Operators named as mutated forms in the comments describe a plausible slip in the code;
the specifications do not use them. Each property is confirmed to fail when the
definition listed under `mutants` is replaced by such a form.

**Abstractions.**

- Prices are integers, as in the database (smallest currency unit). The default absolute
  floor of 0.01 (`config.service.ts`) acts like 1 on integer amounts (`@IsInt` in
  `PlaceBidDto`), so `MinAbsolute` is at least 1. The percentage of the runs (30) is large
  so that the increment differs between the prices of an instance.
- The clock is coarse, but finer than a second (`Second = 2` ticks), because a TTL is cut to
  whole seconds (`Remaining`) and the delay of a job is not: `StartTime = 1`, `EndTime = 4`,
  an extension to 5, `MaxTime` 5 in `LifeExtend` and 6 elsewhere. `Buffer = 9` is the hour by
  which price and owner outlive the active key, longer than any run. The backoff of a retry
  is "due again at once", which allows every order.
- The least delay of 2 s between `createAuction` and its job normally outlasts the commit;
  `slow_commit` drops that.
- `save()` of an entity that was read earlier writes back each column that differs from
  the current row, so the row becomes the copy.
- There is one server process, which accepts requests once its bootstrap hooks are done
  (`main.ts`); queue workers run before that. `Serving` is that guard.
- Wording and languages of answers, templates of mails and contents of files are data and
  left out, as is a bid answer's re-read of the price, which is text.
- `Accounts` has one account and one OAuth provider with a verified e-mail. Accounts share
  no row; a second provider takes the same steps.

**Faults.** Each run names what may fail in it, in the constant `Faults`; the header of
each module explains them. Without a fault in the set, the corresponding call succeeds.

**External code.** BullMQ (a fixed job id is added once; a failed job stays and blocks its
id; `remove` throws on a running job; a stalled job is delivered again), Redis (atomic
commands and scripts, expiry, replies in order on one connection), MySQL (row locks, atomic
transactions, unique indexes), Socket.IO (rooms, a disconnect that leaves them, a client
that reconnects by itself) and the browser (timers, navigation, page loads) are modelled by
what the code relies on, and marked external where an action is nothing else.

## 3. Runs

Passing runs:

| run | instance | shows |
|---|---|---|
| `BidHealthy` | 3 bids, 3 users, amounts 3, 4, 6, no faults | the leader is a real bid; price covers rows, no ties; the winner is the best row; the code implements `OpenAuction` |
| `BidFaulty` | 2 bids; failing reads, replies, rollbacks, unacknowledged inserts, crashes, end retries, early end | types; the owner never bids; answers are true; the announced result is the recorded one |
| `BidLive` | 2 bids, failures of script, insert and rollback; fair | bids that follow one another leave Redis agreeing with the rows; every bid is answered, the auction settles |
| `LifeExtend` | extension and cancelation, symmetric bidders; slow commit, queue failures | types; until a cancelation has committed, an activation that is retried, and a rescheduling, keep keys, price and end job |
| `LifeCrash` | one crash anywhere that may lose Redis; database and Redis failures | at most one announcement, true to the row; the reconciliation restores the leader |
| `LifeLive` | cancelation; fair | the end job is due at the row's end time, the keys close less than a second before it; bids are followed by an announcement; every auction ends or is canceled |
| `Rooms` | 2 sockets of one user, 2 auctions, 2 handlers at once, 3 events; failing Redis and database, expiring keys | bound sockets are counted, bids come from the room, presence settles, the hash mirrors the room, winners can be told |
| `Accounts` | 2 requests at once of 3, 2 half-seconds, 3 tokens, 2 passwords, 2 files, a provider with or without a photo; one step throws, or one deletion fails | used is used, revocation sticks, an opt-out sticks, the avatar is kept, a mailed link works |
| `Catalog` | 2 requests or jobs at once of 4, 2 queries, 3 files, 2 images; every fault | types; a stale list only by a race or a failure; image rows name files |
| `Client` | 3 requests, 2 messages and toasts, 2 sockets, 1 subscription, 4 events | types and the spinner's count; waiters are released; no half session; toasts go away; listeners are on the current socket |

**Why the bounds suffice.** The races of `placeBid` are between a bid, a bid that
overtakes it, and (for ties and leaders) a third that follows; with three users one is the
owner and two can alternate. Two bids suffice where the property is about one bid and the
end of the auction. Three amounts are one too low after the first bid, one that just beats
it and one that beats both. One auction suffices for the lifecycle because auctions share
no state (except the paging of the reconciliation). Two attempts of a job include the
first, a retry and the exhaustion; one crash is enough since a second finds the states that
the first can leave. A command is given once: two cancelations are serialized by the row
lock.

Two sockets of one user are two tabs: a count of 1 or 2, and an event of one tab against
the other's. Three events let a socket move from one room to another while a handler of
its own is waiting; the steps of handlers, revocations counted, are not otherwise bounded.
In `Accounts` the races are between two requests, and a third finds what they leave; three
tokens are a session, its successor or a link, and the link that replaces it. Two half
seconds tell the rounding of `passwordChangedAt` from the cut of `iat`. In `Catalog` an old
reader, a change and a second query or edit make four; three files are the old image, its
replacement and one more. In `Client` one request refreshes and two wait; a second message
and a second socket are enough to displace the first.

Each property of a passing run fails when the definition listed under `mutants` in
`PROJECT.json` is replaced by its mutated form, so each bound lets the case happen that the
property is about. `CHECK_DEADLOCK FALSE` everywhere, because an instance really stops when
its bids, commands or events are used up and its clock has run out.

**Fairness.** `BidPlacement`: the event loop resumes each await (`Serve`), Redis expires
the active key, a worker runs the end job. `AuctionLifecycle`: time passes, workers take
due jobs and run them, a request that was made runs to its end. All are weak: none of the
steps is disabled and enabled again forever. Nobody has to bid, no command has to be
given, and no failure has to happen or to stop happening. `TracedSpec` of `OrderlyBids` is the
fair `BidPlacement` with a history variable that no action reads. The other modules state
safety: what a tab or a request must eventually do is up to its user and the network.

## 4. Where code and documentation disagree

Two runs check a statement quoted from a comment, and TLC finds a behaviour of the code
that violates it; the quotations are under `findings` in `PROJECT.json`.

| run | behaviour |
|---|---|
| `BidRollbackRace` | the insert of a bid fails after a second bid was accepted; the rollback writes its older snapshot and the live price falls below a saved bid |
| `LifeCancelBid` | the count under the lock does not exclude bids; a canceled auction has a saved bid |

The same models show further behaviours that limit what the passing runs can state. Most
are recorded under `hazards`, at their lines; histories (`odd`, `lapsed`, `lost`, `mixed`,
`raced`, `abandoned`, `overtaken`, `replaced`, …) name the condition under which a property
is stated instead.

*Bids and lifecycle.*

- a bid is held to the increment of the price it read, not of the price it beats;
- an end job that starts before the active key has expired (`early_end`) reads price and
  bidder while a later, higher bid is still accepted, saved, and loses;
- an update saves the PENDING copy it read over a row that became ACTIVE meanwhile, though a
  comment (`server/modules/auctions/auctions.service.ts:328`) rules live bids out there;
- canceled between activation and scheduling, the end of a canceled auction stays scheduled;
- the last step of a cancelation, `invalidatePriceCache` (line 312 there), is meant for a
  cache, but its key `auction:<id>:price` is the live price
  (`server/shared/redis/redis.service.ts:34`). The row is CANCELED by then; where a start
  processor or an extension writes PENDING back over it and the auction is activated (again),
  the cancelation takes the price from under a live active key, or removes the new end job.
  The properties of `LifeExtend` therefore end with the commit of a cancelation
  (`~Canceled`): without that guard TLC finds each of `ActiveIsScheduled`, `ActiveHasKeys`
  and `LivePriceNeverFalls` violated in this way;
- the active key expires up to a second before the row's end time, when the TTL was cut to
  whole seconds: bids are refused in that time, and the end job comes after it;
- the end job takes a price read that failed (null) for an auction already cleaned up, and is
  done: with `read_fails` in `BidLive`, TLC finds an auction that never settles;
- an activation that cannot schedule its end writes PENDING whatever the row holds by then:
  over CANCELED when a cancelation committed meanwhile, over ENDED when the reconciliation
  and the end job were faster;
- keys and end job follow an end time read before the lock, so an extension is lost;
- a failing `initializeAuction` is swallowed and leaves an ACTIVE auction without keys;
- keys set, end job not, crash: the reconciliation takes the auction for healthy;
- a PENDING auction whose start job is gone is not rescheduled at boot;
- a boot after the end time ends an auction with bids without a winner, and the price
  restored after a loss of Redis is the start price;
- a start job retried after the end time ends an auction whose first activation had taken
  bids, and a crash between commit and announcement leaves a result unannounced.

This is why each lifecycle run has its own set of commands and faults: `LifeExtend` has both
commands, a failing queue and slow commits but no crash, `LifeCrash` no commands or queue
failures, `LifeLive` a cancelation and no failures.

*Rooms.*

- a token that expires clears `client.data.user` before the socket is closed, so the
  disconnect handler takes it for a guest and its participants entry stays;
- rejoining does not leave the previous room, and two joins sent without waiting bind the
  socket to one auction and leave it in both rooms;
- a join that waits while its socket disconnects adds the entry after the removal;
- a handler that reads the user again in its log line throws when it is gone, and the
  presence update of its room is not sent;
- after a password change `revalidateSocket` throws before it can clear the user: the
  branch for a user who is gone is not reached;
- the client sends its token in the handshake's `auth`, the guard reads the Authorization
  header only.

*Catalogue.*

- a title changed while the images are edited writes the old main image back; an edit
  writes back the status it read;
- an auction that the boot ends stays in cached lists up to 30 seconds, as it does when the
  call to the queue before the invalidation throws;
- a commit whose acknowledgement is lost is handled as a failure and its new files deleted.

*Accounts.*

- a refresh, a reset link and an exchange code are looked up and used up in two steps: two
  requests at the same time both succeed;
- a password reset does not revoke the refresh tokens, and a login that overlaps a change of
  the password keeps its session;
- `save()` of a profile read earlier writes back an older `passwordChangedAt` or undoes a
  deletion; an e-mail that was deleted cannot be registered again;
- preferences that two requests find missing are created twice, the second time over an
  opt-out;
- the avatar of a user who came by OAuth is the provider's URL
  (`server/modules/auth/auth.service.ts:307`): replacing or removing it asks the file store to
  delete a path that is not there, and `deleteFile` logs that and goes on, as it does when the
  deletion of a stored file fails, which then stays without an owner (`failed`).

*Client.*

- the error interceptor sees an answer before the refresh interceptor does: a 401 with a
  token in memory logs out, and only a user without a token gets a refresh;
- a retry that fails logs out although the refresh succeeded, and rejects the waiters of
  another refresh;
- leaving the page whose request refreshes leaves the flag set, and later requests wait for
  nobody (`abandoned`); a logout while a refresh runs is followed by a token without a user
  (`overtaken`);
- closing a toast a second time while it leaves cancels its removal (`reclosed`);
- `connect()` before the socket is connected makes a second one (`replaced`); a logout does
  not close it.

## 5. Proofs

All assumptions about constants are the named `ASSUME`s of the modules: the owner is a
user, prices, times and limits are natural numbers, the floor is positive, `Null` is no
user, price, file or auction, a provider's photo is no stored file, a second is a positive
number of ticks, `NoSocket` is no socket, the sockets of a run are finite in
number, as are the requests of the client, which shows at least one toast. Bids, calls,
users, amounts, sockets, auctions, tokens, attempts and crashes are arbitrary, and so are
the client's requests where only their finiteness is assumed. Faults are arbitrary too,
except where a theorem names those that must be absent; each of those conditions is an `ASSUME`
of the theorem, and a behaviour of section 4 is the reason for it.

An invariant is proved by an inductive strengthening, with one lemma per action or group of
actions. What several lemmas need about records and sequences (replacing one call,
removing the head of a queue, the last element of an appended sequence) is a lemma too.

*Bid placement.*

- **`BidProofs!TypeCorrect`**: `Spec => []TypeOK`. One lemma per group of actions
  (`ReadsType`, `ScriptType`, `RollbackType`, `EndType`, …), on top of `ReplaceRequest`,
  which says that replacing one call record by a well-typed one keeps all of them so.
- **`BidProofs!LedgerIsCovered`** and **`RowsNeverTie`**: if no insert fails
  (`RollbackFree`), then `Spec => []PriceCoversRows` and `Spec => []NoTiedRows`. Neither is
  inductive: at the moment a row is inserted, nothing in the table tells that its amount is
  covered. The strengthening `LedgerInv` speaks of *claims*, the rows plus the bids that are
  between script and insert: claims are covered by the price and pairwise distinct, no
  rollback is in progress, a row's call is done, and an active auction has a price. The interesting
  step is `AcceptKeepsLedger`: an accepted amount exceeds the current price by at least
  the absolute floor (`IncrementHasFloor`, `AcceptedMeans`), whatever stale price the
  increment came from, hence exceeds all claims. The condition is needed:
  `BidRollbackRace` is the counterexample without it.
- **`BidProofs!OwnerIsShutOut`**: `Spec => []OwnerNeverBids`. `OwnerInv` follows the
  owner's name through the locals: what was read as owner is the owner or nothing, no
  snapshot names the owner as bidder, and no call of the owner is past the script. The step
  that matters is `PassedIsNotOwner`: a read that failed yields Null, and Null blocks.
- **`BidProofs!AnswersStayTrue`**: `Spec => []AnswersAreTrue`, if Null is no reply.
  `AnswerInv` adds that a call is unanswered until it is done and that a row exists from
  the insert on only.
- **`BidProofs!AnnouncementsAreRecorded`**: `Spec => []AnnouncedIsRecorded`. `EndInv`
  says that an attempt whose flag `updated` is set has committed and still holds what it
  wrote, also when the attempt fails for good.
- **`BidProofs!RollbackIsComplete`**: `TracedSpec => []RollbackRestores`, for every set of
  faults and whenever the sale ends: as long as bids came one after the other and nothing
  but inserts failed, Redis agrees with the table again when no bid is in flight. `OrderInv`
  says that the one call in flight remembers a leading pair that agrees with the table
  (`Agrees`) until its insert succeeds, and that the rollback puts it back in two steps.
  Two bids in flight break it: that is the finding of `BidRollbackRace` (section 4).
- **`WinnerProofs!LeaderHasBid`** and **`RedisAgrees`**: if no insert fails and no reply of
  the script and no process is lost (`NothingIsLost`), the leader in Redis is a user whose
  bid is or will be a row, and Redis agrees with the table whenever no call is under way.
  `BackedInv` says that the keys hold one of the claims, or the start price and nobody.
  `CallStep` reduces each step of a call to what it does to the claims: it passes, dies,
  records a claim, or takes the lead with a new one.
- **`WinnerProofs!BestBidWins`**: if also the end job reads final keys
  (`FinalKeysAreRead`: no failing read, no early end), the row of an ended auction names
  the best bid of the table. `FinalInv` says why the job's three reads are as good as one:
  it starts after the active key is gone, and without that key nothing is accepted.
  `ResultInv` carries the result over inserts that come after the end.
- **`WinnerProofs!BidsFormAnOpenAuction`**: `Spec => ImplementsOpenAuction`, the refinement
  of `OpenAuction` (initial state, steps and stuttering), if no insert fails and the end
  job reads final keys; replies and processes may be lost. `RefInv` puts together types,
  `LedgerInv`, `OwnerInv`, `FinalInv` and `MirrorInv`: keys, and in the end the row, hold
  the last offer, and each claim is an offer. `CallRefines` and `EndRefines` show each
  step to take an offer, record one, close the sale, settle it, or stutter.
- **`OpenProofs!OffersAlwaysAscend`** and **`ResultIsAlwaysBest`**: the abstract auction
  keeps its promise under `OpenAssumption`; `OpenInv` adds that each offer exceeds the
  start price and that the result is literally the leader and the floor of the closed sale.
  By the refinement, `placeBid` keeps both.

*Life of an auction.*

- **`LifecycleProofs!TypeCorrect`**: `Spec => []TypeOK`. `DurationsInv` adds that a key is
  only given a positive time to live, so that an expiry is a time.
- **`LifecycleProofs!OneResultIsAnnounced`**: at most one result is announced, and it is
  the one in the row, whatever crashes, retries, stalls, cancelations and boots come in
  between. The condition `NoWriteBack` excludes the two writers of a status that was read
  earlier (section 4): updates, and the rollback of an activation that could not schedule
  its end. `RecordInv` says that nothing happens before the row exists (`EarlyInv`), that
  the end job that ended the auction still holds what the row says while it cleans up
  (`PendingInv`); by `EndedStays` nobody changes the result of an ended row.
- **`LifecycleProofs!LivePriceStands`**: `Spec => LivePriceNeverFalls`, for every fault,
  crash and command, until a cancelation has committed, and until the hour after the first
  end time is over (`BufferCovers`: `MaxTime + Second <= EndTime + Buffer`).
  `SpansInv` bounds from below every end time that was read or written, and what is left of
  it in whole seconds (`WholeSecondsBounds`, `RemainingBounds`); with it `KeysInv`
  says that, unless a cancelation has committed (`CanceledStays`), keys expire no earlier
  than that hour but for less than a second, and that an active auction has a price
  (`KeysStand`). The steps of a cancelation before its commit leave the keys alone
  (`CancelSparesKeys`); `BidRaises` then is the one step that moves the price. The condition
  on the hour is needed: an activation
  that the queue made roll back, an extension by more than the hour and a retry of the
  start job give an active key that outlives the price of the first attempt.
- **`LifecycleProofs!LeadIsRestored`**: `Spec => BootRestoresLeader`, without a condition.
  `LeaderInv` adds that no insert of a bid is under way while the server boots, because
  requests are served after the hook (`Serving`): so what the hook has read of the bids
  table is still true when it writes the keys.
- **`LifecycleProofs!EndsWhenTheRowSays`**: `Spec => []EndFollowsRow`, with crashes, late
  commits, failing transactions, a lost Redis and cancelations (`EndIsFixed` excludes
  updates and failing writes to keys and queue). What it says of the keys is to the second: their TTL loses
  less than one. `TimesInv` carries the one end time through
  every handler that has computed something from it; `OpenInv` says that until a second
  before it the active key is there or about to be, and that the cleanup of a cancelation meets a row
  that is no longer active.
- **`LifecycleProofs!BiddersAreTold`**: `Spec => []EndedIsAnnounced`, for all commands and
  all faults but a crash and a queue that refuses jobs (`NothingDies`). `AheadInv` says that
  as long as the start job has its work before it nobody can have bid, and the end job
  finds no price; `ToldInv` that an ended auction is announced, was never open, or is with
  the end job that will announce it.
- **`LifecycleProofs!ActiveIsNotForgotten`** and **`ActiveCanBeBidOn`**:
  `Spec => []ActiveIsScheduled` and `Spec => []ActiveHasKeys`, when the queue refuses jobs,
  commits are late, the auction is extended at any time, and until a cancelation has committed
  (`NothingRollsBack`, `BufferCovers`). `PlannedInv` joins the invariants about jobs, spans and
  keys with `PlanInv`, which is needed until that commit only, and is one invariant for both: an end job that is there before the
  start job is over was added by an update, for the end time of the row (`ForeignEndInv`),
  so an end processor that has passed its commit leaves no auction that could become active
  again (`BehindInv`), and a price an end job does not find is still being set (`PricedInv`).

*Rooms.*

- **`RoomProofs!TypeCorrect`**: `Spec => []TypeOK`. `TypeInv` adds that each handler's
  record is sound for the await it is at, and that a handler waits for Redis exactly if it
  is in `replies`, once (`LeavesQueue`, `JoinsQueue`).
- **`RoomProofs!BoundIsCounted`**: `Spec => []BoundSocketsAreCounted`, which is inductive
  together with the types.
- **`RoomProofs!WinnersAreTold`**: `Spec => []WinnersCanBeTold`. `ToldInv` follows a socket
  from its handshake to its personal room: whose user is known or looked up is no guest.
- **`RoomProofs!BidsAreFromTheRoom`**: `Spec => []BidsComeFromTheRoom`. `BidInv` adds that
  handlers belong to sockets that have connected, and that who has a key was a user when
  it was written.
- **`RoomProofs!RoomIsMirrored`**: `Spec => []RoomMirrorsHash`. `MirrorInv` adds why a
  regular socket (neither `lapsed` nor `odd`) agrees with the hash: it is in the one room it
  is bound to, and open, and in none before its user is known. Entering, leaving and closing
  keep that, each by a lemma of its own (`EnteringMirrors`, `LeavingMirrors`,
  `ClosingMirrors`).
- **`RoomProofs!PresenceIsSettled`**: `Spec => []PresenceSettles`. `PresenceInv` says that
  a handler still `Owes` the room a count, or the last count that is to be told, in the queue
  of replies or shown already, is the current one: Redis answers in the order of its
  commands, so a newer count is never told before an older one.

*Catalogue.*

- **`CatalogProofs!TypeCorrect`**: `Spec => []TypeOK`, with a sound record of each reader and
  writer: an edit has a choice of images exactly from its upload to its commit.
- **`CatalogProofs!PagesAreCurrent`**: `Spec => []StaleOnlyByRace`. `Covered` says which call
  is still to delete a page that is out of date (`WillDelete`): one that has not begun to
  scan, or has the key before it; a query that stores afterwards is one that `raced`.
- **`CatalogProofs!ImagesAreKept`**: `Spec => []ImagesMatchFiles`. `WholeInv` follows the
  files of an edit while they are in one store only (`NamesAreFresh`, `FilesAreThere`), so
  that no other call deletes or reuses them; `StrayInv` that every other file is in a row,
  or with a call that will delete it.

*Accounts.*

- **`AccountProofs!TypeCorrect`**: `Spec => []TypeOK`, with a sound record of each request.
- **`AccountProofs!OverStaysOver`**: `Spec => []OverIsOver`. `OverInv` says that a token
  that counts as over is neither live nor still to be issued: only issuing makes a token
  live, and what is issued was never over.
- **`AccountProofs!OptOutIsKept`**: `Spec => []OptOutSticks`. `OptOutInv` adds that a
  job that came for a user who had declined holds a row that says so.
- **`AccountProofs!RevocationIsKept`**: `Spec => []RevocationSticks`. `RevocationInv` says
  that the row holds the rounded time of the last change; `RoundedIsNear` bounds the
  rounding, which is what makes tokens of the time before invalid.
- **`AccountProofs!LinksWork`**: `Spec => []MailedLinkWorks`. `LinksInv` speaks of the links
  that were mailed or will be (`Issued`): one is good, or they are all gone and a request is
  about to issue another. A request that drops the links of its type is then such a request
  (`DropKeepsLinks`), in whatever order several do.
- **`AccountProofs!AvatarStays`**: `Spec => []AvatarIsKept`. `AvatarInv` says who holds a file
  that is not the avatar: the request that is about to save it, or the one about to delete
  it; a new file is nobody else's (`NewFilesAreFresh`), and what is deleted as the old
  avatar is not the avatar unless a save was lost (`OldIsOld`). A login with a provider brings
  no file (`OAuthKeepsAvatar`: its user is new, and the avatar a photo or none); after a
  deletion that failed nothing is promised.

*Client.*

- **`ClientProofs!WaitersReleased`** and **`TokensHaveUsers`**: `Spec => []WaitersAreReleased`
  and `Spec => []NoHalfSession`, from one invariant `SessionInv`: a refresh that is
  under way has a user unless a logout overtook it.
- **`ClientProofs!LinkIsCurrent`**: `Spec => []SocketIsCurrent`; `LinkInv` adds that the
  current socket exists and that what is attached is attached to a socket.
- **`ClientProofs!ToastsLeave`**: `Spec => []ToastsGoAway`. `GoodToasts` adds that toasts
  are distinct, and each of push, dismiss, remove and timer keeps it
  (`PushKeepsToasts`, `DismissKeepsToasts`, `RemoveKeepsToasts`).
- **`ClientProofs!TypeCorrect`**: `Spec => []TypeOK`. `Spinner` says that the count is the
  number of requests and logouts in progress, whether they are answered, wait for a token, are
  sent again or are dropped with their page. It needs finitely many requests, and that `Null`
  is neither a kind nor a page (`SessionAssumption`).

Model-checked only: liveness (`EveryBidIsAnswered`, `AuctionSettles`,
`EveryAuctionFinishes`), because fairness and ENABLED are beyond the prover. Every other
property of a passing run is stated by a theorem; some theorems name conditions that the
runs, with their bounds and faults, do not need.

## 6. Not modelled

- Cookies, configuration, health checks, migrations, translations, templates, validation
  decorators, pages and rendering keep no state that two actors share, or are read once at
  start. What the modelled handlers rely on (a form that is not sent twice, unique columns,
  requests served after the bootstrap hooks) is in their guards.
- Queries that only read: their answers are not remembered, except the list that is cached.
- The paging of the reconciliation over `status = ACTIVE` while it ends rows of that page: a
  hundred rows per page are needed for it to matter, and shrinking the page would only
  restate the arithmetic. It is listed as a hazard.
- The order of the broadcasts of two accepted bids: it follows the order of their inserts,
  which `BidPlacement` leaves open, and the client does not reorder. Listed as a hazard.
- The rate limit of the gateway, which only drops events; any event may be missing in
  `AuctionRoom`.
- The dialogue with the OAuth providers and with the SMTP server, which is theirs.
- Several processes of the server: the gateway keeps rooms in memory without an adapter, so
  the code is written for one.
- A composition of client and server in one run. Each is checked against everything the
  other may send; the product of both would be checked at sizes where neither shows its
  races.
