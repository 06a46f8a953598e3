------------------------------- MODULE Catalog -------------------------------
(***************************************************************************)
(* What visitors see of an auction: its row and its image rows in MySQL,   *)
(* the image files in the upload directory, and the pages of the list of   *)
(* active auctions that AuctionsService caches in Redis, one per query.    *)
(*                                                                         *)
(* A request or a job in progress is a record of calls, one action per     *)
(* await that touches shared state.  A page holds the auction while it is  *)
(* ACTIVE; every query lists the auction here.  The checks that need bids  *)
(* or an owner only refuse requests and are left out.                      *)
(*                                                                         *)
(* The repositories' save of a loaded entity writes back every column it   *)
(* was read with, and inserts a row that is gone.                          *)
(*                                                                         *)
(* Faults: redis_fails (a cache command is refused, its error swallowed),  *)
(* queue_fails (a job cannot be added or removed), db_fails and            *)
(* commit_lost (the transaction of an edit throws, without or with effect),*)
(* upload_fails, delete_fails, crash (the process restarts).               *)
(***************************************************************************)
EXTENDS Naturals, FiniteSets

CONSTANTS Calls,       (* bound: requests and jobs in progress at once      *)
          MaxRequests, (* bound: requests and jobs                          *)
          Keys,        (* cache keys: the queries                           *)
          Titles, Files, Null,
          MaxImages,   (* MAX_IMAGES, 10 in the code                        *)
          Faults

ASSUME CatalogAssumption ==
  /\ MaxRequests \in Nat /\ MaxImages \in Nat \ {0}
  /\ IsFiniteSet(Files) /\ Null \notin Files \cup Keys \cup Titles
  /\ Faults \subseteq {"redis_fails", "queue_fails", "db_fails", "commit_lost", "upload_fails",
                       "delete_fails", "crash"}

VARIABLES auction,   (* its row: status, title and mainImageUrl             *)
          images,    (* the rows of auction_images, by their file           *)
          primary,   (* those with isPrimary                                *)
          files,     (* the upload directory                                *)
          cache,     (* Redis: of a key no page or one                      *)
          calls, requests,
          raced,     (* history: keys whose page was out of date when set   *)
          orphans,   (* history: files given up by a failure or a refusal   *)
          overlapped,(* history: a save wrote over what it had not read     *)
          unsure,    (* history: a transaction committed and threw          *)
          failed     (* history: an invalidation was lost                   *)

rows == <<auction, images, primary>>
history == <<raced, orphans, overlapped, unsure, failed>>
vars == <<rows, files, cache, calls, requests, history>>

Fault(f) == f \in Faults

Idle == [op |-> Null, pc |-> "idle", key |-> Null, page |-> {}, copy |-> Null, title |-> Null,
         rows |-> {}, was |-> {}, keep |-> {}, new |-> {}, first |-> Null, loose |-> {},
         todo |-> {}, found |-> {}]

\* As createAuction leaves it, with one image.
Init ==
  /\ \E f \in Files, t \in Titles :
       /\ auction = [status |-> "PENDING", title |-> t, main |-> f]
       /\ images = {f} /\ primary = {f} /\ files = {f}
  /\ cache = [k \in Keys |-> {}]
  /\ calls = [c \in Calls |-> Idle] /\ requests = 0
  /\ raced = {} /\ orphans = {} /\ overlapped = FALSE /\ unsure = FALSE /\ failed = FALSE

\* The page of a query answered now.
Listing == {a \in {auction} : a.status = "ACTIVE"}

Editable == auction.status \in {"PENDING", "ACTIVE"}

At(c, pc) == calls[c].pc = pc
Goto(c, pc) == calls' = [calls EXCEPT ![c].pc = pc]
Return(c) == calls' = [calls EXCEPT ![c] = Idle]

Asks(c, call) ==
  /\ At(c, "idle") /\ requests < MaxRequests
  /\ requests' = requests + 1
  /\ calls' = [calls EXCEPT ![c] = call]

Call(op, pc) == [Idle EXCEPT !.op = op, !.pc = pc]

\* What is left to do once the change is in the database.
Invalidates(op) == [Call(op, "scan") EXCEPT !.todo = Keys]

-----------------------------------------------------------------------------
(* findActiveAuctions: getCache, the query, setCache *)

\* A hit is answered from the page; a refused command is a miss.
ListMisses(c, k) ==
  /\ cache[k] = {} \/ Fault("redis_fails")
  /\ Asks(c, [Call("list", "query") EXCEPT !.key = k])
  /\ UNCHANGED <<rows, files, cache, history>>

ListQueries(c) ==
  /\ At(c, "query")
  /\ calls' = [calls EXCEPT ![c].pc = "store", ![c].page = Listing]
  /\ UNCHANGED <<rows, files, cache, requests, history>>

ListStores(c) ==
  LET k == calls[c].key IN
  /\ At(c, "store") /\ Return(c)
  /\ \/ /\ cache' = [cache EXCEPT ![k] = {calls[c].page}]
        /\ raced' = IF calls[c].page = Listing THEN raced \ {k} ELSE raced \cup {k}
     \/ Fault("redis_fails") /\ UNCHANGED <<cache, raced>>
  /\ UNCHANGED <<rows, files, requests, orphans, overlapped, unsure, failed>>

\* Thirty seconds have passed.
PageExpires(k) ==
  /\ cache[k] # {}
  /\ cache' = [cache EXCEPT ![k] = {}]
  /\ UNCHANGED <<rows, files, calls, requests, history>>

-----------------------------------------------------------------------------
(* invalidateCache: SCAN returns the keys that are there in batches, at least
   every key that is there all the time; DEL follows each batch. *)

\* Mutated form: the first cursor is the last.
ScansOnce(c, batch) ==
  LET found == {k \in batch : cache[k] # {}} IN
  /\ At(c, "scan") /\ batch # {}
  /\ calls' = [calls EXCEPT ![c] = IF found # {} THEN [@ EXCEPT !.pc = "del", !.todo = {}, !.found = found]
                                   ELSE Idle]
  /\ UNCHANGED <<rows, files, cache, requests, history>>

Scans(c, batch) ==
  LET todo == calls[c].todo \ batch
      found == {k \in batch : cache[k] # {}}
  IN
  /\ At(c, "scan") /\ batch # {}
  /\ calls' = [calls EXCEPT ![c] = IF found # {} THEN [@ EXCEPT !.pc = "del", !.todo = todo, !.found = found]
                                   ELSE IF todo # {} THEN [@ EXCEPT !.todo = todo] ELSE Idle]
  /\ UNCHANGED <<rows, files, cache, requests, history>>

Deletes(c) ==
  /\ At(c, "del")
  /\ cache' = [k \in Keys |-> IF k \in calls[c].found THEN {} ELSE cache[k]]
  /\ calls' = [calls EXCEPT ![c] = IF @.todo = {} THEN Idle ELSE [@ EXCEPT !.pc = "scan", !.found = {}]]
  /\ UNCHANGED <<rows, files, requests, history>>

\* The error is logged; the request succeeds.
InvalidationFails(c) ==
  /\ Fault("redis_fails") /\ calls[c].pc \in {"scan", "del"}
  /\ Return(c) /\ failed' = TRUE
  /\ UNCHANGED <<rows, files, cache, requests, raced, orphans, overlapped, unsure>>

-----------------------------------------------------------------------------
(* The jobs and requests that change the row *)

\* The job's transaction, then the keys, the end job and the invalidation.
StartActivates(c) ==
  /\ auction.status = "PENDING" /\ Asks(c, Call("start", "setup"))
  /\ auction' = [auction EXCEPT !.status = "ACTIVE"]
  /\ UNCHANGED <<images, primary, files, cache, history>>

\* Past its end time; nothing is invalidated.
StartMarksEnded(c) ==
  /\ auction.status = "PENDING" /\ At(c, "idle") /\ requests < MaxRequests /\ requests' = requests + 1
  /\ auction' = [auction EXCEPT !.status = "ENDED"]
  /\ UNCHANGED <<images, primary, files, cache, calls, history>>

EndCommits(c) ==
  /\ auction.status # "PENDING" /\ Asks(c, Invalidates("end"))
  /\ auction' = [auction EXCEPT !.status = "ENDED"]
  /\ UNCHANGED <<images, primary, files, cache, history>>

CancelCommits(c) ==
  /\ Editable /\ Asks(c, Call("cancel", "setup"))
  /\ auction' = [auction EXCEPT !.status = "CANCELED"]
  /\ UNCHANGED <<images, primary, files, cache, history>>

UpdateReads(c, t) ==
  /\ Editable
  /\ Asks(c, [Call("update", "save") EXCEPT !.copy = auction, !.title = t])
  /\ UNCHANGED <<rows, files, cache, history>>

UpdateSaves(c) ==
  /\ At(c, "save")
  /\ auction' = [calls[c].copy EXCEPT !.title = calls[c].title]
  /\ overlapped' = (overlapped \/ calls[c].copy.main # auction.main)
  /\ calls' = [calls EXCEPT ![c] = Invalidates("update")]
  /\ UNCHANGED <<images, primary, files, cache, requests, raced, orphans, unsure, failed>>

\* With a new end time: read and saved under a lock, then the end job moves.
UpdateLocked(c, t) ==
  /\ auction.status = "ACTIVE" /\ Asks(c, Call("update", "setup"))
  /\ auction' = [auction EXCEPT !.title = t]
  /\ UNCHANGED <<images, primary, files, cache, history>>

SetsUp(c) ==
  /\ At(c, "setup")
  /\ calls' = [calls EXCEPT ![c] = Invalidates(@.op)]
  /\ UNCHANGED <<rows, files, cache, requests, history>>

\* The queue throws: no invalidation.  A start writes PENDING again, if it can.
SetUpFails(c) ==
  /\ At(c, "setup") /\ Fault("queue_fails")
  /\ Return(c) /\ failed' = TRUE
  /\ \/ UNCHANGED auction
     \/ calls[c].op = "start" /\ auction' = [auction EXCEPT !.status = "PENDING"]
  /\ UNCHANGED <<images, primary, files, cache, requests, raced, orphans, overlapped, unsure>>

-----------------------------------------------------------------------------
(* updateAuctionImages *)

EditReads(c) ==
  /\ Editable /\ Asks(c, [Call("edit", "find") EXCEPT !.copy = auction])
  /\ UNCHANGED <<rows, files, cache, history>>

\* A file that was never there: its name is random.
Unused(f) ==
  /\ f \notin files \cup images \cup orphans
  /\ \A d \in Calls : f \notin calls[d].new \cup calls[d].rows

\* Mutated form: only the new files are counted.
EditFindsMore(c, keep, new, first) ==
  /\ At(c, "find")
  /\ keep \subseteq images /\ \A f \in new : Unused(f)
  /\ keep \cup new # {} /\ Cardinality(new) <= MaxImages
  /\ calls' = [calls EXCEPT ![c] = [@ EXCEPT !.pc = IF new = {} THEN "commit" ELSE "upload",
                 !.rows = images, !.was = primary, !.keep = keep, !.new = new, !.first = first]]
  /\ UNCHANGED <<rows, files, cache, requests, history>>

\* The images to keep and to add, and which becomes primary: Null is an index
\* beyond the last one, which is refused only after the upload.
EditFinds(c, keep, new, first) ==
  /\ At(c, "find")
  /\ keep \subseteq images /\ \A f \in new : Unused(f)
  /\ keep \cup new # {} /\ Cardinality(keep \cup new) <= MaxImages
  /\ first \in keep \cup new \cup {Null}
  /\ \/ new = {} /\ first = Null /\ Return(c)
     \/ /\ new # {} \/ first # Null
        /\ calls' = [calls EXCEPT ![c] = [@ EXCEPT !.pc = IF new = {} THEN "commit" ELSE "upload",
                 !.rows = images, !.was = primary, !.keep = keep, !.new = new, !.first = first]]
  /\ UNCHANGED <<rows, files, cache, requests, history>>

EditUploads(c) ==
  LET call == calls[c] IN
  /\ At(c, "upload")
  /\ files' = files \cup call.new
  /\ \/ /\ call.first # Null /\ UNCHANGED orphans
        /\ calls' = [calls EXCEPT ![c].pc = "commit", ![c].loose = call.new]
     \/ call.first = Null /\ Return(c) /\ orphans' = orphans \cup call.new
  /\ UNCHANGED <<rows, cache, requests, raced, overlapped, unsure, failed>>

\* Uploads run in parallel: those that succeed are not taken back.
UploadFails(c) ==
  /\ At(c, "upload") /\ Fault("upload_fails") /\ Return(c)
  /\ \E part \in SUBSET calls[c].new : files' = files \cup part /\ orphans' = orphans \cup part
  /\ UNCHANGED <<rows, cache, requests, raced, overlapped, unsure, failed>>

Dropped(c) == calls[c].rows \ calls[c].keep

\* Kept rows are saved when their flag changes, which inserts those that are gone.
Flagged(c) == {f \in calls[c].keep : (f \in calls[c].was) # (f = calls[c].first)}

Committed(c) ==
  LET call == calls[c]  written == Flagged(c) \cup call.new IN
  /\ images' = (images \ Dropped(c)) \cup written
  /\ primary' = (primary \ (Dropped(c) \cup written)) \cup ({call.first} \cap written)
  /\ auction' = [call.copy EXCEPT !.main = call.first]
  /\ overlapped' = (overlapped \/ call.rows # images \/ call.was # primary \/ call.copy.main # auction.main)

EditCommits(c) ==
  /\ At(c, "commit") /\ Committed(c)
  /\ calls' = [calls EXCEPT ![c] = [Invalidates("edit") EXCEPT
                 !.pc = IF Dropped(c) = {} THEN "scan" ELSE "delete", !.loose = Dropped(c)]]
  /\ UNCHANGED <<files, cache, requests, raced, orphans, unsure, failed>>

\* deleteFiles: each error is swallowed.
Removes(gone) ==
  \/ files' = files \ gone /\ UNCHANGED orphans
  \/ /\ Fault("delete_fails")
     /\ \E part \in SUBSET gone : files' = files \ part /\ orphans' = orphans \cup (gone \ part)

\* Mutated form: the new files stay.
EditThrowsOnly(c) ==
  /\ At(c, "commit") /\ Fault("db_fails") /\ Return(c)
  /\ UNCHANGED <<rows, files, cache, requests, history>>

EditThrows(c) ==
  /\ At(c, "commit") /\ Fault("db_fails") /\ Return(c)
  /\ Removes(calls[c].new)
  /\ UNCHANGED <<rows, cache, requests, raced, overlapped, unsure, failed>>

\* COMMIT took effect but its answer was lost.
EditCommitsUnnoticed(c) ==
  /\ At(c, "commit") /\ Fault("commit_lost") /\ Return(c)
  /\ Committed(c)
  /\ files' = files \ calls[c].new /\ orphans' = orphans \cup Dropped(c)
  /\ unsure' = TRUE /\ failed' = TRUE
  /\ UNCHANGED <<cache, requests, raced>>

EditDeletes(c) ==
  /\ At(c, "delete")
  /\ Removes(calls[c].loose)
  /\ calls' = [calls EXCEPT ![c] = Invalidates("edit")]
  /\ UNCHANGED <<rows, cache, requests, raced, overlapped, unsure, failed>>

-----------------------------------------------------------------------------

\* Requests in progress are gone.  The reconciliation at boot marks an
\* auction ENDED that is past its end time, and invalidates nothing.
Restart ==
  /\ Fault("crash") /\ requests < MaxRequests /\ requests' = requests + 1
  /\ calls' = [c \in Calls |-> Idle]
  /\ orphans' = orphans \cup UNION {calls[c].loose : c \in Calls}
  /\ failed' = TRUE
  /\ \/ UNCHANGED auction
     \/ auction.status = "ACTIVE" /\ auction' = [auction EXCEPT !.status = "ENDED"]
  /\ UNCHANGED <<images, primary, files, cache, raced, overlapped, unsure>>

Request(c) ==
  \/ \E k \in Keys : ListMisses(c, k)
  \/ StartActivates(c) \/ StartMarksEnded(c) \/ EndCommits(c) \/ CancelCommits(c)
  \/ \E t \in Titles : UpdateReads(c, t) \/ UpdateLocked(c, t)
  \/ EditReads(c)

Step(c) ==
  \/ ListQueries(c) \/ ListStores(c)
  \/ \E batch \in SUBSET calls[c].todo : Scans(c, batch)
  \/ Deletes(c) \/ InvalidationFails(c)
  \/ UpdateSaves(c) \/ SetsUp(c) \/ SetUpFails(c)
  \/ \E keep, new \in SUBSET Files, first \in Files \cup {Null} : EditFinds(c, keep, new, first)
  \/ EditUploads(c) \/ UploadFails(c)
  \/ EditCommits(c) \/ EditThrows(c) \/ EditCommitsUnnoticed(c) \/ EditDeletes(c)

Next ==
  \/ \E c \in Calls : Request(c) \/ Step(c)
  \/ \E k \in Keys : PageExpires(k)
  \/ Restart

Spec == Init /\ [][Next]_vars

-----------------------------------------------------------------------------
(* Properties *)

Quiet == \A c \in Calls : At(c, "idle")

Auction == [status : {"PENDING", "ACTIVE", "ENDED", "CANCELED"}, title : Titles, main : Files]

CallType ==
  [op : {Null, "list", "start", "end", "cancel", "update", "edit"},
   pc : {"idle", "query", "store", "scan", "del", "setup", "save", "find", "upload", "commit", "delete"},
   key : Keys \cup {Null}, page : SUBSET Auction, copy : Auction \cup {Null}, title : Titles \cup {Null},
   rows : SUBSET Files, was : SUBSET Files, keep : SUBSET Files, new : SUBSET Files,
   first : Files \cup {Null}, loose : SUBSET Files, todo : SUBSET Keys, found : SUBSET Keys]

\* Types; and an auction has at most MaxImages images, unless edits overlapped.
TypeOK ==
  /\ auction \in Auction
  /\ images \subseteq Files /\ primary \subseteq images
  /\ files \subseteq Files /\ orphans \subseteq Files
  /\ DOMAIN cache = Keys /\ \A k \in Keys : Cardinality(cache[k]) <= 1
  /\ requests \in 0 .. MaxRequests /\ raced \subseteq Keys
  /\ DOMAIN calls = Calls /\ \A c \in Calls : calls[c].todo \cup calls[c].found \subseteq Keys
  /\ overlapped \in BOOLEAN /\ unsure \in BOOLEAN /\ failed \in BOOLEAN
  /\ overlapped \/ Cardinality(images) <= MaxImages

\* A cached page differs from the database only while an invalidation is on
\* its way to the key, or if it was out of date when it was stored: whatever
\* requests and jobs overlapped, a page stored in time is never left behind.
StaleOnlyByRace ==
  failed \/ \A k \in Keys \ raced :
              \/ cache[k] \subseteq {Listing}
              \/ \E c \in Calls : k \in calls[c].todo \cup calls[c].found \/ At(c, "setup")
                                  \/ At(c, "delete")

\* Each image has its file, one of them is primary and is the main image of
\* the auction, whatever failed, as long as no request saved what another had
\* changed since; after an unacknowledged commit files may be missing.
ImagesAreWhole ==
  overlapped \/ /\ primary = {auction.main} /\ auction.main \in images
                /\ unsure \/ images \subseteq files

\* No file is left behind by a request that succeeded or was rolled back; only
\* by failing uploads and deletions, a late refusal, a crash or a lost commit.
NoStrayFiles == Quiet => files \subseteq images \cup orphans

\* Image rows and image files are changed in two stores and stay in step.
ImagesMatchFiles == ImagesAreWhole /\ NoStrayFiles

=============================================================================
