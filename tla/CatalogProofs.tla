----------------------------- MODULE CatalogProofs -----------------------------
(***************************************************************************)
(* Proofs about Catalog, for any number of requests, queries and images,   *)
(* and for every set of faults: cached pages, and image rows with their    *)
(* files.                                                                  *)
(***************************************************************************)
EXTENDS Catalog, FiniteSetTheorems, TLAPS

-----------------------------------------------------------------------------
(* Types of the rows and of the locals *)

Chosen == {"upload", "commit"}

\* An edit holds a sound choice of images from its check to its commit, and the
\* files that would be stray without it; an invalidation its keys.
Sound(call) ==
  /\ call \in CallType
  /\ call.pc \in {"save", "find"} \cup Chosen => call.copy \in Auction
  /\ call.pc = "save" => call.title \in Titles
  /\ call.pc \in {"query", "store"} => call.key \in Keys
  /\ call.pc \in Chosen =>
       /\ call.keep \subseteq call.rows /\ call.rows \cap call.new = {}
       /\ Cardinality(call.keep \cup call.new) <= MaxImages
       /\ call.first \in call.keep \cup call.new \cup {Null}
  /\ call.pc = "commit" => call.first # Null
  /\ call.new = {} \/ call.pc \in Chosen
  /\ call.pc = "commit" => call.loose = call.new
  /\ call.pc \notin {"commit", "delete"} => call.loose = {}
  /\ call.pc \notin {"scan", "del", "delete"} => call.todo = {}
  /\ call.pc # "del" => call.found = {}

CallsInv == calls \in [Calls -> CallType] /\ \A c \in Calls : Sound(calls[c])

CacheInv ==
  /\ cache \in [Keys -> SUBSET SUBSET Auction]
  /\ \A k \in Keys : cache[k] = {} \/ \E page \in SUBSET Auction : cache[k] = {page}

RowsInv ==
  /\ auction \in Auction
  /\ images \subseteq Files /\ primary \subseteq images
  /\ overlapped \/ Cardinality(images) <= MaxImages

SetsInv ==
  /\ files \subseteq Files /\ orphans \subseteq Files /\ raced \subseteq Keys
  /\ requests \in 0 .. MaxRequests
  /\ overlapped \in BOOLEAN /\ unsure \in BOOLEAN /\ failed \in BOOLEAN

TypeInv == CallsInv /\ CacheInv /\ RowsInv /\ SetsInv

LEMMA IdleIsSound == Sound(Idle)
  BY DEF Sound, Idle, CallType, Chosen

LEMMA ReplaceCall ==
  ASSUME CallsInv, NEW c \in Calls, NEW call, Sound(call), calls' = [calls EXCEPT ![c] = call]
  PROVE  /\ CallsInv' /\ calls'[c] = call
         /\ \A d \in Calls \ {c} : calls'[d] = calls[d]
<1>1. calls \in [Calls -> CallType] /\ \A d \in Calls : Sound(calls[d])
  BY DEF CallsInv
<1>2. calls'[c] = call /\ \A d \in Calls \ {c} : calls'[d] = calls[d]
  BY <1>1
<1>3. calls' \in [Calls -> CallType]
  BY <1>1 DEF Sound
<1> QED
  BY <1>1, <1>2, <1>3 DEF CallsInv

Ops == {"list", "start", "end", "cancel", "update", "edit"}

\* How requests start, and what a change of the row ends with.
LEMMA StartIsSound ==
  ASSUME NEW op \in Ops
  PROVE  Sound(Call(op, "setup")) /\ Sound(Invalidates(op))
<1>1. Call(op, "setup") \in CallType /\ Invalidates(op) \in CallType
  BY DEF Call, Invalidates, Idle, CallType, Ops
<1> QED
  BY <1>1 DEF Sound, Call, Invalidates, Idle, Chosen

LEMMA StartWithKeyIsSound ==
  ASSUME NEW k \in Keys
  PROVE  Sound([Call("list", "query") EXCEPT !.key = k])
  BY DEF Sound, Call, Idle, CallType, Chosen

LEMMA StartWithCopyIsSound ==
  ASSUME auction \in Auction
  PROVE  /\ Sound([Call("edit", "find") EXCEPT !.copy = auction])
         /\ \A t \in Titles : Sound([Call("update", "save") EXCEPT !.copy = auction, !.title = t])
<1>1. Sound([Call("edit", "find") EXCEPT !.copy = auction])
  BY DEF Sound, Call, Idle, CallType, Chosen
<1>2. ASSUME NEW t \in Titles
      PROVE  Sound([Call("update", "save") EXCEPT !.copy = auction, !.title = t])
  BY DEF Sound, Call, Idle, CallType, Chosen
<1> QED
  BY <1>1, <1>2

LEMMA ListingType == auction \in Auction => Listing \in SUBSET Auction
  BY DEF Listing

Replaced(c) == \E call : Sound(call) /\ calls' = [calls EXCEPT ![c] = call]

LEMMA RequestReplaces ==
  ASSUME TypeInv, NEW c \in Calls, Request(c)
  PROVE  Replaced(c)
<1>0. calls[c] \in CallType /\ Sound(calls[c]) /\ calls \in [Calls -> CallType] /\ auction \in Auction
  BY DEF TypeInv, CallsInv, RowsInv
<1>1. CASE \E k \in Keys : ListMisses(c, k)
  BY <1>1, StartWithKeyIsSound DEF ListMisses, Asks, Replaced
<1>2. CASE StartActivates(c) \/ CancelCommits(c) \/ \E t \in Titles : UpdateLocked(c, t)
  BY <1>2, StartIsSound DEF StartActivates, CancelCommits, UpdateLocked, Asks, Replaced, Ops
<1>3. CASE StartMarksEnded(c)
  <2>1. calls' = [calls EXCEPT ![c] = calls[c]]
    BY <1>0, <1>3 DEF StartMarksEnded
  <2> QED
    BY <1>0, <2>1 DEF Replaced
<1>4. CASE EndCommits(c)
  BY <1>4, StartIsSound DEF EndCommits, Asks, Replaced, Ops
<1>5. CASE \E t \in Titles : UpdateReads(c, t)
  BY <1>0, <1>5, StartWithCopyIsSound DEF UpdateReads, Asks, Replaced
<1>6. CASE EditReads(c)
  BY <1>0, <1>6, StartWithCopyIsSound DEF EditReads, Asks, Replaced
<1> QED
  BY <1>1, <1>2, <1>3, <1>4, <1>5, <1>6 DEF Request

\* A call that goes on with an invalidation.
LEMMA ScanIsSound ==
  ASSUME NEW call, Sound(call), call.pc \in {"scan", "del"},
         NEW todo \in SUBSET Keys, NEW found \in SUBSET Keys
  PROVE  /\ Sound([call EXCEPT !.pc = "del", !.todo = todo, !.found = found])
         /\ call.pc = "scan" => Sound([call EXCEPT !.todo = todo])
         /\ Sound([call EXCEPT !.pc = "scan", !.found = {}])
<1>0. call \in CallType
  BY DEF Sound
<1>1. /\ [call EXCEPT !.pc = "del", !.todo = todo, !.found = found] \in CallType
      /\ [call EXCEPT !.todo = todo] \in CallType
      /\ [call EXCEPT !.pc = "scan", !.found = {}] \in CallType
  <2>1. [call EXCEPT !.pc = "del", !.todo = todo, !.found = found] \in CallType
    BY <1>0 DEF CallType
  <2>2. [call EXCEPT !.todo = todo] \in CallType
    BY <1>0 DEF CallType
  <2>3. [call EXCEPT !.pc = "scan", !.found = {}] \in CallType
    BY <1>0 DEF CallType
  <2> QED
    BY <2>1, <2>2, <2>3
<1>2. Sound([call EXCEPT !.pc = "del", !.todo = todo, !.found = found])
  BY <1>1, <1>0 DEF Sound, CallType, Chosen
<1>3. call.pc = "scan" => Sound([call EXCEPT !.todo = todo])
  BY <1>1, <1>0 DEF Sound, CallType, Chosen
<1>4. Sound([call EXCEPT !.pc = "scan", !.found = {}])
  BY <1>1, <1>0 DEF Sound, CallType, Chosen
<1> QED
  BY <1>2, <1>3, <1>4

\* A call that has chosen images, that has uploaded them, that has committed.
LEMMA ChoiceIsSound ==
  ASSUME NEW call, Sound(call), call.pc = "find",
         NEW keep, NEW new \in SUBSET Files, NEW first \in keep \cup new \cup {Null},
         images \subseteq Files, primary \subseteq images, keep \subseteq images, new \cap images = {},
         Cardinality(keep \cup new) <= MaxImages, new # {} \/ first # Null
  PROVE  Sound([call EXCEPT !.pc = IF new = {} THEN "commit" ELSE "upload",
                  !.rows = images, !.was = primary, !.keep = keep, !.new = new, !.first = first])
<1> DEFINE pc == IF new = {} THEN "commit" ELSE "upload"
           chosen == [call EXCEPT !.pc = pc, !.rows = images, !.was = primary, !.keep = keep,
                                  !.new = new, !.first = first]
<1>0. call \in CallType /\ call.copy \in Auction /\ call.loose = {} /\ call.todo = {} /\ call.found = {}
  BY DEF Sound, Chosen
<1>1. /\ chosen.pc = pc /\ chosen.rows = images /\ chosen.keep = keep /\ chosen.new = new
      /\ chosen.first = first /\ chosen.copy = call.copy
      /\ chosen.loose = call.loose /\ chosen.todo = call.todo /\ chosen.found = call.found
  BY <1>0 DEF CallType
<1>2. chosen \in CallType
  BY <1>0 DEF CallType
<1>3. pc \in Chosen /\ (pc = "commit" <=> new = {}) /\ pc \in {"upload", "commit"}
  BY DEF Chosen
<1> HIDE DEF chosen, pc
<1>4. Sound(chosen)
  BY <1>0, <1>1, <1>2, <1>3 DEF Sound
<1> QED
  BY <1>4 DEF chosen, pc

LEMMA UploadIsSound ==
  ASSUME NEW call, Sound(call), call.pc = "upload", call.first # Null
  PROVE  Sound([call EXCEPT !.pc = "commit", !.loose = call.new])
  BY DEF Sound, CallType, Chosen

LEMMA CommitIsSound ==
  ASSUME NEW gone \in SUBSET Files
  PROVE  Sound([Invalidates("edit") EXCEPT
                  !.pc = IF gone = {} THEN "scan" ELSE "delete", !.loose = gone])
<1> DEFINE pc == IF gone = {} THEN "scan" ELSE "delete"
           next == [Invalidates("edit") EXCEPT !.pc = pc, !.loose = gone]
<1>1. /\ next.pc = pc /\ next.loose = gone /\ next.new = {} /\ next.found = {} /\ next.todo = Keys
      /\ next \in CallType
  BY DEF Invalidates, Call, Idle, CallType
<1>2. pc \in {"scan", "delete"} /\ (pc # "delete" => gone = {})
  OBVIOUS
<1> HIDE DEF next, pc
<1>3. Sound(next)
  BY <1>1, <1>2 DEF Sound, Chosen
<1> QED
  BY <1>3 DEF next, pc

LEMMA StepReplaces ==
  ASSUME TypeInv, NEW c \in Calls, Step(c)
  PROVE  Replaced(c)
<1>0. /\ calls[c] \in CallType /\ Sound(calls[c]) /\ calls \in [Calls -> CallType]
      /\ auction \in Auction /\ images \subseteq Files /\ primary \subseteq images
  BY DEF TypeInv, CallsInv, RowsInv
<1>1. ASSUME Return(c) PROVE Replaced(c)
  BY <1>1, IdleIsSound DEF Return, Replaced
<1>2. CASE ListQueries(c)
  <2>1. calls' = [calls EXCEPT ![c] = [calls[c] EXCEPT !.pc = "store", !.page = Listing]]
    BY <1>0, <1>2 DEF ListQueries, CallType
  <2>2. Sound([calls[c] EXCEPT !.pc = "store", !.page = Listing])
    BY <1>0, <1>2, ListingType DEF ListQueries, At, Sound, CallType, Chosen
  <2> QED
    BY <2>1, <2>2 DEF Replaced
<1>3. CASE ListStores(c) \/ InvalidationFails(c) \/ SetUpFails(c) \/ UploadFails(c) \/ EditThrows(c)
           \/ EditCommitsUnnoticed(c)
  BY <1>1, <1>3 DEF ListStores, InvalidationFails, SetUpFails, UploadFails, EditThrows,
                    EditCommitsUnnoticed
<1>4. CASE \E batch \in SUBSET calls[c].todo : Scans(c, batch)
  <2>1. PICK batch \in SUBSET calls[c].todo : Scans(c, batch)
    BY <1>4
  <2> DEFINE todo == calls[c].todo \ batch
             found == {k \in batch : cache[k] # {}}
  <2>2. todo \in SUBSET Keys /\ found \in SUBSET Keys /\ calls[c].pc = "scan"
    BY <1>0, <2>1 DEF Scans, At, CallType
  <2>3. \/ calls' = [calls EXCEPT ![c] = [calls[c] EXCEPT !.pc = "del", !.todo = todo, !.found = found]]
        \/ calls' = [calls EXCEPT ![c] = [calls[c] EXCEPT !.todo = todo]]
        \/ calls' = [calls EXCEPT ![c] = Idle]
    BY <2>1 DEF Scans
  <2> HIDE DEF todo, found
  <2>4. /\ Sound([calls[c] EXCEPT !.pc = "del", !.todo = todo, !.found = found])
        /\ Sound([calls[c] EXCEPT !.todo = todo]) /\ Sound(Idle)
    BY <1>0, <2>2, ScanIsSound, IdleIsSound
  <2> QED
    BY <2>3, <2>4 DEF Replaced
<1>5. CASE Deletes(c)
  <2>1. \/ calls' = [calls EXCEPT ![c] = [calls[c] EXCEPT !.pc = "scan", !.found = {}]]
        \/ calls' = [calls EXCEPT ![c] = Idle]
    BY <1>5 DEF Deletes
  <2>2. Sound([calls[c] EXCEPT !.pc = "scan", !.found = {}])
    BY <1>0, <1>5, ScanIsSound DEF Deletes, At
  <2> QED
    BY <2>1, <2>2, IdleIsSound DEF Replaced
<1>6. CASE UpdateSaves(c) \/ EditDeletes(c)
  <2>1. \E op \in Ops : calls' = [calls EXCEPT ![c] = Invalidates(op)]
    BY <1>6 DEF UpdateSaves, EditDeletes, Ops
  <2> QED
    BY <2>1, StartIsSound DEF Replaced
<1>7. CASE SetsUp(c)
  <2>1. calls' = [calls EXCEPT ![c] = Invalidates(calls[c].op)]
    BY <1>7 DEF SetsUp
  <2>2. Sound(Invalidates(calls[c].op))
    <3> DEFINE op == calls[c].op
    <3>1. op \in {Null, "list", "start", "end", "cancel", "update", "edit"}
      BY <1>0 DEF CallType
    <3> HIDE DEF op
    <3>2. Invalidates(op) \in CallType
      BY <3>1 DEF Invalidates, Call, Idle, CallType
    <3>3. Sound(Invalidates(op))
      BY <3>2 DEF Sound, Invalidates, Call, Idle, Chosen
    <3> QED
      BY <3>3 DEF op
  <2> QED
    BY <2>1, <2>2 DEF Replaced
<1>8. CASE \E keep, new \in SUBSET Files, first \in Files \cup {Null} : EditFinds(c, keep, new, first)
  <2>1. PICK keep \in SUBSET Files, new \in SUBSET Files, first \in Files \cup {Null} :
               EditFinds(c, keep, new, first)
    BY <1>8
  <2>2. CASE Return(c)
    BY <1>1, <2>2
  <2>3. CASE ~Return(c)
    <3>1. /\ new # {} \/ first # Null
          /\ calls' = [calls EXCEPT ![c] = [calls[c] EXCEPT !.pc = IF new = {} THEN "commit" ELSE "upload",
                  !.rows = images, !.was = primary, !.keep = keep, !.new = new, !.first = first]]
      BY <2>1, <2>3 DEF EditFinds
    <3>2. /\ calls[c].pc = "find" /\ first \in keep \cup new \cup {Null} /\ keep \subseteq images
          /\ Cardinality(keep \cup new) <= MaxImages /\ new \cap images = {}
      BY <2>1 DEF EditFinds, At, Unused
    <3>3. Sound([calls[c] EXCEPT !.pc = IF new = {} THEN "commit" ELSE "upload",
                  !.rows = images, !.was = primary, !.keep = keep, !.new = new, !.first = first])
      BY <1>0, <3>1, <3>2, ChoiceIsSound
    <3> QED
      BY <3>1, <3>3 DEF Replaced
  <2> QED
    BY <2>2, <2>3
<1>9. CASE EditUploads(c)
  <2>1. CASE calls[c].first = Null
    BY <1>1, <1>9, <2>1 DEF EditUploads
  <2>2. CASE calls[c].first # Null
    <3>1. calls' = [calls EXCEPT ![c] = [calls[c] EXCEPT !.pc = "commit", !.loose = calls[c].new]]
      BY <1>0, <1>9, <2>2 DEF EditUploads, CallType
    <3>2. Sound([calls[c] EXCEPT !.pc = "commit", !.loose = calls[c].new])
      BY <1>0, <1>9, <2>2, UploadIsSound DEF EditUploads, At
    <3> QED
      BY <3>1, <3>2 DEF Replaced
  <2> QED
    BY <2>1, <2>2
<1>10. CASE EditCommits(c)
  <2>1. calls' = [calls EXCEPT ![c] = [Invalidates("edit") EXCEPT
                 !.pc = IF Dropped(c) = {} THEN "scan" ELSE "delete", !.loose = Dropped(c)]]
    BY <1>10 DEF EditCommits
  <2>2. Dropped(c) \in SUBSET Files
    BY <1>0 DEF Dropped, CallType
  <2> QED
    BY <2>1, <2>2, CommitIsSound DEF Replaced
<1> QED
  BY <1>2, <1>3, <1>4, <1>5, <1>6, <1>7, <1>8, <1>9, <1>10 DEF Step

LEMMA NextKeepsCalls == TypeInv /\ [Next]_vars => CallsInv'
<1> SUFFICES ASSUME TypeInv, [Next]_vars PROVE CallsInv'
  OBVIOUS
<1>1. CASE \E c \in Calls : Request(c) \/ Step(c)
  BY <1>1, RequestReplaces, StepReplaces, ReplaceCall DEF Replaced, TypeInv
<1>2. CASE (\E k \in Keys : PageExpires(k)) \/ UNCHANGED vars
  BY <1>2 DEF PageExpires, vars, TypeInv, CallsInv
<1>3. CASE Restart
  BY <1>3, IdleIsSound DEF Restart, CallsInv, Sound
<1> QED
  BY <1>1, <1>2, <1>3 DEF Next

LEMMA NextKeepsCache == TypeInv /\ [Next]_vars => CacheInv'
<1> SUFFICES ASSUME TypeInv, [Next]_vars PROVE CacheInv'
  OBVIOUS
<1>0. CacheInv
  BY DEF TypeInv
<1>1. CASE \E c \in Calls : ListStores(c)
  <2>1. PICK c \in Calls : ListStores(c)
    BY <1>1
  <2>2. calls[c].page \in SUBSET Auction
    BY DEF TypeInv, CallsInv, CallType
  <2>3. \/ cache' = cache
        \/ cache' = [cache EXCEPT ![calls[c].key] = {calls[c].page}]
    BY <2>1 DEF ListStores
  <2> QED
    BY <1>0, <2>2, <2>3 DEF CacheInv
<1>2. CASE \E c \in Calls : Deletes(c)
  BY <1>0, <1>2 DEF Deletes, CacheInv
<1>3. CASE \E k \in Keys : PageExpires(k)
  BY <1>0, <1>3 DEF PageExpires, CacheInv
<1>4. CASE UNCHANGED cache
  BY <1>0, <1>4 DEF CacheInv
<1>5. ASSUME NEW c \in Calls, Request(c) PROVE UNCHANGED cache
  BY <1>5 DEF Request, ListMisses, StartActivates, StartMarksEnded, EndCommits, CancelCommits,
              UpdateReads, UpdateLocked, EditReads
<1>6. ASSUME NEW c \in Calls, Step(c), ~ListStores(c), ~Deletes(c) PROVE UNCHANGED cache
  BY <1>6 DEF Step, ListQueries, Scans, InvalidationFails, UpdateSaves, SetsUp, SetUpFails,
              EditFinds, EditUploads, UploadFails, EditCommits, EditThrows, EditCommitsUnnoticed,
              EditDeletes
<1>7. CASE Restart \/ UNCHANGED vars
  BY <1>4, <1>7 DEF Restart, vars
<1> QED
  BY <1>1, <1>2, <1>3, <1>4, <1>5, <1>6, <1>7 DEF Next

\* A commit of a choice that nobody has overtaken.
LEMMA CommitWrites ==
  ASSUME TypeInv, NEW c \in Calls, At(c, "commit"), Committed(c)
  PROVE  /\ images' \subseteq images \cup calls[c].keep \cup calls[c].new
         /\ images' \subseteq Files /\ primary' \subseteq images'
         /\ auction' \in Auction /\ auction'.main = calls[c].first
         /\ images \subseteq images' \cup Dropped(c) /\ calls[c].new \subseteq images'
         /\ overlapped' \in BOOLEAN /\ (overlapped => overlapped')
         /\ ~overlapped' => /\ calls[c].rows = images /\ calls[c].was = primary
                            /\ calls[c].copy.main = auction.main
                            /\ images' = calls[c].keep \cup calls[c].new
<1>0. /\ calls[c] \in CallType /\ Sound(calls[c]) /\ calls[c].copy \in Auction
      /\ calls[c].first \in Files /\ calls[c].keep \subseteq calls[c].rows
      /\ images \subseteq Files /\ primary \subseteq images /\ overlapped \in BOOLEAN
  BY DEF TypeInv, CallsInv, RowsInv, SetsInv, Sound, Chosen, At, CallType
<1>1. /\ calls[c].keep \subseteq Files /\ calls[c].new \subseteq Files /\ Flagged(c) \subseteq calls[c].keep
  BY <1>0 DEF CallType, Flagged
<1>2. /\ images' = (images \ Dropped(c)) \cup Flagged(c) \cup calls[c].new
      /\ primary' = (primary \ (Dropped(c) \cup Flagged(c) \cup calls[c].new))
                      \cup ({calls[c].first} \cap (Flagged(c) \cup calls[c].new))
      /\ overlapped' = (overlapped \/ calls[c].rows # images \/ calls[c].was # primary
                          \/ calls[c].copy.main # auction.main)
  BY DEF Committed
<1>3. images' \subseteq Files /\ primary' \subseteq images'
  BY <1>0, <1>1, <1>2
<1>4. auction' = [calls[c].copy EXCEPT !.main = calls[c].first]
  BY DEF Committed
<1>5. auction' \in Auction /\ auction'.main = calls[c].first
  BY <1>0, <1>4 DEF Auction
<1>6. ASSUME ~overlapped'
      PROVE  /\ calls[c].rows = images /\ calls[c].was = primary
             /\ calls[c].copy.main = auction.main
             /\ images' = calls[c].keep \cup calls[c].new
  BY <1>0, <1>1, <1>2, <1>6 DEF Dropped
<1>7. overlapped' \in BOOLEAN /\ (overlapped => overlapped')
  BY <1>0, <1>2
<1>8. /\ images' \subseteq images \cup calls[c].keep \cup calls[c].new
      /\ images \subseteq images' \cup Dropped(c) /\ calls[c].new \subseteq images'
  BY <1>1, <1>2
<1> QED
  BY <1>3, <1>5, <1>6, <1>7, <1>8

\* The steps that touch the row but not its images.
LEMMA RowStays ==
  ASSUME TypeInv,
         \/ \E c \in Calls : /\ Request(c) \/ Step(c)
                             /\ ~EditCommits(c) /\ ~EditCommitsUnnoticed(c)
         \/ \E k \in Keys : PageExpires(k)
         \/ Restart
  PROVE  /\ UNCHANGED <<images, primary>> /\ auction' \in Auction
         /\ overlapped' \in BOOLEAN /\ (overlapped => overlapped')
         /\ ~overlapped' => auction'.main = auction.main
<1>0. auction \in Auction /\ overlapped \in BOOLEAN
  BY DEF TypeInv, RowsInv, SetsInv
<1> DEFINE Good == /\ UNCHANGED <<images, primary>> /\ auction' \in Auction
                   /\ overlapped' \in BOOLEAN /\ (overlapped => overlapped')
                   /\ (~overlapped' => auction'.main = auction.main)
<1>1. ASSUME UNCHANGED <<images, primary, overlapped>>,
             \/ auction' = auction
             \/ \E status \in {"PENDING", "ACTIVE", "ENDED", "CANCELED"} :
                  auction' = [auction EXCEPT !.status = status]
             \/ \E t \in Titles : auction' = [auction EXCEPT !.title = t]
      PROVE  Good
  <2>1. auction' \in Auction /\ auction'.main = auction.main
    BY <1>0, <1>1 DEF Auction
  <2> QED
    BY <1>0, <1>1, <2>1
<1> HIDE DEF Good
<1>2. ASSUME NEW c \in Calls, Request(c) PROVE Good
  BY <1>1, <1>2
  DEF Request, ListMisses, StartActivates, StartMarksEnded, EndCommits, CancelCommits,
      UpdateReads, UpdateLocked, EditReads, rows, history
<1>3. ASSUME NEW c \in Calls, UpdateSaves(c) PROVE Good
  <2>1. calls[c].copy \in Auction /\ calls[c].title \in Titles
    BY <1>3 DEF UpdateSaves, At, TypeInv, CallsInv, Sound
  <2>2. /\ auction' = [calls[c].copy EXCEPT !.title = calls[c].title]
        /\ overlapped' = (overlapped \/ calls[c].copy.main # auction.main)
        /\ UNCHANGED <<images, primary>>
    BY <1>3 DEF UpdateSaves
  <2>3. auction' \in Auction /\ auction'.main = calls[c].copy.main
    BY <2>1, <2>2 DEF Auction
  <2> QED
    BY <1>0, <2>2, <2>3 DEF Good
<1>4. ASSUME NEW c \in Calls, Step(c), ~UpdateSaves(c), ~EditCommits(c), ~EditCommitsUnnoticed(c)
      PROVE  Good
  BY <1>1, <1>4
  DEF Step, ListQueries, ListStores, Scans, Deletes, InvalidationFails, SetsUp, SetUpFails,
      EditFinds, EditUploads, UploadFails, EditThrows, EditDeletes, rows, history
<1>5. ASSUME NEW k \in Keys, PageExpires(k) PROVE Good
  BY <1>1, <1>5 DEF PageExpires, rows, history
<1>6. ASSUME Restart PROVE Good
  <2>1. \/ auction' = auction
        \/ auction' = [auction EXCEPT !.status = "ENDED"]
    BY <1>6 DEF Restart
  <2>2. UNCHANGED <<images, primary, overlapped>>
    BY <1>6 DEF Restart
  <2> QED
    BY <1>1, <2>1, <2>2
<1>7. Good
  BY <1>2, <1>3, <1>4, <1>5, <1>6
<1> QED
  BY <1>7 DEF Good

LEMMA NextKeepsRows == TypeInv /\ [Next]_vars => RowsInv'
<1> SUFFICES ASSUME TypeInv, [Next]_vars PROVE RowsInv'
  OBVIOUS
<1>1. CASE \E c \in Calls : EditCommits(c) \/ EditCommitsUnnoticed(c)
  <2>1. PICK c \in Calls : At(c, "commit") /\ Committed(c)
    BY <1>1 DEF EditCommits, EditCommitsUnnoticed
  <2>2. Cardinality(calls[c].keep \cup calls[c].new) <= MaxImages
    BY <2>1 DEF TypeInv, CallsInv, Sound, Chosen, At
  <2> QED
    BY <2>1, <2>2, CommitWrites DEF RowsInv
<1>2. CASE Next /\ \A c \in Calls : ~EditCommits(c) /\ ~EditCommitsUnnoticed(c)
  BY <1>2, RowStays DEF Next, TypeInv, RowsInv
<1>3. CASE UNCHANGED vars
  BY <1>3 DEF vars, rows, history, TypeInv, RowsInv
<1> QED
  BY <1>1, <1>2, <1>3

LEMMA NextKeepsSets == TypeInv /\ [Next]_vars => SetsInv'
<1> SUFFICES ASSUME TypeInv, [Next]_vars PROVE SetsInv'
  OBVIOUS
<1>0. SetsInv /\ images \subseteq Files
  BY DEF TypeInv, RowsInv
<1>1. \A c \in Calls : /\ calls[c].new \subseteq Files /\ calls[c].rows \subseteq Files
                       /\ calls[c].loose \subseteq Files /\ Sound(calls[c])
  BY DEF TypeInv, CallsInv, CallType
<1>2. ASSUME NEW c \in Calls, Request(c) PROVE SetsInv'
  <2>0. requests < MaxRequests /\ requests' = requests + 1
    BY <1>2
    DEF Request, ListMisses, StartActivates, StartMarksEnded, EndCommits, CancelCommits,
        UpdateReads, UpdateLocked, EditReads, Asks
  <2>1. requests' \in 0 .. MaxRequests
    BY <1>0, <2>0, CatalogAssumption DEF SetsInv
  <2>2. UNCHANGED <<files, history>>
    BY <1>2
    DEF Request, ListMisses, StartActivates, StartMarksEnded, EndCommits, CancelCommits,
        UpdateReads, UpdateLocked, EditReads
  <2> QED
    BY <1>0, <2>1, <2>2 DEF SetsInv, history
<1>3. ASSUME NEW c \in Calls, ListStores(c) PROVE SetsInv'
  <2>1. calls[c].key \in Keys
    BY <1>1, <1>3 DEF ListStores, At, Sound
  <2>2. /\ raced' \in {raced, raced \ {calls[c].key}, raced \cup {calls[c].key}}
        /\ UNCHANGED <<files, requests, orphans, overlapped, unsure, failed>>
    BY <1>3 DEF ListStores
  <2> QED
    BY <1>0, <2>1, <2>2 DEF SetsInv
<1>4. ASSUME NEW c \in Calls, EditUploads(c) \/ UploadFails(c) \/ EditThrows(c) \/ EditDeletes(c)
      PROVE  SetsInv'
  <2>1. UNCHANGED <<requests, raced, overlapped, unsure, failed>>
    BY <1>4 DEF EditUploads, UploadFails, EditThrows, EditDeletes
  <2>2. files' \subseteq Files /\ orphans' \subseteq Files
    BY <1>0, <1>1, <1>4 DEF EditUploads, UploadFails, EditThrows, EditDeletes, Removes, SetsInv
  <2> QED
    BY <1>0, <2>1, <2>2 DEF SetsInv
<1>5. ASSUME NEW c \in Calls, EditCommits(c) \/ EditCommitsUnnoticed(c) PROVE SetsInv'
  <2>1. overlapped' \in BOOLEAN
    BY <1>5, CommitWrites DEF EditCommits, EditCommitsUnnoticed
  <2>2. /\ files' \subseteq Files /\ orphans' \subseteq Files /\ unsure' \in BOOLEAN /\ failed' \in BOOLEAN
        /\ UNCHANGED <<requests, raced>>
    BY <1>0, <1>1, <1>5 DEF EditCommits, EditCommitsUnnoticed, Dropped, SetsInv
  <2> QED
    BY <1>0, <2>1, <2>2 DEF SetsInv
<1>6. ASSUME NEW c \in Calls, ListQueries(c) \/ Deletes(c) \/ InvalidationFails(c) \/ UpdateSaves(c)
                              \/ SetsUp(c) \/ SetUpFails(c)
                              \/ \E batch \in SUBSET calls[c].todo : Scans(c, batch)
                              \/ \E keep, new \in SUBSET Files, first \in Files \cup {Null} :
                                    EditFinds(c, keep, new, first)
      PROVE  SetsInv'
  BY <1>0, <1>6
  DEF ListQueries, Deletes, InvalidationFails, UpdateSaves, SetsUp, SetUpFails, Scans, EditFinds,
      history, SetsInv
<1>7. CASE Restart
  <2>1. orphans' \subseteq Files
    BY <1>0, <1>1, <1>7 DEF Restart, SetsInv
  <2>2. requests' \in 0 .. MaxRequests /\ failed' = TRUE /\ UNCHANGED <<files, raced, overlapped, unsure>>
    BY <1>0, <1>7, CatalogAssumption DEF Restart, SetsInv
  <2> QED
    BY <1>0, <2>1, <2>2 DEF SetsInv
<1>8. CASE (\E k \in Keys : PageExpires(k)) \/ UNCHANGED vars
  BY <1>0, <1>8 DEF PageExpires, vars, history, SetsInv
<1> QED
  BY <1>2, <1>3, <1>4, <1>5, <1>6, <1>7, <1>8 DEF Next, Step

LEMMA InitTypes == Init => TypeInv
<1> SUFFICES ASSUME Init PROVE TypeInv
  OBVIOUS
<1>1. PICK f \in Files, t \in Titles :
        /\ auction = [status |-> "PENDING", title |-> t, main |-> f]
        /\ images = {f} /\ primary = {f} /\ files = {f}
  BY DEF Init
<1>2. Cardinality({f}) = 1
  BY FS_Singleton
<1>3. RowsInv
  BY <1>1, <1>2, CatalogAssumption DEF RowsInv, Auction
<1>4. CallsInv
  BY IdleIsSound DEF Init, CallsInv, Sound
<1>5. CacheInv
  BY DEF Init, CacheInv
<1>6. SetsInv
  <2>1. requests = 0 /\ 0 \in 0 .. MaxRequests
    BY CatalogAssumption DEF Init
  <2>2. files \subseteq Files
    BY <1>1
  <2> QED
    BY <2>1, <2>2 DEF Init, SetsInv
<1> QED
  BY <1>3, <1>4, <1>5, <1>6 DEF TypeInv

LEMMA NextKeepsTypes == TypeInv /\ [Next]_vars => TypeInv'
  BY NextKeepsCalls, NextKeepsCache, NextKeepsRows, NextKeepsSets DEF TypeInv

\* The values of Catalog keep their types: no key has two pages, no list of
\* primary images names a row that is gone, and an auction has no more than
\* MaxImages images unless an edit wrote over another.
THEOREM TypeCorrect == Spec => []TypeOK
<1>1. TypeInv => TypeOK
  <2> SUFFICES ASSUME TypeInv PROVE TypeOK
    OBVIOUS
  <2>0. CacheInv /\ Cardinality({}) = 0 /\ \A x : Cardinality({x}) = 1
    BY FS_Singleton, FS_EmptySet DEF TypeInv
  <2>1. DOMAIN cache = Keys /\ \A k \in Keys : Cardinality(cache[k]) <= 1
    <3>1. ASSUME NEW k \in Keys PROVE Cardinality(cache[k]) <= 1
      <4>1. CASE cache[k] = {}
        BY <2>0, <4>1
      <4>2. CASE \E page \in SUBSET Auction : cache[k] = {page}
        <5>1. PICK page : cache[k] = {page}
          BY <4>2
        <5>2. Cardinality({page}) = 1
          BY <2>0
        <5> QED
          BY <5>1, <5>2
      <4> QED
        BY <2>0, <4>1, <4>2 DEF CacheInv
    <3> QED
      BY <2>0, <3>1 DEF CacheInv
  <2>2. DOMAIN calls = Calls /\ \A c \in Calls : calls[c].todo \cup calls[c].found \subseteq Keys
    BY DEF TypeInv, CallsInv, CallType
  <2> QED
    BY <2>1, <2>2 DEF TypeInv, RowsInv, SetsInv, TypeOK
<1> QED
  BY <1>1, InitTypes, NextKeepsTypes, PTL DEF Spec

-----------------------------------------------------------------------------
(* Cached pages *)

\* The page of k will be deleted by this call.
WillDelete(call, k) == k \in call.todo \cup call.found \/ call.pc \in {"setup", "delete"}

Covered ==
  failed \/ \A k \in Keys \ raced : cache[k] \subseteq {Listing}
                                   \/ \E c \in Calls : WillDelete(calls[c], k)

\* A step of a call that touches neither pages nor the list.
LEMMA StepAside ==
  ASSUME TypeInv, Covered, NEW c \in Calls,
         \A d \in Calls \ {c} : calls'[d] = calls[d],
         calls[c].pc \notin {"scan", "del", "delete", "setup"},
         UNCHANGED <<cache, raced, failed>>, Listing' = Listing
  PROVE  Covered'
<1>1. \A k \in Keys : ~WillDelete(calls[c], k)
  BY DEF TypeInv, CallsInv, Sound, WillDelete
<1>2. \A k \in Keys, d \in Calls : WillDelete(calls[d], k) => WillDelete(calls[d], k)'
  BY <1>1 DEF WillDelete
<1> QED
  BY <1>2 DEF Covered

\* A step after which a call will delete every page.
LEMMA StepAnnounces ==
  ASSUME NEW c \in Calls, \A k \in Keys : WillDelete(calls'[c], k)
  PROVE  Covered'
  BY DEF Covered, WillDelete

LEMMA RequestKeepsCovered ==
  ASSUME TypeInv, Covered, NEW c \in Calls, Request(c)
  PROVE  Covered'
<1>0. calls \in [Calls -> CallType]
  BY DEF TypeInv, CallsInv
<1>1. CASE \/ \E k \in Keys : ListMisses(c, k)
           \/ \E t \in Titles : UpdateReads(c, t)
           \/ EditReads(c)
  <2>1. /\ UNCHANGED <<auction, cache, raced, failed>> /\ calls[c].pc = "idle"
        /\ \A d \in Calls \ {c} : calls'[d] = calls[d]
    BY <1>0, <1>1 DEF ListMisses, UpdateReads, EditReads, Asks, At, rows, history
  <2>2. Listing' = Listing
    BY <2>1 DEF Listing
  <2> QED
    BY <2>1, <2>2, StepAside
<1>2. CASE StartMarksEnded(c)
  <2>1. /\ UNCHANGED <<calls, cache, raced, failed>> /\ calls[c].pc = "idle"
        /\ auction.status = "PENDING" /\ auction' = [auction EXCEPT !.status = "ENDED"]
    BY <1>2 DEF StartMarksEnded, At, history
  <2>2. auction \in Auction
    BY DEF TypeInv, RowsInv
  <2>3. auction'.status = "ENDED"
    BY <2>1, <2>2 DEF Auction
  <2>4. Listing' = Listing
    BY <2>1, <2>3 DEF Listing
  <2> QED
    BY <2>1, <2>4, StepAside
<1>3. CASE StartActivates(c) \/ CancelCommits(c) \/ \E t \in Titles : UpdateLocked(c, t)
  <2>1. \E op \in Ops : calls' = [calls EXCEPT ![c] = Call(op, "setup")]
    BY <1>3 DEF StartActivates, CancelCommits, UpdateLocked, Asks, Ops
  <2>2. calls'[c].pc = "setup"
    BY <1>0, <2>1 DEF Call, Idle
  <2> QED
    BY <2>2, StepAnnounces DEF WillDelete
<1>4. CASE EndCommits(c)
  <2>1. calls' = [calls EXCEPT ![c] = Invalidates("end")]
    BY <1>4 DEF EndCommits, Asks
  <2>2. calls'[c].todo = Keys
    BY <1>0, <2>1 DEF Invalidates, Call, Idle
  <2> QED
    BY <2>2, StepAnnounces DEF WillDelete
<1> QED
  BY <1>1, <1>2, <1>3, <1>4 DEF Request

LEMMA StepKeepsCovered ==
  ASSUME TypeInv, Covered, NEW c \in Calls, Step(c)
  PROVE  Covered'
<1>0. /\ calls \in [Calls -> CallType] /\ Sound(calls[c])
      /\ DOMAIN cache = Keys /\ cache = [k \in Keys |-> cache[k]]
  BY DEF TypeInv, CallsInv, CacheInv
<1>1. CASE \/ ListQueries(c)
           \/ \E keep, new \in SUBSET Files, first \in Files \cup {Null} : EditFinds(c, keep, new, first)
           \/ EditUploads(c) \/ UploadFails(c) \/ EditThrows(c)
  <2>1. UNCHANGED <<auction, cache, raced, failed>>
    BY <1>1 DEF ListQueries, EditFinds, EditUploads, UploadFails, EditThrows, rows, history
  <2>2. calls[c].pc \notin {"scan", "del", "delete", "setup"}
    BY <1>1 DEF ListQueries, EditFinds, EditUploads, UploadFails, EditThrows, At
  <2>3. \A d \in Calls \ {c} : calls'[d] = calls[d]
    BY <1>0, <1>1 DEF ListQueries, EditFinds, EditUploads, UploadFails, EditThrows, Return
  <2>4. Listing' = Listing
    BY <2>1 DEF Listing
  <2> QED
    BY <2>1, <2>2, <2>3, <2>4, StepAside
<1>2. CASE ListStores(c)
  <2> DEFINE k == calls[c].key
  <2>1. CASE UNCHANGED <<cache, raced>>
    <3>1. UNCHANGED <<auction, failed>> /\ calls[c].pc = "store" /\ \A d \in Calls \ {c} : calls'[d] = calls[d]
      BY <1>0, <1>2 DEF ListStores, At, Return, rows
    <3>2. Listing' = Listing
      BY <3>1 DEF Listing
    <3> QED
      BY <2>1, <3>1, <3>2, StepAside
  <2>2. CASE ~UNCHANGED <<cache, raced>>
    <3>1. /\ cache' = [cache EXCEPT ![k] = {calls[c].page}]
          /\ raced' = IF calls[c].page = Listing THEN raced \ {k} ELSE raced \cup {k}
          /\ UNCHANGED <<auction, failed>> /\ calls[c].pc = "store"
          /\ \A d \in Calls \ {c} : calls'[d] = calls[d]
      BY <1>0, <1>2, <2>2 DEF ListStores, At, Return, rows
    <3>2. Listing' = Listing
      BY <3>1 DEF Listing
    <3>3. \A j \in Keys : ~WillDelete(calls[c], j)
      BY <1>0, <3>1 DEF Sound, WillDelete
    <3>4. \A j \in Keys, d \in Calls : WillDelete(calls[d], j) => WillDelete(calls[d], j)'
      BY <3>1, <3>3 DEF WillDelete
    <3>5. ASSUME ~failed, NEW j \in Keys \ raced'
          PROVE  cache'[j] \subseteq {Listing'} \/ \E d \in Calls : WillDelete(calls[d], j)'
      <4>1. CASE j = k
        BY <1>0, <3>1, <3>2, <3>5, <4>1
      <4>2. CASE j # k
        <5>1. j \in Keys \ raced /\ cache'[j] = cache[j]
          BY <1>0, <3>1, <3>5, <4>2
        <5> QED
          BY <3>2, <3>4, <3>5, <5>1 DEF Covered
      <4> QED
        BY <4>1, <4>2
    <3> QED
      BY <3>1, <3>5 DEF Covered
  <2> QED
    BY <2>1, <2>2
<1>3. CASE \E batch \in SUBSET calls[c].todo : Scans(c, batch)
  <2>1. PICK batch \in SUBSET calls[c].todo : Scans(c, batch)
    BY <1>3
  <2> DEFINE todo == calls[c].todo \ batch
             found == {j \in batch : cache[j] # {}}
  <2>2. /\ calls[c].pc = "scan" /\ UNCHANGED <<auction, cache, raced, failed>>
        /\ \A d \in Calls \ {c} : calls'[d] = calls[d]
    BY <1>0, <2>1 DEF Scans, At, rows, history
  <2>3. \A j \in Keys : WillDelete(calls[c], j) => j \in todo \cup found \/ cache[j] = {}
    BY <1>0, <2>2 DEF Sound, WillDelete
  <2>4. \/ calls'[c] = [calls[c] EXCEPT !.pc = "del", !.todo = todo, !.found = found]
        \/ found = {} /\ calls'[c] = [calls[c] EXCEPT !.todo = todo]
        \/ found = {} /\ todo = {} /\ calls'[c] = Idle
    BY <1>0, <2>1 DEF Scans
  <2>5. calls[c] \in CallType
    BY <1>0
  <2> HIDE DEF todo, found
  <2>6. \A j \in todo \cup found : WillDelete(calls'[c], j)
    <3>1. CASE calls'[c] = [calls[c] EXCEPT !.pc = "del", !.todo = todo, !.found = found]
      BY <2>5, <3>1 DEF WillDelete, CallType
    <3>2. CASE found = {} /\ calls'[c] = [calls[c] EXCEPT !.todo = todo]
      BY <2>5, <3>2 DEF WillDelete, CallType
    <3> QED
      BY <2>4, <3>1, <3>2
  <2>7. Listing' = Listing
    BY <2>2 DEF Listing
  <2>8. \A j \in Keys, d \in Calls :
          WillDelete(calls[d], j) => WillDelete(calls'[d], j) \/ cache[j] = {}
    BY <2>2, <2>3, <2>6
  <2>9. \A j \in Keys, d \in Calls : WillDelete(calls'[d], j) <=> WillDelete(calls[d], j)'
    BY DEF WillDelete
  <2> QED
    BY <2>2, <2>7, <2>8, <2>9 DEF Covered
<1>4. CASE Deletes(c)
  <2>1. /\ calls[c].pc = "del" /\ UNCHANGED <<auction, raced, failed>>
        /\ \A d \in Calls \ {c} : calls'[d] = calls[d]
        /\ cache' = [j \in Keys |-> IF j \in calls[c].found THEN {} ELSE cache[j]]
    BY <1>0, <1>4 DEF Deletes, At, rows, history
  <2>2. \/ calls'[c] = [calls[c] EXCEPT !.pc = "scan", !.found = {}]
        \/ calls[c].todo = {}
    BY <1>0, <1>4 DEF Deletes
  <2>3. calls[c] \in CallType
    BY <1>0
  <2>4. \A j \in Keys : WillDelete(calls[c], j) => j \in calls[c].todo \/ cache'[j] = {}
    BY <2>1 DEF WillDelete
  <2>5. \A j \in calls[c].todo : WillDelete(calls'[c], j)
    BY <2>2, <2>3 DEF WillDelete, CallType
  <2>6. Listing' = Listing
    BY <2>1 DEF Listing
  <2>7. \A j \in Keys, d \in Calls :
          WillDelete(calls[d], j) => WillDelete(calls'[d], j) \/ cache'[j] = {}
    BY <2>1, <2>4, <2>5
  <2>8. \A j \in Keys, d \in Calls : WillDelete(calls'[d], j) <=> WillDelete(calls[d], j)'
    BY DEF WillDelete
  <2>9. \A j \in Keys : cache'[j] = {} \/ cache'[j] = cache[j]
    BY <2>1
  <2> QED
    BY <2>1, <2>6, <2>7, <2>8, <2>9 DEF Covered
<1>5. CASE InvalidationFails(c) \/ SetUpFails(c) \/ EditCommitsUnnoticed(c)
  BY <1>5 DEF InvalidationFails, SetUpFails, EditCommitsUnnoticed, Covered
<1>6. CASE UpdateSaves(c) \/ SetsUp(c) \/ EditDeletes(c)
  <2>1. calls'[c] = Invalidates("update") \/ calls'[c] = Invalidates(calls[c].op)
          \/ calls'[c] = Invalidates("edit")
    BY <1>0, <1>6 DEF UpdateSaves, SetsUp, EditDeletes
  <2>2. calls'[c].todo = Keys
    BY <2>1 DEF Invalidates, Call, Idle
  <2> QED
    BY <2>2, StepAnnounces DEF WillDelete
<1>7. CASE EditCommits(c)
  <2> DEFINE pc == IF Dropped(c) = {} THEN "scan" ELSE "delete"
  <2>1. calls'[c] = [Invalidates("edit") EXCEPT !.pc = pc, !.loose = Dropped(c)]
    BY <1>0, <1>7 DEF EditCommits
  <2>2. calls'[c].todo = Keys
    BY <2>1 DEF Invalidates, Call, Idle
  <2> QED
    BY <2>2, StepAnnounces DEF WillDelete
<1> QED
  BY <1>1, <1>2, <1>3, <1>4, <1>5, <1>6, <1>7 DEF Step

LEMMA NextKeepsCovered == TypeInv /\ Covered /\ [Next]_vars => Covered'
<1> SUFFICES ASSUME TypeInv, Covered, [Next]_vars PROVE Covered'
  OBVIOUS
<1>1. CASE \E c \in Calls : Request(c) \/ Step(c)
  BY <1>1, RequestKeepsCovered, StepKeepsCovered
<1>2. CASE \E k \in Keys : PageExpires(k)
  <2>1. /\ UNCHANGED <<auction, calls, raced, failed>>
        /\ \A j \in Keys : cache'[j] = {} \/ cache'[j] = cache[j]
    BY <1>2 DEF PageExpires, rows, history, TypeInv, CacheInv
  <2>2. Listing' = Listing
    BY <2>1 DEF Listing
  <2> QED
    BY <2>1, <2>2 DEF Covered
<1>3. CASE Restart
  BY <1>3 DEF Restart, Covered
<1>4. CASE UNCHANGED vars
  BY <1>4 DEF vars, rows, history, Covered, Listing, WillDelete
<1> QED
  BY <1>1, <1>2, <1>3, <1>4 DEF Next

\* A cached page of the auction list differs from the database only while an
\* invalidation is on its way to it, if it was out of date when findActiveAuctions
\* stored it, or if an invalidation was lost: SCAN and DEL leave no page behind,
\* however many requests and jobs run them at once.
THEOREM PagesAreCurrent == Spec => []StaleOnlyByRace
<1>1. Init => Covered
  BY DEF Init, Covered
<1>2. Covered => StaleOnlyByRace
  BY DEF Covered, StaleOnlyByRace, WillDelete, At
<1> QED
  BY <1>1, <1>2, InitTypes, NextKeepsTypes, NextKeepsCovered, PTL DEF Spec

-----------------------------------------------------------------------------
(* Images and their files *)

\* The names of files that are being added are used nowhere else.
NamesAreFresh ==
  /\ \A c, d \in Calls : c # d => calls[c].new \cap calls[d].new = {}
  /\ overlapped \/ \A c \in Calls : calls[c].new \cap images = {}

\* Rows that are there have files; what is uploaded is there until the commit,
\* what is to be deleted belongs to one call only.
FilesAreThere ==
  /\ images \subseteq files
  /\ \A c \in Calls : calls[c].loose \subseteq files
  /\ \A c \in Calls : At(c, "delete") =>
       /\ calls[c].loose \cap images = {}
       /\ \A d \in Calls \ {c} : calls[c].loose \cap (calls[d].loose \cup calls[d].new) = {}

WholeInv ==
  /\ NamesAreFresh
  /\ overlapped \/ (primary = {auction.main} /\ auction.main \in images)
  /\ overlapped \/ unsure \/ FilesAreThere

StrayInv == files \subseteq images \cup orphans \cup UNION {calls[c].loose : c \in Calls}

EditSteps == {"upload", "commit", "delete"}

LEMMA InitImages == Init => WholeInv /\ StrayInv
<1> SUFFICES ASSUME Init PROVE WholeInv /\ StrayInv
  OBVIOUS
<1>1. PICK f \in Files, t \in Titles :
        /\ auction = [status |-> "PENDING", title |-> t, main |-> f]
        /\ images = {f} /\ primary = {f} /\ files = {f}
  BY DEF Init
<1>2. \A c \in Calls : calls[c].new = {} /\ calls[c].loose = {} /\ ~At(c, "delete")
  BY DEF Init, Idle, At
<1>3. auction.main = f
  BY <1>1
<1> QED
  BY <1>1, <1>2, <1>3 DEF WholeInv, NamesAreFresh, FilesAreThere, StrayInv

\* The steps outside of an edit's work on files.
LEMMA FilesStay ==
  ASSUME TypeInv, NEW c \in Calls,
         \/ Request(c) \/ ListQueries(c) \/ ListStores(c)
         \/ \E batch \in SUBSET calls[c].todo : Scans(c, batch)
         \/ Deletes(c) \/ InvalidationFails(c) \/ UpdateSaves(c) \/ SetsUp(c) \/ SetUpFails(c)
  PROVE  /\ UNCHANGED <<files, orphans, unsure>>
         /\ \A d \in Calls \ {c} : calls'[d] = calls[d]
         /\ calls[c].pc \notin EditSteps /\ calls'[c].pc \notin EditSteps
<1>0. calls \in [Calls -> CallType] /\ calls[c] \in CallType
  BY DEF TypeInv, CallsInv
<1>1. CASE Request(c)
  <2>1. UNCHANGED <<files, orphans, unsure>> /\ calls[c].pc = "idle"
    BY <1>1 DEF Request, ListMisses, StartActivates, StartMarksEnded, EndCommits, CancelCommits,
                UpdateReads, UpdateLocked, EditReads, Asks, At, history
  <2>2. \A d \in Calls \ {c} : calls'[d] = calls[d]
    BY <1>0, <1>1 DEF Request, ListMisses, StartActivates, StartMarksEnded, EndCommits,
                      CancelCommits, UpdateReads, UpdateLocked, EditReads, Asks
  <2>3. calls'[c].pc \in {"idle", "query", "setup", "scan", "save", "find"}
    <3>1. CASE StartMarksEnded(c)
      BY <2>1, <3>1 DEF StartMarksEnded
    <3>2. CASE StartActivates(c) \/ CancelCommits(c) \/ \E t \in Titles : UpdateLocked(c, t)
      <4>1. \E op \in Ops : calls' = [calls EXCEPT ![c] = Call(op, "setup")]
        BY <3>2 DEF StartActivates, CancelCommits, UpdateLocked, Asks, Ops
      <4> QED
        BY <1>0, <4>1 DEF Call, Idle
    <3>3. CASE EndCommits(c)
      <4>1. calls' = [calls EXCEPT ![c] = Invalidates("end")]
        BY <3>3 DEF EndCommits, Asks
      <4> QED
        BY <1>0, <4>1 DEF Invalidates, Call, Idle
    <3>4. CASE EditReads(c)
      <4>1. calls' = [calls EXCEPT ![c] = [Call("edit", "find") EXCEPT !.copy = auction]]
        BY <3>4 DEF EditReads, Asks
      <4> QED
        BY <1>0, <4>1 DEF Call, Idle
    <3>5. CASE \E k \in Keys : ListMisses(c, k)
      <4>1. PICK k \in Keys : calls' = [calls EXCEPT ![c] = [Call("list", "query") EXCEPT !.key = k]]
        BY <3>5 DEF ListMisses, Asks
      <4> QED
        BY <1>0, <4>1 DEF Call, Idle
    <3>6. CASE \E t \in Titles : UpdateReads(c, t)
      <4>1. PICK t \in Titles :
              calls' = [calls EXCEPT ![c] = [Call("update", "save") EXCEPT !.copy = auction, !.title = t]]
        BY <3>6 DEF UpdateReads, Asks
      <4> QED
        BY <1>0, <4>1 DEF Call, Idle
    <3> QED
      BY <1>1, <3>1, <3>2, <3>3, <3>4, <3>5, <3>6 DEF Request
  <2> QED
    BY <2>1, <2>2, <2>3 DEF EditSteps
<1>2. CASE ListQueries(c) \/ ListStores(c) \/ InvalidationFails(c) \/ SetUpFails(c)
  <2>1. calls'[c].pc \in {"store", "idle"} /\ \A d \in Calls \ {c} : calls'[d] = calls[d]
    BY <1>0, <1>2 DEF ListQueries, ListStores, InvalidationFails, SetUpFails, Return, Idle, CallType
  <2> QED
    BY <1>2, <2>1 DEF ListQueries, ListStores, InvalidationFails, SetUpFails, At, EditSteps, history
<1>3. CASE Deletes(c) \/ \E batch \in SUBSET calls[c].todo : Scans(c, batch)
  <2>1. \A d \in Calls \ {c} : calls'[d] = calls[d]
    BY <1>0, <1>3 DEF Deletes, Scans
  <2>2. calls'[c].pc \in {"scan", "del", "idle"}
    <3>1. CASE Deletes(c)
      <4>1. calls'[c] = [calls[c] EXCEPT !.pc = "scan", !.found = {}] \/ calls'[c] = Idle
        BY <1>0, <3>1 DEF Deletes
      <4>2. Idle.pc = "idle" /\ [calls[c] EXCEPT !.pc = "scan", !.found = {}].pc = "scan"
        BY <1>0 DEF Idle, CallType
      <4> QED
        BY <4>1, <4>2
    <3>2. CASE \E batch \in SUBSET calls[c].todo : Scans(c, batch)
      <4>1. PICK batch \in SUBSET calls[c].todo : Scans(c, batch)
        BY <3>2
      <4> DEFINE todo == calls[c].todo \ batch
                 found == {k \in batch : cache[k] # {}}
      <4>2. /\ calls[c].pc = "scan"
            /\ \/ calls'[c] = [calls[c] EXCEPT !.pc = "del", !.todo = todo, !.found = found]
               \/ calls'[c] = [calls[c] EXCEPT !.todo = todo]
               \/ calls'[c] = Idle
        BY <1>0, <4>1 DEF Scans, At
      <4> HIDE DEF todo, found
      <4>3. /\ Idle.pc = "idle" /\ [calls[c] EXCEPT !.todo = todo].pc = calls[c].pc
            /\ [calls[c] EXCEPT !.pc = "del", !.todo = todo, !.found = found].pc = "del"
        BY <1>0 DEF Idle, CallType
      <4> QED
        BY <4>2, <4>3
    <3> QED
      BY <1>3, <3>1, <3>2
  <2> QED
    BY <1>3, <2>1, <2>2 DEF Deletes, Scans, At, EditSteps, history
<1>4. CASE UpdateSaves(c) \/ SetsUp(c)
  <2>1. calls'[c].pc = "scan" /\ \A d \in Calls \ {c} : calls'[d] = calls[d]
    BY <1>0, <1>4 DEF UpdateSaves, SetsUp, Invalidates, Call, Idle
  <2> QED
    BY <1>4, <2>1 DEF UpdateSaves, SetsUp, At, EditSteps, history
<1> QED
  BY <1>1, <1>2, <1>3, <1>4

\* A call outside of them holds no files.
LEMMA HoldsNothing ==
  ASSUME CallsInv, NEW c \in Calls, calls[c].pc \notin EditSteps
  PROVE  calls[c].new = {} /\ calls[c].loose = {}
  BY DEF CallsInv, Sound, EditSteps, Chosen

LEMMA HoldsNothingNext ==
  ASSUME CallsInv', NEW c \in Calls, calls'[c].pc \notin EditSteps
  PROVE  calls'[c].new = {} /\ calls'[c].loose = {}
  BY DEF CallsInv, Sound, EditSteps, Chosen

-----------------------------------------------------------------------------
(* No file is forgotten *)

\* What a step takes from images, orphans and the call's files is gone or kept
\* in another of them.
LEMMA StepKeepsStray ==
  ASSUME StrayInv, NEW c \in Calls, \A d \in Calls \ {c} : calls'[d] = calls[d],
         files' \subseteq files \cup images' \cup orphans' \cup calls'[c].loose,
         files' \cap (images \cup orphans \cup calls[c].loose)
           \subseteq images' \cup orphans' \cup calls'[c].loose
  PROVE  StrayInv'
<1> SUFFICES ASSUME NEW f \in files', f \notin images' \cup orphans'
             PROVE  \E d \in Calls : f \in calls'[d].loose
  BY DEF StrayInv
<1>1. CASE f \in calls'[c].loose
  BY <1>1
<1>2. CASE f \notin calls'[c].loose
  <2>1. f \in files /\ f \notin images \cup orphans \cup calls[c].loose
    BY <1>2
  <2>2. PICK d \in Calls : f \in calls[d].loose
    BY <2>1 DEF StrayInv
  <2>3. d # c
    BY <2>1, <2>2
  <2> QED
    BY <2>2, <2>3
<1> QED
  BY <1>1, <1>2

LEMMA EditKeepsStray ==
  ASSUME TypeInv, StrayInv, NEW c \in Calls,
         \/ \E keep, new \in SUBSET Files, first \in Files \cup {Null} : EditFinds(c, keep, new, first)
         \/ EditUploads(c) \/ UploadFails(c)
         \/ EditCommits(c) \/ EditThrows(c) \/ EditCommitsUnnoticed(c) \/ EditDeletes(c)
  PROVE  StrayInv'
<1>0. calls \in [Calls -> CallType] /\ calls[c] \in CallType /\ Sound(calls[c])
  BY DEF TypeInv, CallsInv
<1>1. CASE \E keep, new \in SUBSET Files, first \in Files \cup {Null} : EditFinds(c, keep, new, first)
  <2>1. UNCHANGED <<files, images, orphans>> /\ \A d \in Calls \ {c} : calls'[d] = calls[d]
    BY <1>0, <1>1 DEF EditFinds, Return, rows, history
  <2>2. calls[c].loose = {}
    BY <1>0, <1>1 DEF EditFinds, At, Sound
  <2> QED
    BY <2>1, <2>2, StepKeepsStray
<1>2. CASE EditUploads(c)
  <2>1. /\ files' = files \cup calls[c].new /\ UNCHANGED images
        /\ \A d \in Calls \ {c} : calls'[d] = calls[d]
        /\ \/ orphans' = orphans /\ calls'[c].loose = calls[c].new
           \/ orphans' = orphans \cup calls[c].new
    BY <1>0, <1>2 DEF EditUploads, Return, rows, CallType
  <2>2. calls[c].loose = {}
    BY <1>0, <1>2 DEF EditUploads, At, Sound
  <2> QED
    BY <2>1, <2>2, StepKeepsStray
<1>3. CASE UploadFails(c)
  <2>1. /\ UNCHANGED images /\ \A d \in Calls \ {c} : calls'[d] = calls[d]
        /\ \E part \in SUBSET calls[c].new : files' = files \cup part /\ orphans' = orphans \cup part
    BY <1>0, <1>3 DEF UploadFails, Return, rows
  <2>2. calls[c].loose = {}
    BY <1>0, <1>3 DEF UploadFails, At, Sound
  <2> QED
    BY <2>1, <2>2, StepKeepsStray
<1>4. CASE EditCommits(c) \/ EditCommitsUnnoticed(c)
  <2>1. At(c, "commit") /\ Committed(c)
    BY <1>4 DEF EditCommits, EditCommitsUnnoticed
  <2>2. calls[c].new \subseteq images' /\ images \subseteq images' \cup Dropped(c)
    BY <2>1, CommitWrites
  <2>3. calls[c].loose = calls[c].new
    BY <1>0, <2>1 DEF At, Sound
  <2>4. /\ \A d \in Calls \ {c} : calls'[d] = calls[d]
        /\ files' \subseteq files /\ orphans \subseteq orphans'
        /\ Dropped(c) \subseteq orphans' \/ calls'[c].loose = Dropped(c)
    <3>1. CASE EditCommits(c)
      <4> DEFINE pc == IF Dropped(c) = {} THEN "scan" ELSE "delete"
      <4>1. calls' = [calls EXCEPT ![c] = [Invalidates("edit") EXCEPT !.pc = pc, !.loose = Dropped(c)]]
        BY <3>1 DEF EditCommits
      <4>2. calls'[c].loose = Dropped(c)
        BY <1>0, <4>1 DEF Invalidates, Call, Idle
      <4> QED
        BY <1>0, <3>1, <4>1, <4>2 DEF EditCommits
    <3>2. CASE EditCommitsUnnoticed(c)
      BY <1>0, <3>2 DEF EditCommitsUnnoticed, Return
    <3> QED
      BY <1>4, <3>1, <3>2
  <2> QED
    BY <2>2, <2>3, <2>4, StepKeepsStray
<1>5. CASE EditThrows(c) \/ EditDeletes(c)
  <2>1. /\ Removes(calls[c].loose) /\ UNCHANGED images
        /\ \A d \in Calls \ {c} : calls'[d] = calls[d]
    BY <1>0, <1>5 DEF EditThrows, EditDeletes, At, Sound, Return, rows
  <2>2. files' \subseteq files /\ orphans \subseteq orphans' /\ files' \cap calls[c].loose \subseteq orphans'
    BY <2>1 DEF Removes
  <2> QED
    BY <2>1, <2>2, StepKeepsStray
<1> QED
  BY <1>1, <1>2, <1>3, <1>4, <1>5

LEMMA NextKeepsStray == TypeInv /\ StrayInv /\ [Next]_vars => StrayInv'
<1> SUFFICES ASSUME TypeInv, StrayInv, [Next]_vars PROVE StrayInv'
  OBVIOUS
<1>1. ASSUME NEW c \in Calls, Request(c) \/ Step(c)
      PROVE  StrayInv'
  <2>1. CASE \/ \E keep, new \in SUBSET Files, first \in Files \cup {Null} :
                  EditFinds(c, keep, new, first)
             \/ EditUploads(c) \/ UploadFails(c)
             \/ EditCommits(c) \/ EditThrows(c) \/ EditCommitsUnnoticed(c) \/ EditDeletes(c)
    BY <2>1, EditKeepsStray
  <2>2. CASE \/ Request(c) \/ ListQueries(c) \/ ListStores(c)
             \/ \E batch \in SUBSET calls[c].todo : Scans(c, batch)
             \/ Deletes(c) \/ InvalidationFails(c) \/ UpdateSaves(c) \/ SetsUp(c) \/ SetUpFails(c)
    <3>1. UNCHANGED images
      BY <2>2
      DEF Request, ListMisses, StartActivates, StartMarksEnded, EndCommits, CancelCommits,
          UpdateReads, UpdateLocked, EditReads, ListQueries, ListStores, Scans, Deletes,
          InvalidationFails, UpdateSaves, SetsUp, SetUpFails, rows
    <3>2. /\ UNCHANGED <<files, orphans>> /\ calls[c].pc \notin EditSteps
          /\ \A d \in Calls \ {c} : calls'[d] = calls[d]
      BY <2>2, FilesStay
    <3>3. calls[c].loose = {}
      BY <3>2, HoldsNothing DEF TypeInv
    <3> QED
      BY <3>1, <3>2, <3>3, StepKeepsStray
  <2> QED
    BY <1>1, <2>1, <2>2 DEF Step
<1>2. CASE Restart
  <2>1. UNCHANGED <<files, images>> /\ orphans' = orphans \cup UNION {calls[c].loose : c \in Calls}
    BY <1>2 DEF Restart
  <2> QED
    BY <2>1 DEF StrayInv
<1>3. CASE (\E k \in Keys : PageExpires(k)) \/ UNCHANGED vars
  BY <1>3 DEF PageExpires, vars, rows, history, StrayInv
<1> QED
  BY <1>1, <1>2, <1>3 DEF Next

-----------------------------------------------------------------------------
(* Rows and files agree *)

\* A step that takes no file away and leaves the rows of images alone.
LEMMA HarmlessStep ==
  ASSUME TypeInv, WholeInv, NEW c \in Calls,
         \A d \in Calls \ {c} : calls'[d] = calls[d],
         UNCHANGED <<images, primary, unsure>>, files \subseteq files',
         overlapped => overlapped', ~overlapped' => auction'.main = auction.main,
         calls'[c].new \subseteq calls[c].new, calls'[c].loose \subseteq files',
         calls'[c].loose \subseteq calls[c].loose \cup calls[c].new, calls'[c].pc # "delete"
  PROVE  WholeInv'
<1>1. NamesAreFresh'
  BY DEF WholeInv, NamesAreFresh
<1>2. ASSUME ~overlapped' PROVE primary' = {auction'.main} /\ auction'.main \in images'
  BY <1>2 DEF WholeInv
<1>3. ASSUME ~overlapped', ~unsure' PROVE FilesAreThere'
  <2>1. FilesAreThere
    BY <1>3 DEF WholeInv
  <2>2. images' \subseteq files' /\ \A d \in Calls : calls'[d].loose \subseteq files'
    BY <2>1 DEF FilesAreThere
  <2>3. ASSUME NEW d \in Calls, calls'[d].pc = "delete"
        PROVE  /\ calls'[d].loose \cap images' = {}
               /\ \A e \in Calls \ {d} : calls'[d].loose \cap (calls'[e].loose \cup calls'[e].new) = {}
    <3>1. d # c /\ calls[d].pc = "delete" /\ calls'[d] = calls[d]
      BY <2>3
    <3> QED
      BY <2>1, <3>1 DEF FilesAreThere, At
  <2> QED
    BY <2>2, <2>3 DEF FilesAreThere, At
<1> QED
  BY <1>1, <1>2, <1>3 DEF WholeInv

\* A step that gives up files which belong to this call only.
LEMMA GivesUpFiles ==
  ASSUME TypeInv, WholeInv, NEW c \in Calls,
         \A d \in Calls \ {c} : calls'[d] = calls[d],
         UNCHANGED <<auction, images, primary, overlapped, unsure>>,
         files \ calls[c].loose \subseteq files',
         calls'[c].new = {}, calls'[c].loose = {}, calls'[c].pc # "delete",
         ~overlapped /\ ~unsure =>
           calls[c].loose \cap images = {} /\ \A d \in Calls \ {c} : calls[c].loose \cap calls[d].loose = {}
  PROVE  WholeInv'
<1>1. NamesAreFresh'
  BY DEF WholeInv, NamesAreFresh
<1>2. ASSUME ~overlapped' PROVE primary' = {auction'.main} /\ auction'.main \in images'
  BY <1>2 DEF WholeInv
<1>3. ASSUME ~overlapped', ~unsure' PROVE FilesAreThere'
  <2>1. FilesAreThere
    BY <1>3 DEF WholeInv
  <2>2. images' \subseteq files'
    BY <1>3, <2>1 DEF FilesAreThere
  <2>3. ASSUME NEW d \in Calls PROVE calls'[d].loose \subseteq files'
    <3>1. CASE d = c
      BY <3>1
    <3>2. CASE d # c
      BY <1>3, <2>1, <3>2 DEF FilesAreThere
    <3> QED
      BY <3>1, <3>2
  <2>4. ASSUME NEW d \in Calls, calls'[d].pc = "delete"
        PROVE  /\ calls'[d].loose \cap images' = {}
               /\ \A e \in Calls \ {d} : calls'[d].loose \cap (calls'[e].loose \cup calls'[e].new) = {}
    <3>1. d # c /\ calls[d].pc = "delete" /\ calls'[d] = calls[d]
      BY <2>4
    <3> QED
      BY <2>1, <3>1 DEF FilesAreThere, At
  <2> QED
    BY <2>2, <2>3, <2>4 DEF FilesAreThere, At
<1> QED
  BY <1>1, <1>2, <1>3 DEF WholeInv

LEMMA ChoiceKeepsWhole ==
  ASSUME TypeInv, WholeInv, NEW c \in Calls, NEW keep \in SUBSET Files, NEW new \in SUBSET Files,
         NEW first \in Files \cup {Null}, EditFinds(c, keep, new, first)
  PROVE  WholeInv'
<1>0. /\ calls \in [Calls -> CallType] /\ calls[c] \in CallType
      /\ calls[c].loose = {} /\ calls[c].new = {}
  BY DEF TypeInv, CallsInv, EditFinds, At, Sound, Chosen
<1>1. /\ UNCHANGED <<auction, images, primary, files, orphans, overlapped, unsure>>
      /\ \A d \in Calls \ {c} : calls'[d] = calls[d]
      /\ \A f \in new : f \notin files \cup images /\ \A d \in Calls : f \notin calls[d].new
  BY <1>0 DEF EditFinds, Return, Unused, rows, history
<1>2. calls'[c].loose = {} /\ calls'[c].new \subseteq new /\ calls'[c].pc # "delete"
  <2> DEFINE pc == IF new = {} THEN "commit" ELSE "upload"
  <2>1. \/ calls'[c] = Idle
        \/ calls'[c] = [calls[c] EXCEPT !.pc = pc, !.rows = images, !.was = primary, !.keep = keep,
                                        !.new = new, !.first = first]
    BY <1>0 DEF EditFinds, Return
  <2>2. pc # "delete"
    OBVIOUS
  <2> HIDE DEF pc
  <2>3. Idle.loose = {} /\ Idle.new = {} /\ Idle.pc = "idle"
    BY DEF Idle
  <2> DEFINE chosen == [calls[c] EXCEPT !.pc = pc, !.rows = images, !.was = primary, !.keep = keep,
                                        !.new = new, !.first = first]
  <2>4. chosen.loose = calls[c].loose /\ chosen.new = new /\ chosen.pc = pc
    BY <1>0 DEF CallType
  <2> HIDE DEF chosen
  <2>5. calls'[c] = Idle \/ calls'[c] = chosen
    BY <2>1 DEF chosen
  <2> QED
    BY <1>0, <2>2, <2>3, <2>4, <2>5
<1>3. NamesAreFresh'
  <2>1. ASSUME NEW d \in Calls, NEW e \in Calls, d # e
        PROVE  calls'[d].new \cap calls'[e].new = {}
    BY <1>1, <1>2, <2>1 DEF WholeInv, NamesAreFresh
  <2>2. ASSUME ~overlapped, NEW d \in Calls PROVE calls'[d].new \cap images = {}
    BY <1>1, <1>2, <2>2 DEF WholeInv, NamesAreFresh
  <2> QED
    BY <1>1, <2>1, <2>2 DEF NamesAreFresh
<1>4. ASSUME ~overlapped' PROVE primary' = {auction'.main} /\ auction'.main \in images'
  BY <1>1, <1>4 DEF WholeInv
<1>5. ASSUME ~overlapped', ~unsure' PROVE FilesAreThere'
  <2>1. FilesAreThere
    BY <1>1, <1>5 DEF WholeInv
  <2>2. images' \subseteq files' /\ \A d \in Calls : calls'[d].loose \subseteq files'
    BY <1>1, <1>2, <2>1 DEF FilesAreThere
  <2>3. ASSUME NEW d \in Calls, calls'[d].pc = "delete"
        PROVE  /\ calls'[d].loose \cap images' = {}
               /\ \A e \in Calls \ {d} : calls'[d].loose \cap (calls'[e].loose \cup calls'[e].new) = {}
    <3>1. d # c /\ calls[d].pc = "delete" /\ calls'[d] = calls[d]
      BY <1>1, <1>2, <2>3
    <3>2. calls[d].loose \cap new = {}
      BY <1>1, <2>1 DEF FilesAreThere
    <3>3. ASSUME NEW e \in Calls \ {d}
          PROVE  calls'[d].loose \cap (calls'[e].loose \cup calls'[e].new) = {}
      <4>1. CASE e = c
        BY <1>2, <3>1, <3>2, <4>1
      <4>2. CASE e # c
        BY <1>1, <2>1, <3>1, <4>2 DEF FilesAreThere, At
      <4> QED
        BY <4>1, <4>2
    <3> QED
      BY <1>1, <2>1, <3>1, <3>3 DEF FilesAreThere, At
  <2> QED
    BY <2>2, <2>3 DEF FilesAreThere, At
<1> QED
  BY <1>3, <1>4, <1>5 DEF WholeInv

\* A commit that nobody has overtaken makes one of the images it leaves primary.
LEMMA CommitSetsPrimary ==
  ASSUME TypeInv, WholeInv, NEW c \in Calls, At(c, "commit"), Committed(c), ~overlapped'
  PROVE  primary' = {auction'.main} /\ auction'.main \in images'
<1>0. /\ calls[c].rows = images /\ calls[c].was = primary /\ ~overlapped
      /\ images' = calls[c].keep \cup calls[c].new /\ auction'.main = calls[c].first
  BY CommitWrites DEF TypeInv, SetsInv
<1>1. /\ calls[c].keep \subseteq images /\ calls[c].new \cap images = {}
      /\ calls[c].first \in calls[c].keep \cup calls[c].new
  BY <1>0 DEF TypeInv, CallsInv, Sound, Chosen, At
<1>2. PICK m \in images : primary = {m}
  BY <1>0 DEF WholeInv
<1> DEFINE first == calls[c].first
           keep == calls[c].keep
           new == calls[c].new
           written == Flagged(c) \cup new
<1>3. primary' = (primary \ (Dropped(c) \cup written)) \cup ({first} \cap written)
  BY DEF Committed
<1>4. Dropped(c) = images \ keep /\ Flagged(c) = {f \in keep : (f = m) # (f = first)}
  <2>1. \A f : (f \in primary) <=> (f = m)
    BY <1>2
  <2> QED
    BY <1>0, <2>1 DEF Dropped, Flagged
<1> HIDE DEF first, keep, new
<1>5. CASE first = m
  <2>1. first \in keep /\ first \notin Flagged(c) \cup new
    BY <1>1, <1>2, <1>4, <1>5 DEF first, keep, new
  <2> QED
    BY <1>0, <1>1, <1>2, <1>3, <1>4, <1>5, <2>1 DEF first
<1>6. CASE first # m
  <2>1. first \in written
    BY <1>1, <1>4, <1>6 DEF first, keep, new
  <2>2. m \in Dropped(c) \cup written
    BY <1>2, <1>4, <1>6
  <2> QED
    BY <1>0, <1>1, <1>2, <1>3, <2>1, <2>2 DEF first
<1> QED
  BY <1>5, <1>6

LEMMA CommitKeepsWhole ==
  ASSUME TypeInv, WholeInv, NEW c \in Calls, EditCommits(c) \/ EditCommitsUnnoticed(c)
  PROVE  WholeInv'
<1>0. At(c, "commit") /\ Committed(c)
  BY DEF EditCommits, EditCommitsUnnoticed
<1>1. /\ calls \in [Calls -> CallType] /\ calls[c].keep \subseteq calls[c].rows
      /\ calls[c].loose = calls[c].new /\ calls[c].rows \cap calls[c].new = {}
      /\ overlapped \in BOOLEAN
  BY <1>0 DEF TypeInv, CallsInv, SetsInv, Sound, Chosen, At
<1>2. /\ \A d \in Calls \ {c} : calls'[d] = calls[d]
      /\ calls'[c].new = {} /\ calls'[c].loose \subseteq Dropped(c)
  <2>1. CASE EditCommits(c)
    <3> DEFINE pc == IF Dropped(c) = {} THEN "scan" ELSE "delete"
    <3>1. calls' = [calls EXCEPT ![c] = [Invalidates("edit") EXCEPT !.pc = pc, !.loose = Dropped(c)]]
      BY <2>1 DEF EditCommits
    <3>2. calls'[c].loose = Dropped(c) /\ calls'[c].new = {}
      BY <1>1, <3>1 DEF Invalidates, Call, Idle
    <3> QED
      BY <1>1, <3>1, <3>2
  <2>2. CASE EditCommitsUnnoticed(c)
    BY <1>1, <2>2 DEF EditCommitsUnnoticed, Return, Idle
  <2> QED
    BY <2>1, <2>2
<1>3. ASSUME ~overlapped'
      PROVE  /\ ~overlapped /\ calls[c].rows = images
             /\ images' = calls[c].keep \cup calls[c].new
  BY <1>0, <1>1, <1>3, CommitWrites
<1>4. NamesAreFresh'
  <2>1. ASSUME NEW d \in Calls, NEW e \in Calls, d # e
        PROVE  calls'[d].new \cap calls'[e].new = {}
    BY <1>2, <2>1 DEF WholeInv, NamesAreFresh
  <2>2. ASSUME ~overlapped', NEW d \in Calls PROVE calls'[d].new \cap images' = {}
    <3>1. CASE d = c
      BY <1>2, <3>1
    <3>2. CASE d # c
      <4>1. calls[d].new \cap images = {} /\ calls[d].new \cap calls[c].new = {}
        BY <1>3, <2>2, <3>2 DEF WholeInv, NamesAreFresh
      <4> QED
        BY <1>1, <1>2, <1>3, <2>2, <3>2, <4>1
    <3> QED
      BY <3>1, <3>2
  <2> QED
    BY <2>1, <2>2 DEF NamesAreFresh
<1>5. ASSUME ~overlapped' PROVE primary' = {auction'.main} /\ auction'.main \in images'
  BY <1>0, <1>5, CommitSetsPrimary
<1>6. ASSUME ~overlapped', ~unsure' PROVE FilesAreThere'
  <2>1. EditCommits(c) /\ ~unsure /\ files' = files
    BY <1>6 DEF EditCommits, EditCommitsUnnoticed
  <2>2. FilesAreThere
    BY <1>3, <1>6, <2>1 DEF WholeInv
  <2>3. Dropped(c) \subseteq images /\ images' \subseteq images \cup calls[c].loose
        /\ Dropped(c) \cap images' = {}
    BY <1>1, <1>3, <1>6 DEF Dropped
  <2>4. images' \subseteq files' /\ \A d \in Calls : calls'[d].loose \subseteq files'
    <3>1. images' \subseteq files'
      BY <2>1, <2>2, <2>3 DEF FilesAreThere
    <3>2. ASSUME NEW d \in Calls PROVE calls'[d].loose \subseteq files'
      <4>1. CASE d = c
        BY <1>2, <2>1, <2>2, <2>3, <4>1 DEF FilesAreThere
      <4>2. CASE d # c
        BY <1>2, <2>1, <2>2, <4>2 DEF FilesAreThere
      <4> QED
        BY <4>1, <4>2
    <3> QED
      BY <3>1, <3>2
  <2>5. ASSUME NEW d \in Calls, calls'[d].pc = "delete"
        PROVE  /\ calls'[d].loose \cap images' = {}
               /\ \A e \in Calls \ {d} : calls'[d].loose \cap (calls'[e].loose \cup calls'[e].new) = {}
    <3>1. CASE d = c
      <4>1. ASSUME NEW e \in Calls \ {c}
            PROVE  images \cap (calls[e].loose \cup calls[e].new) = {}
        <5>1. images \cap calls[e].new = {}
          BY <1>3, <1>6 DEF WholeInv, NamesAreFresh
        <5>2. images \cap calls[e].loose = {}
          BY <2>2, <5>1 DEF FilesAreThere, TypeInv, CallsInv, Sound, At
        <5> QED
          BY <5>1, <5>2
      <4> QED
        BY <1>2, <2>3, <3>1, <4>1
    <3>2. CASE d # c
      <4>1. /\ calls[d].pc = "delete" /\ calls'[d] = calls[d] /\ calls[d].loose \cap images = {}
            /\ \A e \in Calls \ {d} : calls[d].loose \cap (calls[e].loose \cup calls[e].new) = {}
        BY <1>2, <2>2, <2>5, <3>2 DEF FilesAreThere, At
      <4>2. calls[d].loose \cap images' = {}
        BY <2>3, <3>2, <4>1
      <4>3. ASSUME NEW e \in Calls \ {d}
            PROVE  calls[d].loose \cap (calls'[e].loose \cup calls'[e].new) = {}
        <5>1. CASE e = c
          BY <1>2, <2>3, <4>1, <5>1
        <5>2. CASE e # c
          BY <1>2, <4>1, <5>2
        <5> QED
          BY <5>1, <5>2
      <4> QED
        BY <4>1, <4>2, <4>3
    <3> QED
      BY <3>1, <3>2
  <2> QED
    BY <2>4, <2>5 DEF FilesAreThere, At
<1> QED
  BY <1>4, <1>5, <1>6 DEF WholeInv

LEMMA EditKeepsWhole ==
  ASSUME TypeInv, WholeInv, NEW c \in Calls,
         EditUploads(c) \/ UploadFails(c) \/ EditThrows(c) \/ EditDeletes(c)
  PROVE  WholeInv'
<1>0. calls \in [Calls -> CallType] /\ calls[c] \in CallType /\ Sound(calls[c])
  BY DEF TypeInv, CallsInv
<1>1. CASE EditUploads(c)
  <2>1. /\ UNCHANGED <<auction, images, primary, overlapped, unsure>> /\ files' = files \cup calls[c].new
        /\ \A d \in Calls \ {c} : calls'[d] = calls[d]
    BY <1>0, <1>1 DEF EditUploads, Return, rows
  <2>2. /\ calls'[c].new \subseteq calls[c].new /\ calls'[c].loose \subseteq calls[c].new
        /\ calls'[c].pc # "delete"
    <3>1. CASE calls[c].first # Null
      BY <1>0, <1>1, <3>1 DEF EditUploads, CallType
    <3>2. CASE calls[c].first = Null
      BY <1>0, <1>1, <3>2 DEF EditUploads, Return, Idle
    <3> QED
      BY <3>1, <3>2
  <2> QED
    BY <2>1, <2>2, HarmlessStep
<1>2. CASE UploadFails(c)
  <2>1. /\ UNCHANGED <<auction, images, primary, overlapped, unsure>> /\ files \subseteq files'
        /\ \A d \in Calls \ {c} : calls'[d] = calls[d] /\ calls'[c] = Idle
    BY <1>0, <1>2 DEF UploadFails, Return, rows
  <2>2. calls'[c] = Idle
    BY <1>0, <1>2 DEF UploadFails, Return
  <2>3. calls'[c].new = {} /\ calls'[c].loose = {} /\ calls'[c].pc # "delete"
    BY <2>2 DEF Idle
  <2> QED
    BY <2>1, <2>3, HarmlessStep
<1>3. CASE EditThrows(c)
  <2>1. /\ UNCHANGED <<auction, images, primary, overlapped, unsure>>
        /\ \A d \in Calls \ {c} : calls'[d] = calls[d]
        /\ Removes(calls[c].new) /\ calls'[c] = Idle
    BY <1>0, <1>3 DEF EditThrows, Return, rows
  <2>2. files \ calls[c].new \subseteq files'
    BY <2>1 DEF Removes
  <2>3. calls'[c].new = {} /\ calls'[c].loose = {} /\ calls'[c].pc # "delete"
    BY <2>1 DEF Idle
  <2>4. calls[c].loose = calls[c].new
    BY <1>0, <1>3 DEF EditThrows, At, Sound
  <2>5. ASSUME ~overlapped, ~unsure
        PROVE  /\ calls[c].loose \cap images = {}
               /\ \A d \in Calls \ {c} : calls[c].loose \cap calls[d].loose = {}
    <3>1. calls[c].loose \cap images = {}
      BY <2>4, <2>5 DEF WholeInv, NamesAreFresh
    <3>2. ASSUME NEW d \in Calls \ {c} PROVE calls[c].loose \cap calls[d].loose = {}
      <4>1. CASE calls[d].pc = "delete"
        BY <2>4, <2>5, <4>1 DEF WholeInv, FilesAreThere, At
      <4>2. CASE calls[d].pc # "delete"
        BY <2>4, <4>2 DEF WholeInv, NamesAreFresh, TypeInv, CallsInv, Sound
      <4> QED
        BY <4>1, <4>2
    <3> QED
      BY <3>1, <3>2
  <2> QED
    BY <2>1, <2>2, <2>3, <2>4, <2>5, GivesUpFiles
<1>4. CASE EditDeletes(c)
  <2>1. /\ UNCHANGED <<auction, images, primary, overlapped, unsure>>
        /\ \A d \in Calls \ {c} : calls'[d] = calls[d]
        /\ Removes(calls[c].loose) /\ calls'[c] = Invalidates("edit")
    BY <1>0, <1>4 DEF EditDeletes, rows
  <2>2. files \ calls[c].loose \subseteq files'
    BY <2>1 DEF Removes
  <2>3. calls'[c].new = {} /\ calls'[c].loose = {} /\ calls'[c].pc # "delete"
    BY <2>1 DEF Invalidates, Call, Idle
  <2>4. ~overlapped /\ ~unsure =>
          /\ calls[c].loose \cap images = {}
          /\ \A d \in Calls \ {c} : calls[c].loose \cap calls[d].loose = {}
    BY <1>4 DEF EditDeletes, WholeInv, FilesAreThere
  <2> QED
    BY <2>1, <2>2, <2>3, <2>4, GivesUpFiles
<1> QED
  BY <1>1, <1>2, <1>3, <1>4

LEMMA NextKeepsWhole == TypeInv /\ WholeInv /\ [Next]_vars => WholeInv'
<1> SUFFICES ASSUME TypeInv, WholeInv, [Next]_vars PROVE WholeInv'
  OBVIOUS
<1>0. CallsInv'
  BY NextKeepsCalls
<1>1. CASE \E c \in Calls :
             \/ \E keep, new \in SUBSET Files, first \in Files \cup {Null} :
                  EditFinds(c, keep, new, first)
             \/ EditUploads(c) \/ UploadFails(c)
             \/ EditCommits(c) \/ EditThrows(c) \/ EditCommitsUnnoticed(c) \/ EditDeletes(c)
  BY <1>1, ChoiceKeepsWhole, CommitKeepsWhole, EditKeepsWhole
<1>2. ASSUME NEW c \in Calls,
             \/ Request(c) \/ ListQueries(c) \/ ListStores(c)
             \/ \E batch \in SUBSET calls[c].todo : Scans(c, batch)
             \/ Deletes(c) \/ InvalidationFails(c) \/ UpdateSaves(c) \/ SetsUp(c) \/ SetUpFails(c)
      PROVE  WholeInv'
  <2>1. /\ UNCHANGED <<files, unsure>>
        /\ \A d \in Calls \ {c} : calls'[d] = calls[d]
        /\ calls[c].pc \notin EditSteps /\ calls'[c].pc \notin EditSteps
    BY <1>2, FilesStay
  <2>2. ~EditCommits(c) /\ ~EditCommitsUnnoticed(c)
    BY <2>1 DEF EditCommits, EditCommitsUnnoticed, At, EditSteps
  <2>3. /\ UNCHANGED <<images, primary>> /\ (overlapped => overlapped')
        /\ ~overlapped' => auction'.main = auction.main
    BY <1>2, <2>2, RowStays DEF Step
  <2>4. /\ calls[c].new = {} /\ calls[c].loose = {} /\ calls'[c].new = {} /\ calls'[c].loose = {}
        /\ calls'[c].pc # "delete"
    BY <1>0, <2>1, HoldsNothing, HoldsNothingNext DEF TypeInv, EditSteps
  <2> QED
    BY <2>3, <2>1, <2>4, HarmlessStep
<1>3. CASE Restart
  <2>1. /\ UNCHANGED <<images, primary, files, overlapped, unsure>>
        /\ \A c \in Calls : calls'[c] = Idle
        /\ auction' = auction \/ auction' = [auction EXCEPT !.status = "ENDED"]
    BY <1>3 DEF Restart
  <2>2. auction'.main = auction.main
    BY <2>1 DEF TypeInv, RowsInv, Auction
  <2>3. \A c \in Calls : calls'[c].new = {} /\ calls'[c].loose = {} /\ calls'[c].pc = "idle"
    BY <2>1 DEF Idle
  <2>4. NamesAreFresh'
    BY <2>3 DEF NamesAreFresh
  <2>5. FilesAreThere => FilesAreThere'
    BY <2>1, <2>3 DEF FilesAreThere, At
  <2> QED
    BY <2>1, <2>2, <2>4, <2>5 DEF WholeInv
<1>4. CASE (\E k \in Keys : PageExpires(k)) \/ UNCHANGED vars
  <2>1. UNCHANGED <<auction, images, primary, files, calls, overlapped, unsure>>
    BY <1>4 DEF PageExpires, vars, rows, history
  <2> QED
    BY <2>1 DEF WholeInv, NamesAreFresh, FilesAreThere, At
<1> QED
  BY <1>1, <1>2, <1>3, <1>4 DEF Next, Step

\* Rows and files of images agree, although they are changed in two stores by
\* requests that overlap and fail: each row has its file, exactly one is primary
\* and the main image of the auction, unless an edit wrote over another; and no
\* file is left behind but by the failures that orphans lists.
THEOREM ImagesAreKept == Spec => []ImagesMatchFiles
<1>1. TypeInv /\ WholeInv /\ StrayInv => ImagesMatchFiles
  <2> SUFFICES ASSUME TypeInv, WholeInv, StrayInv PROVE ImagesMatchFiles
    OBVIOUS
  <2>1. ImagesAreWhole
    BY DEF WholeInv, FilesAreThere, ImagesAreWhole
  <2>2. ASSUME Quiet PROVE files \subseteq images \cup orphans
    <3>1. \A c \in Calls : calls[c].loose = {}
      BY <2>2 DEF Quiet, At, TypeInv, CallsInv, Sound
    <3> QED
      BY <3>1 DEF StrayInv
  <2> QED
    BY <2>1, <2>2 DEF ImagesMatchFiles, NoStrayFiles
<1> QED
  BY <1>1, InitTypes, InitImages, NextKeepsTypes, NextKeepsWhole, NextKeepsStray, PTL DEF Spec

=============================================================================
