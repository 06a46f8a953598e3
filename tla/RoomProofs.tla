------------------------------ MODULE RoomProofs ------------------------------
(***************************************************************************)
(* Proofs about AuctionRoom for any number of sockets, auctions, handlers  *)
(* at once and faults: a handler that waits for Redis has its place among  *)
(* the replies, sockets that are bound to an auction are counted in it,    *)
(* bids come from the room, winners can be told, and when the handlers are *)
(* done the participants are the users of the room and the last number     *)
(* that was shown is theirs.                                               *)
(***************************************************************************)
EXTENDS AuctionRoom, FiniteSetTheorems, TLAPS

-----------------------------------------------------------------------------
(* The records of the handlers *)

\* A handler has a socket; one that waits for the database has a user to look
\* up, and one that asks Redis, or rejoins, knows for which auction.
Sound(call) ==
  /\ call \in CallType
  /\ call.pc # "idle" => call.socket \in Sockets
  /\ call.pc \in DbSteps => UserOf[call.socket] # Null
  /\ call.pc \in RedisSteps \cup {"rejoin_user"} => call.auction \in Auctions

In(c, q) == \E i \in 1 .. Len(q) : q[i] = c
Once(q) == \A i, j \in 1 .. Len(q) : q[i] = q[j] => i = j

CallsInv ==
  /\ calls \in [Calls -> CallType] /\ \A c \in Calls : Sound(calls[c])
  /\ replies \in Seq(Calls) /\ Once(replies)
  /\ \A c \in Calls : calls[c].pc \in RedisSteps <=> In(c, replies)

\* A handler that goes on: it waited for the database, or for the first reply.
Ready(c) == calls[c].pc \notin RedisSteps \/ (replies # <<>> /\ Head(replies) = c)

\* What is left of the replies holds each other handler that waits, once.
LEMMA RestIsOnce ==
  ASSUME CallsInv, NEW c \in Calls, Ready(c)
  PROVE  /\ Rest(c) \in Seq(Calls) /\ Once(Rest(c)) /\ ~In(c, Rest(c))
         /\ \A d \in Calls \ {c} : In(d, Rest(c)) <=> In(d, replies)
<1>0. replies \in Seq(Calls) /\ Once(replies)
  BY DEF CallsInv
<1>1. CASE replies # <<>> /\ Head(replies) = c
  <2> DEFINE q == Tail(replies)
  <2>1. /\ Rest(c) = q /\ q \in Seq(Calls) /\ Len(q) = Len(replies) - 1 /\ Len(replies) \in Nat \ {0}
        /\ \A i \in 1 .. Len(q) : q[i] = replies[i + 1]
        /\ replies[1] = c
    BY <1>0, <1>1 DEF Rest
  <2> HIDE DEF q
  <2>2. ~In(c, q)
    <3>1. ASSUME NEW i \in 1 .. Len(q) PROVE q[i] # replies[1]
      <4>1. i + 1 \in 1 .. Len(replies) /\ 1 \in 1 .. Len(replies) /\ i + 1 # 1 /\ q[i] = replies[i + 1]
        BY <2>1, <3>1
      <4> QED
        BY <1>0, <4>1 DEF Once
    <3> QED
      BY <2>1, <3>1 DEF In
  <2>3. Once(q)
    <3>1. ASSUME NEW i \in 1 .. Len(q), NEW j \in 1 .. Len(q), q[i] = q[j]
          PROVE  i = j
      <4>1. /\ i + 1 \in 1 .. Len(replies) /\ j + 1 \in 1 .. Len(replies)
            /\ replies[i + 1] = replies[j + 1]
        BY <2>1, <3>1
      <4>2. i + 1 = j + 1
        BY <1>0, <4>1 DEF Once
      <4> QED
        BY <3>1, <4>2
    <3> QED
      BY <3>1 DEF Once
  <2>4. ASSUME NEW d \in Calls \ {c}, In(d, replies)
        PROVE  In(d, q)
    <3>1. PICK i \in 1 .. Len(replies) : replies[i] = d
      BY <2>4 DEF In
    <3>2. i - 1 \in 1 .. Len(q) /\ q[i - 1] = d
      BY <2>1, <3>1
    <3> QED
      BY <3>2 DEF In
  <2>5. ASSUME NEW d \in Calls \ {c}, In(d, q)
        PROVE  In(d, replies)
    <3>1. PICK i \in 1 .. Len(q) : q[i] = d
      BY <2>5 DEF In
    <3>2. i + 1 \in 1 .. Len(replies) /\ replies[i + 1] = d
      BY <2>1, <3>1
    <3> QED
      BY <3>2 DEF In
  <2> QED
    BY <2>1, <2>2, <2>3, <2>4, <2>5
<1>2. CASE ~(replies # <<>> /\ Head(replies) = c)
  <2>1. Rest(c) = replies /\ calls[c].pc \notin RedisSteps
    BY <1>2 DEF Rest, Ready
  <2>2. ~In(c, replies)
    BY <2>1 DEF CallsInv
  <2> QED
    BY <1>0, <2>1, <2>2
<1> QED
  BY <1>1, <1>2

LEMMA IdleIsSound == Sound(Idle) /\ Idle.pc = "idle"
<1>1. Cardinality(Sockets) \in Nat
  BY RoomAssumption, FS_CardinalityType
<1> QED
  BY <1>1 DEF Sound, Idle, CallType, DbSteps, RedisSteps

\* A handler that no longer waits for Redis leaves the queue.
LEMMA LeavesQueue ==
  ASSUME CallsInv, NEW c \in Calls, Ready(c), NEW call, Sound(call), call.pc \notin RedisSteps,
         calls' = [calls EXCEPT ![c] = call], replies' = Rest(c)
  PROVE  CallsInv'
<1>1. calls' \in [Calls -> CallType] /\ \A d \in Calls : calls'[d] = IF d = c THEN call ELSE calls[d]
  BY DEF CallsInv, Sound
<1>2. replies' \in Seq(Calls) /\ Once(replies')
  BY RestIsOnce
<1>3. ~In(c, replies') /\ \A d \in Calls \ {c} : In(d, replies') <=> In(d, replies)
  BY RestIsOnce
<1>4. \A d \in Calls : Sound(calls'[d])
  BY <1>1 DEF CallsInv
<1>5. \A d \in Calls : calls'[d].pc \in RedisSteps <=> In(d, replies')
  <2>1. \A d \in Calls : calls[d].pc \in RedisSteps <=> In(d, replies)
    BY DEF CallsInv
  <2> QED
    BY <1>1, <1>3, <2>1
<1>6. \A d \in Calls : Sound(calls[d])'
  BY <1>4 DEF Sound
<1> QED
  BY <1>1, <1>2, <1>5, <1>6 DEF CallsInv, Once, In

\* One that asks Redis something is the last in the queue.
LEMMA JoinsQueue ==
  ASSUME CallsInv, NEW c \in Calls, Ready(c), NEW call, Sound(call), call.pc \in RedisSteps,
         Await(c, call)
  PROVE  CallsInv'
<1>1. calls' \in [Calls -> CallType] /\ \A d \in Calls : calls'[d] = IF d = c THEN call ELSE calls[d]
  BY DEF CallsInv, Sound, Await
<1> DEFINE q == Rest(c)
<1>2. /\ q \in Seq(Calls) /\ Once(q) /\ ~In(c, q)
      /\ \A d \in Calls \ {c} : In(d, q) <=> In(d, replies)
  BY RestIsOnce
<1> HIDE DEF q
<1>3. replies' = Append(q, c)
  BY DEF Await, q
<1>4. /\ replies' \in Seq(Calls) /\ Len(replies') = Len(q) + 1 /\ Len(q) \in Nat
      /\ replies'[Len(q) + 1] = c
      /\ \A i \in 1 .. Len(q) : replies'[i] = q[i]
  BY <1>2, <1>3
<1>5. Once(replies')
  BY <1>2, <1>4 DEF Once, In
<1>6. \A d \in Calls \ {c} : In(d, replies') <=> In(d, q)
  BY <1>4 DEF In
<1>7. In(c, replies')
  <2>1. Len(q) + 1 \in 1 .. Len(replies')
    BY <1>4
  <2> QED
    BY <1>4, <2>1 DEF In
<1>8. \A d \in Calls : calls'[d].pc \in RedisSteps <=> In(d, replies')
  <2>1. \A d \in Calls : calls[d].pc \in RedisSteps <=> In(d, replies)
    BY DEF CallsInv
  <2> QED
    BY <1>1, <1>2, <1>6, <1>7, <2>1
<1>9. \A d \in Calls : Sound(calls'[d])
  BY <1>1 DEF CallsInv
<1> QED
  BY <1>1, <1>4, <1>5, <1>8, <1>9 DEF CallsInv, Once, In, Sound

\* A handler that returns.
LEMMA Returns ==
  ASSUME CallsInv, NEW c \in Calls, Ready(c), Return(c)
  PROVE  CallsInv'
<1>1. "idle" \notin RedisSteps
  BY DEF RedisSteps
<1> QED
  BY <1>1, IdleIsSound, LeavesQueue DEF Return

\* One that looks up a user.
LEMMA LooksUp ==
  ASSUME CallsInv, NEW c \in Calls, Ready(c), NEW call, Sound(call), call.pc \in DbSteps,
         AwaitDb(c, call)
  PROVE  CallsInv'
<1>1. call.pc \notin RedisSteps
  BY DEF DbSteps, RedisSteps
<1> QED
  BY <1>1, LeavesQueue DEF AwaitDb

\* One that asks for the number of participants.
LEMMA AsksForCount ==
  ASSUME CallsInv, NEW c \in Calls, Ready(c), NEW call, Sound(call), call.pc \in RedisSteps,
         AsksCount(c, call), failed \in BOOLEAN
  PROVE  CallsInv' /\ failed' \in BOOLEAN
<1>1. PICK n \in 0 .. Cardinality(Sockets) : Reads(Count(call.from), 0, n) /\ Await(c, [call EXCEPT !.count = n])
  BY DEF AsksCount
<1> DEFINE next == [call EXCEPT !.count = n]
<1>2. Sound(next) /\ next.pc = call.pc
  BY DEF Sound, CallType
<1>3. failed' \in BOOLEAN
  BY <1>1 DEF Reads
<1> HIDE DEF next
<1>4. Await(c, next)
  BY <1>1 DEF next
<1> QED
  BY <1>2, <1>3, <1>4, JoinsQueue

\* One that sends two commands.
LEMMA SendsTwo ==
  ASSUME CallsInv, NEW c \in Calls, Ready(c), NEW call, Sound(call), call.pc \in RedisSteps,
         NEW p, NEW k, Writes(c, call, p, k), failed \in BOOLEAN
  PROVE  CallsInv' /\ failed' \in BOOLEAN /\ people' \in {people, p} /\ key' \in {key, k}
<1>1. CASE people' = p /\ key' = k /\ Await(c, call) /\ UNCHANGED failed
  BY <1>1, JoinsQueue
<1>2. CASE /\ failed' = TRUE /\ people' \in {people, p} /\ key' \in {key, k}
           /\ Await(c, [call EXCEPT !.ok = FALSE])
  <2> DEFINE next == [call EXCEPT !.ok = FALSE]
  <2>1. Sound(next) /\ next.pc = call.pc
    BY DEF Sound, CallType
  <2> HIDE DEF next
  <2>2. Await(c, next)
    BY <1>2 DEF next
  <2> QED
    BY <1>2, <2>1, <2>2, JoinsQueue
<1> QED
  BY <1>1, <1>2 DEF Writes

\* One that asks whether an auction is active.
LEMMA AsksWhetherActive ==
  ASSUME CallsInv, NEW c \in Calls, calls[c].pc = "idle", NEW s \in Sockets, NEW a \in Auctions,
         NEW pc \in {"join_active", "rejoin_active"}, AsksActive(c, s, a, pc), failed \in BOOLEAN
  PROVE  CallsInv' /\ failed' \in BOOLEAN
<1>1. PICK v \in BOOLEAN : /\ Reads(status[a] = "active", FALSE, v)
                           /\ Await(c, [Call(pc, s, a) EXCEPT !.ok = v])
  BY DEF AsksActive
<1> DEFINE next == [Call(pc, s, a) EXCEPT !.ok = v]
<1>2. Sound(next) /\ next.pc \in RedisSteps
  BY IdleIsSound DEF Sound, CallType, Call, Idle, RedisSteps, DbSteps
<1>3. failed' \in BOOLEAN
  BY <1>1 DEF Reads
<1> HIDE DEF next
<1>4. Await(c, next)
  BY <1>1 DEF next
<1>5. Ready(c)
  BY DEF Ready, RedisSteps
<1> QED
  BY <1>2, <1>3, <1>4, <1>5, JoinsQueue

-----------------------------------------------------------------------------
(* Types *)

TypeInv == TypeOK /\ \A c \in Calls : Sound(calls[c])

LEMMA TypeGivesCalls == ASSUME TypeInv PROVE CallsInv /\ failed \in BOOLEAN
BY DEF TypeInv, TypeOK, CallsInv, Once, In

\* The record of a disconnect that removes the entries of its socket.
LEMMA RemovingIsSound ==
  ASSUME TypeInv, NEW s \in Sockets, bound[s] # Null
  PROVE  LET next == Call("removing", s, bound[s]) IN Sound(next) /\ next.pc \in RedisSteps
<1>1. bound[s] \in Auctions
  BY DEF TypeInv, TypeOK
<1> QED
  BY <1>1, IdleIsSound DEF Sound, CallType, Call, Idle, RedisSteps, DbSteps

\* A handler that goes on keeps the records of all handlers sound.
LEMMA GoingOnKeepsCalls ==
  ASSUME TypeInv, NEW c \in Calls, Goes(c)
  PROVE  CallsInv' /\ failed' \in BOOLEAN
<1> DEFINE s == calls[c].socket
<1>0. CallsInv /\ failed \in BOOLEAN /\ Sound(calls[c])
  BY TypeGivesCalls DEF TypeInv
<1>a. \A pc \in RedisSteps : Replied(c, pc) =>
        Ready(c) /\ s \in Sockets /\ calls[c].auction \in Auctions /\ calls[c].pc = pc
  BY <1>0 DEF Replied, Ready, Sound, RedisSteps
<1>b. \A pc \in DbSteps : calls[c].pc = pc => Ready(c) /\ s \in Sockets /\ UserOf[s] # Null
  BY <1>0 DEF Ready, Sound, DbSteps, RedisSteps
<1>c. ASSUME NEW pc \in RedisSteps, NEW from \in Auctions \cup {Null},
             s \in Sockets, calls[c].auction \in Auctions
      PROVE  LET next == [calls[c] EXCEPT !.pc = pc, !.from = from] IN Sound(next) /\ next.pc = pc
  BY <1>0, <1>c DEF Sound, CallType, DbSteps, RedisSteps
<1>d. ASSUME NEW pc \in RedisSteps, s \in Sockets, calls[c].auction \in Auctions
      PROVE  LET next == [calls[c] EXCEPT !.pc = pc] IN Sound(next) /\ next.pc = pc
  BY <1>0, <1>d DEF Sound, CallType, DbSteps, RedisSteps
<1>e. ASSUME NEW pc \in RedisSteps, s \in Sockets, calls[c].auction \in Auctions
      PROVE  LET next == [calls[c] EXCEPT !.pc = pc, !.ok = TRUE] IN Sound(next) /\ next.pc = pc
  BY <1>0, <1>e DEF Sound, CallType, DbSteps, RedisSteps
<1>1. ASSUME NotActive(c)
      PROVE  CallsInv' /\ failed' \in BOOLEAN
  BY <1>0, <1>1, <1>a, Returns DEF NotActive, RedisSteps, history
<1>2. ASSUME JoinLeavesPrevious(c)
      PROVE  CallsInv' /\ failed' \in BOOLEAN
  <2> DEFINE call(pc) == [calls[c] EXCEPT !.pc = pc, !.from = bound[s]]
             next(pc) == [[calls[c] EXCEPT !.from = bound[s]] EXCEPT !.pc = pc]
  <2>1. /\ Ready(c) /\ s \in Sockets /\ calls[c].auction \in Auctions
        /\ bound[s] \in Auctions \cup {Null}
    BY <1>2, <1>a DEF JoinLeavesPrevious, RedisSteps, TypeInv, TypeOK
  <2>2. \A pc \in RedisSteps : next(pc) = call(pc)
    BY <1>0 DEF Sound, CallType
  <2>3. \A pc \in RedisSteps : Sound(next(pc)) /\ next(pc).pc = pc
    BY <1>c, <2>1, <2>2
  <2>4. CASE Removes(c, next("join_removing"), s, bound[s])
    BY <1>0, <2>1, <2>3, <2>4, SendsTwo DEF Removes, RedisSteps
  <2>5. CASE AsksCount(c, next("join_counting"))
    BY <1>0, <2>1, <2>3, <2>5, AsksForCount DEF RedisSteps
  <2> QED
    BY <1>2, <2>4, <2>5 DEF JoinLeavesPrevious
<1>3. ASSUME JoinCountsPrevious(c)
      PROVE  CallsInv' /\ failed' \in BOOLEAN
  <2> DEFINE next == [calls[c] EXCEPT !.pc = "join_counting"]
  <2>1. Ready(c) /\ Sound(next) /\ next.pc \in RedisSteps
    BY <1>3, <1>a, <1>d DEF JoinCountsPrevious, RedisSteps
  <2> HIDE DEF next
  <2>2. AsksCount(c, next)
    BY <1>3 DEF JoinCountsPrevious, next
  <2> QED
    BY <1>0, <2>1, <2>2, AsksForCount
<1>4. ASSUME JoinEnters(c)
      PROVE  CallsInv' /\ failed' \in BOOLEAN
  <2> DEFINE next == [calls[c] EXCEPT !.pc = "entering"]
  <2>1. Ready(c) /\ Sound(next) /\ next.pc \in RedisSteps
    BY <1>4, <1>a, <1>d DEF JoinEnters, RedisSteps
  <2> HIDE DEF next
  <2>2. CASE JoinsAsUser(c, "entering")
    <3>1. Writes(c, next, [people EXCEPT ![calls[c].auction] = @ \cup {s}], [key EXCEPT ![s] = calls[c].auction])
      BY <2>2 DEF JoinsAsUser, Adds, next
    <3> QED
      BY <1>0, <2>1, <3>1, SendsTwo
  <2>3. CASE Return(c) /\ UNCHANGED failed
    BY <1>0, <2>1, <2>3, Returns
  <2> QED
    BY <1>4, <2>2, <2>3 DEF JoinEnters
<1>5. ASSUME Announces(c)
      PROVE  CallsInv' /\ failed' \in BOOLEAN
  <2> DEFINE next == [calls[c] EXCEPT !.pc = "counting", !.from = calls[c].auction]
  <2>1. Ready(c) /\ Sound(next) /\ next.pc \in RedisSteps
    BY <1>5, <1>a, <1>c DEF Announces, RedisSteps
  <2> HIDE DEF next
  <2>2. AsksCount(c, next)
    BY <1>5 DEF Announces, next
  <2> QED
    BY <1>0, <2>1, <2>2, AsksForCount
<1>6. ASSUME Ends(c)
      PROVE  CallsInv' /\ failed' \in BOOLEAN
  BY <1>0, <1>6, <1>a, Returns DEF Ends, RedisSteps, history
<1>7. ASSUME PresenceUpdate(c)
      PROVE  CallsInv' /\ failed' \in BOOLEAN
  BY <1>0, <1>7, <1>a, Returns DEF PresenceUpdate, RedisSteps, history
<1>8. ASSUME RejoinLooksUp(c)
      PROVE  CallsInv' /\ failed' \in BOOLEAN
  <2> DEFINE next == [calls[c] EXCEPT !.pc = "rejoin_user", !.ok = s \notin revoked]
  <2>1. Ready(c) /\ s \in Sockets /\ calls[c].auction \in Auctions /\ UserOf[s] # Null
    BY <1>8, <1>a DEF RejoinLooksUp, RedisSteps
  <2>2. Sound(next) /\ next.pc \in DbSteps
    BY <1>0, <2>1 DEF Sound, CallType, DbSteps, RedisSteps
  <2> HIDE DEF next
  <2>3. AwaitDb(c, next) /\ UNCHANGED failed
    BY <1>8 DEF RejoinLooksUp, next, history
  <2> QED
    BY <1>0, <2>1, <2>2, <2>3, LooksUp
<1>9. ASSUME RejoinsAsUser(c)
      PROVE  CallsInv' /\ failed' \in BOOLEAN
  <2> DEFINE next == [calls[c] EXCEPT !.pc = "rejoining", !.ok = TRUE]
  <2>1. Ready(c) /\ s \in Sockets /\ calls[c].auction \in Auctions
    BY <1>0, <1>9, <1>b DEF RejoinsAsUser, DbSteps, Sound
  <2>2. Sound(next) /\ next.pc \in RedisSteps
    BY <1>e, <2>1 DEF RedisSteps
  <2> HIDE DEF next
  <2>3. Writes(c, next, [people EXCEPT ![calls[c].auction] = @ \cup {s}], [key EXCEPT ![s] = calls[c].auction])
    BY <1>9 DEF RejoinsAsUser, Adds, next
  <2> QED
    BY <1>0, <2>1, <2>2, <2>3, SendsTwo
<1>10. ASSUME RejoinsAsGuest(c)
      PROVE  CallsInv' /\ failed' \in BOOLEAN
  <2> DEFINE next == [calls[c] EXCEPT !.pc = "rejoin_reading", !.ok = TRUE]
  <2>1. Ready(c) /\ s \in Sockets /\ calls[c].auction \in Auctions
    <3>1. CASE Replied(c, "rejoin_active")
      BY <1>a, <3>1 DEF RedisSteps
    <3>2. CASE calls[c].pc = "rejoin_user"
      BY <1>0, <1>b, <3>2 DEF DbSteps, Sound
    <3> QED
      BY <1>10, <3>1, <3>2 DEF RejoinsAsGuest
  <2>2. Sound(next) /\ next.pc \in RedisSteps
    BY <1>e, <2>1 DEF RedisSteps
  <2> HIDE DEF next
  <2>3. Await(c, next) /\ UNCHANGED failed
    BY <1>10 DEF RejoinsAsGuest, next
  <2> QED
    BY <1>0, <2>1, <2>2, <2>3, JoinsQueue
<1>11. ASSUME RejoinReads(c)
      PROVE  CallsInv' /\ failed' \in BOOLEAN
  <2> DEFINE next == [calls[c] EXCEPT !.pc = "rejoin_reading"]
  <2>1. Ready(c) /\ Sound(next) /\ next.pc \in RedisSteps
    BY <1>11, <1>a, <1>d DEF RejoinReads, RedisSteps
  <2> HIDE DEF next
  <2>2. Await(c, next) /\ UNCHANGED failed
    BY <1>11 DEF RejoinReads, next, history
  <2> QED
    BY <1>0, <2>1, <2>2, JoinsQueue
<1>12. ASSUME StateSent(c) \/ BidChecked(c)
      PROVE  CallsInv' /\ failed' \in BOOLEAN
  BY <1>0, <1>12, <1>a, Returns DEF StateSent, BidChecked, RedisSteps, history
<1>13. ASSUME GuardAdmits(c)
      PROVE  CallsInv' /\ failed' \in BOOLEAN
  <2> DEFINE next == [calls[c] EXCEPT !.pc = "bid_user", !.ok = s \notin revoked]
  <2>1. Ready(c) /\ s \in Sockets /\ UserOf[s] # Null
    BY <1>13, <1>b DEF GuardAdmits, DbSteps
  <2>2. Sound(next) /\ next.pc \in DbSteps
    BY <1>0, <2>1 DEF Sound, CallType, DbSteps, RedisSteps
  <2> HIDE DEF next
  <2>3. AwaitDb(c, next) /\ UNCHANGED failed
    BY <1>13 DEF GuardAdmits, next
  <2> QED
    BY <1>0, <2>1, <2>2, <2>3, LooksUp
<1>14. ASSUME GuardRefuses(c) \/ RevalidationFails(c)
      PROVE  CallsInv' /\ failed' \in BOOLEAN
  BY <1>0, <1>14, <1>b, Returns DEF GuardRefuses, RevalidationFails, DbSteps
<1>15. ASSUME RevalidationThrows(c)
      PROVE  CallsInv' /\ failed' \in BOOLEAN
  <2>1. Ready(c) /\ s \in Sockets
    BY <1>15, <1>b DEF RevalidationThrows, DbSteps
  <2>2. CASE Return(c) /\ UNCHANGED failed
    BY <1>0, <2>1, <2>2, Returns
  <2>3. CASE bound[s] # Null /\ Removes(c, Call("removing", s, bound[s]), s, bound[s])
    BY <1>0, <2>1, <2>3, RemovingIsSound, SendsTwo DEF Removes
  <2> QED
    BY <1>15, <2>2, <2>3 DEF RevalidationThrows, Leaves, redis
<1>16. ASSUME BidReadsKey(c)
      PROVE  CallsInv' /\ failed' \in BOOLEAN
  <2>1. Ready(c) /\ s \in Sockets
    BY <1>16, <1>b DEF BidReadsKey, DbSteps
  <2>2. CASE Return(c) /\ UNCHANGED failed
    BY <1>0, <2>1, <2>2, Returns
  <2>3. ASSUME bound[s] # Null, NEW v \in BOOLEAN, Reads(key[s] = bound[s], FALSE, v),
               Await(c, [calls[c] EXCEPT !.pc = "bid_key", !.ok = v, !.auction = bound[s]])
        PROVE  CallsInv' /\ failed' \in BOOLEAN
    <3> DEFINE next == [calls[c] EXCEPT !.pc = "bid_key", !.ok = v, !.auction = bound[s]]
    <3>1. bound[s] \in Auctions
      BY <2>1, <2>3 DEF TypeInv, TypeOK
    <3>2. Sound(next) /\ next.pc \in RedisSteps
      BY <1>0, <2>1, <3>1 DEF Sound, CallType, DbSteps, RedisSteps
    <3>3. failed' \in BOOLEAN
      BY <1>0, <2>3 DEF Reads
    <3> HIDE DEF next
    <3>4. Await(c, next)
      BY <2>3 DEF next
    <3> QED
      BY <1>0, <2>1, <3>2, <3>3, <3>4, JoinsQueue
  <2> QED
    BY <1>16, <2>2, <2>3 DEF BidReadsKey
<1> QED
  BY <1>1, <1>2, <1>3, <1>4, <1>5, <1>6, <1>7, <1>8, <1>9, <1>10, <1>11, <1>12, <1>13, <1>14,
     <1>15, <1>16 DEF Goes

\* So does an event of a socket.
LEMMA SendingKeepsCalls ==
  ASSUME TypeInv, NEW c \in Calls, NEW s \in Sockets, Sends(c, s)
  PROVE  CallsInv' /\ failed' \in BOOLEAN
<1>0. CallsInv /\ failed \in BOOLEAN /\ Sound(calls[c])
  BY TypeGivesCalls DEF TypeInv
<1>a. calls[c].pc = "idle" => Ready(c)
  BY DEF Ready, RedisSteps
<1>1. ASSUME NEW a \in Auctions, JoinAsks(c, s, a) \/ RejoinAsks(c, s, a)
      PROVE  CallsInv' /\ failed' \in BOOLEAN
  <2>1. calls[c].pc = "idle"
    BY <1>1 DEF JoinAsks, RejoinAsks, Event
  <2>2. CASE AsksActive(c, s, a, "join_active")
    BY <1>0, <2>1, <2>2, AsksWhetherActive
  <2>3. CASE AsksActive(c, s, a, "rejoin_active")
    BY <1>0, <2>1, <2>3, AsksWhetherActive
  <2> QED
    BY <1>1, <2>2, <2>3 DEF JoinAsks, RejoinAsks
<1>2. ASSUME NEW a \in Auctions, LeaveRoom(c, s, a)
      PROVE  CallsInv' /\ failed' \in BOOLEAN
  <2>1. CASE Removes(c, Call("leaving", s, a), s, a)
    <3> DEFINE next == Call("leaving", s, a)
    <3>1. Sound(next) /\ next.pc \in RedisSteps
      BY IdleIsSound DEF Sound, CallType, Call, Idle, RedisSteps, DbSteps
    <3>2. Ready(c)
      BY <1>2, <1>a DEF LeaveRoom, Event
    <3> HIDE DEF next
    <3>3. Writes(c, next, [people EXCEPT ![a] = @ \ {s}], [key EXCEPT ![s] = Null])
      BY <2>1 DEF Removes, next
    <3> QED
      BY <1>0, <3>1, <3>2, <3>3, SendsTwo
  <2>2. CASE UNCHANGED <<redis, calls, replies, failed>>
    BY <1>0, <2>2 DEF CallsInv, Once, In, Sound
  <2> QED
    BY <1>2, <2>1, <2>2 DEF LeaveRoom
<1>3. ASSUME StateAsked(c, s)
      PROVE  CallsInv' /\ failed' \in BOOLEAN
  <2> DEFINE next == Call("state_reading", s, bound[s])
  <2>1. bound[s] \in Auctions /\ Ready(c)
    BY <1>3, <1>a DEF StateAsked, Event, TypeInv, TypeOK
  <2>2. Sound(next) /\ next.pc \in RedisSteps
    BY <2>1, IdleIsSound DEF Sound, CallType, Call, Idle, RedisSteps, DbSteps
  <2> HIDE DEF next
  <2>3. Await(c, next) /\ UNCHANGED failed
    BY <1>3 DEF StateAsked, next, history
  <2> QED
    BY <1>0, <2>1, <2>2, <2>3, JoinsQueue
<1>4. ASSUME BidLooksUp(c, s)
      PROVE  CallsInv' /\ failed' \in BOOLEAN
  <2> DEFINE next == [Call(IF s \in known THEN "bid_user" ELSE "bid_guard", s, Null)
                       EXCEPT !.ok = s \notin revoked]
  <2>1. Ready(c) /\ UserOf[s] # Null
    BY <1>4, <1>a DEF BidLooksUp, Event
  <2>2. Sound(next) /\ next.pc \in DbSteps
    BY <2>1, IdleIsSound DEF Sound, CallType, Call, Idle, RedisSteps, DbSteps
  <2> HIDE DEF next
  <2>3. AwaitDb(c, next) /\ UNCHANGED failed
    BY <1>4 DEF BidLooksUp, next, history
  <2> QED
    BY <1>0, <2>1, <2>2, <2>3, LooksUp
<1>5. ASSUME Disconnect(c, s)
      PROVE  CallsInv' /\ failed' \in BOOLEAN
  <2>1. Ready(c)
    BY <1>5, <1>a DEF Disconnect
  <2>2. CASE Return(c) /\ UNCHANGED failed
    BY <1>0, <2>1, <2>2, Returns
  <2>3. CASE bound[s] # Null /\ Removes(c, Call("removing", s, bound[s]), s, bound[s])
    BY <1>0, <2>1, <2>3, RemovingIsSound, SendsTwo DEF Removes
  <2> QED
    BY <1>5, <2>2, <2>3 DEF Disconnect, Leaves
<1> QED
  BY <1>1, <1>2, <1>3, <1>4, <1>5 DEF Sends

\* The other steps touch no handler.
LEMMA OthersKeepCalls ==
  ASSUME TypeInv, UNCHANGED <<calls, replies, failed>>
  PROVE  CallsInv' /\ failed' \in BOOLEAN
BY TypeGivesCalls DEF CallsInv, Once, In, Sound

\* The types of what sockets, Redis and the clients have.
StateTypes ==
  /\ link \in [Sockets -> {"off", "open", "closed"}]
  /\ pending \subseteq Sockets /\ known \subseteq Sockets /\ personal \subseteq Sockets
  /\ revoked \subseteq Sockets /\ lapsed \subseteq Sockets /\ odd \subseteq Sockets
  /\ bound \in [Sockets -> Auctions \cup {Null}] /\ key \in [Sockets -> Auctions \cup {Null}]
  /\ rooms \in [Auctions -> SUBSET Sockets] /\ people \in [Auctions -> SUBSET Sockets]
  /\ status \in [Auctions -> {"active", "expired", "cleaned"}]
  /\ shown \in [Auctions -> 0 .. Cardinality(Sockets)]
  /\ events \in 0 .. MaxEvents /\ misread \in BOOLEAN

LEMMA TypesTogether ==
  ASSUME StateTypes, CallsInv, failed \in BOOLEAN
  PROVE  TypeInv
BY DEF TypeInv, TypeOK, StateTypes, CallsInv, Once, In

LEMMA TypesTogetherNext ==
  ASSUME StateTypes', CallsInv', failed' \in BOOLEAN
  PROVE  TypeInv'
BY DEF TypeInv, TypeOK, StateTypes, CallsInv, Once, In, Sound

\* What two commands leave in Redis.
LEMMA RemovesIsTyped ==
  ASSUME StateTypes, NEW c, NEW call, NEW s \in Sockets, NEW a \in Auctions, Removes(c, call, s, a)
  PROVE  people' \in [Auctions -> SUBSET Sockets] /\ key' \in [Sockets -> Auctions \cup {Null}]
BY DEF StateTypes, Removes, Writes

LEMMA AddsIsTyped ==
  ASSUME StateTypes, NEW c, NEW call, NEW s \in Sockets, NEW a \in Auctions, Adds(c, call, s, a)
  PROVE  people' \in [Auctions -> SUBSET Sockets] /\ key' \in [Sockets -> Auctions \cup {Null}]
BY DEF StateTypes, Adds, Writes

LEMMA EntersIsTyped ==
  ASSUME StateTypes, NEW c, NEW isUser, calls[c].socket \in Sockets, calls[c].auction \in Auctions,
         Enters(c, isUser)
  PROVE  /\ rooms' \in [Auctions -> SUBSET Sockets] /\ bound' \in [Sockets -> Auctions \cup {Null}]
         /\ odd' \subseteq Sockets
BY DEF StateTypes, Enters

LEMMA ClosesIsTyped ==
  ASSUME StateTypes, NEW s \in Sockets, Closes(s)
  PROVE  /\ link' \in [Sockets -> {"off", "open", "closed"}]
         /\ rooms' \in [Auctions -> SUBSET Sockets] /\ personal' \subseteq Sockets
BY DEF StateTypes, Closes

LEMMA LeavesIsTyped ==
  ASSUME StateTypes, NEW c, NEW s \in Sockets, NEW isUser, Leaves(c, s, isUser)
  PROVE  people' \in [Auctions -> SUBSET Sockets] /\ key' \in [Sockets -> Auctions \cup {Null}]
<1>1. CASE UNCHANGED redis
  BY <1>1 DEF StateTypes, redis
<1>2. CASE bound[s] # Null /\ Removes(c, Call("removing", s, bound[s]), s, bound[s])
  <2>1. bound[s] \in Auctions
    BY <1>2 DEF StateTypes
  <2> QED
    BY <1>2, <2>1, RemovesIsTyped
<1> QED
  BY <1>1, <1>2 DEF Leaves

\* Who is in the middle of what, for the steps of handlers.
LEMMA WhoseStep ==
  ASSUME TypeInv, NEW c \in Calls
  PROVE  /\ calls[c].pc # "idle" => calls[c].socket \in Sockets
         /\ calls[c].pc \in RedisSteps \cup {"rejoin_user"} => calls[c].auction \in Auctions
         /\ calls[c].from \in Auctions \cup {Null} /\ calls[c].count \in 0 .. Cardinality(Sockets)
         /\ calls[c].pc \in DbSteps => UserOf[calls[c].socket] # Null
BY DEF TypeInv, Sound, CallType

LEMMA GoingOnIsTyped ==
  ASSUME TypeInv, NEW c \in Calls, Goes(c)
  PROVE  StateTypes'
<1> DEFINE s == calls[c].socket
<1>0. StateTypes /\ calls[c].from \in Auctions \cup {Null} /\ calls[c].count \in 0 .. Cardinality(Sockets)
  BY WhoseStep DEF TypeInv, TypeOK, StateTypes
<1>a. \A pc \in RedisSteps : Replied(c, pc) => s \in Sockets /\ calls[c].auction \in Auctions
  BY WhoseStep DEF Replied, RedisSteps
<1>b. \A pc \in DbSteps : calls[c].pc = pc => s \in Sockets
  BY WhoseStep DEF DbSteps
<1>1. CASE \/ NotActive(c) \/ JoinCountsPrevious(c) \/ Announces(c) \/ Ends(c) \/ PresenceUpdate(c)
           \/ RejoinLooksUp(c) \/ RejoinReads(c) \/ StateSent(c) \/ BidChecked(c)
  BY <1>0, <1>1 DEF StateTypes, NotActive, JoinCountsPrevious, Announces, Ends, PresenceUpdate,
     RejoinLooksUp, RejoinReads, StateSent, BidChecked, local, redis, history
<1>2. CASE JoinLeavesPrevious(c)
  <2>1. s \in Sockets /\ bound[s] \in Auctions
    BY <1>0, <1>2, <1>a DEF JoinLeavesPrevious, RedisSteps, StateTypes
  <2>2. rooms' \in [Auctions -> SUBSET Sockets]
    BY <1>0, <1>2, <2>1 DEF JoinLeavesPrevious, StateTypes
  <2>3. people' \in [Auctions -> SUBSET Sockets] /\ key' \in [Sockets -> Auctions \cup {Null}]
    BY <1>0, <1>2, <2>1, RemovesIsTyped DEF JoinLeavesPrevious, StateTypes, redis
  <2> QED
    BY <1>0, <1>2, <2>2, <2>3 DEF JoinLeavesPrevious, StateTypes
<1>3. CASE JoinEnters(c)
  <2>1. s \in Sockets /\ calls[c].auction \in Auctions
    BY <1>3, <1>a DEF JoinEnters, RedisSteps
  <2>2. /\ rooms' \in [Auctions -> SUBSET Sockets] /\ bound' \in [Sockets -> Auctions \cup {Null}]
        /\ odd' \subseteq Sockets
    BY <1>0, <1>3, <2>1, EntersIsTyped DEF JoinEnters, JoinsAsUser
  <2>3. people' \in [Auctions -> SUBSET Sockets] /\ key' \in [Sockets -> Auctions \cup {Null}]
    BY <1>0, <1>3, <2>1, AddsIsTyped DEF JoinEnters, JoinsAsUser, StateTypes, redis
  <2>4. shown' \in [Auctions -> 0 .. Cardinality(Sockets)]
    BY <1>0, <1>3 DEF JoinEnters, StateTypes
  <2> QED
    BY <1>0, <1>3, <2>2, <2>3, <2>4 DEF JoinEnters, StateTypes
<1>4. CASE RejoinsAsUser(c)
  <2>1. s \in Sockets /\ calls[c].auction \in Auctions
    BY <1>4, WhoseStep DEF RejoinsAsUser
  <2>2. /\ rooms' \in [Auctions -> SUBSET Sockets] /\ bound' \in [Sockets -> Auctions \cup {Null}]
        /\ odd' \subseteq Sockets
    BY <1>0, <1>4, <2>1, EntersIsTyped DEF RejoinsAsUser
  <2>3. people' \in [Auctions -> SUBSET Sockets] /\ key' \in [Sockets -> Auctions \cup {Null}]
    BY <1>0, <1>4, <2>1, AddsIsTyped DEF RejoinsAsUser
  <2> QED
    BY <1>0, <1>4, <2>1, <2>2, <2>3 DEF RejoinsAsUser, StateTypes
<1>5. CASE RejoinsAsGuest(c)
  <2>1. s \in Sockets /\ calls[c].auction \in Auctions
    BY <1>5, <1>a, WhoseStep DEF RejoinsAsGuest, RedisSteps
  <2>2. /\ rooms' \in [Auctions -> SUBSET Sockets] /\ bound' \in [Sockets -> Auctions \cup {Null}]
        /\ odd' \subseteq Sockets
    BY <1>0, <1>5, <2>1, EntersIsTyped DEF RejoinsAsGuest
  <2> QED
    BY <1>0, <1>5, <2>1, <2>2 DEF RejoinsAsGuest, LosesUser, LookUpThrows, StateTypes, redis
<1>6. CASE GuardAdmits(c) \/ GuardRefuses(c) \/ BidReadsKey(c)
  BY <1>0, <1>6, <1>b DEF GuardAdmits, GuardRefuses, BidReadsKey, DbSteps, LookUpThrows, StateTypes,
     local, redis
<1>7. CASE RevalidationFails(c)
  <2>1. s \in Sockets
    BY <1>7, <1>b DEF RevalidationFails, DbSteps
  <2>2. /\ link' \in [Sockets -> {"off", "open", "closed"}]
        /\ rooms' \in [Auctions -> SUBSET Sockets] /\ personal' \subseteq Sockets
    BY <1>0, <1>7, <2>1, ClosesIsTyped DEF RevalidationFails, StateTypes
  <2> QED
    BY <1>0, <1>7, <2>1, <2>2 DEF RevalidationFails, LosesUser, StateTypes, redis
<1>8. CASE RevalidationThrows(c)
  <2>1. s \in Sockets
    BY <1>8, <1>b DEF RevalidationThrows, DbSteps
  <2>2. /\ link' \in [Sockets -> {"off", "open", "closed"}]
        /\ rooms' \in [Auctions -> SUBSET Sockets] /\ personal' \subseteq Sockets
    BY <1>0, <1>8, <2>1, ClosesIsTyped DEF RevalidationThrows, StateTypes
  <2>3. people' \in [Auctions -> SUBSET Sockets] /\ key' \in [Sockets -> Auctions \cup {Null}]
    BY <1>0, <1>8, <2>1, LeavesIsTyped DEF RevalidationThrows, StateTypes, redis
  <2>4. misread' \in BOOLEAN
    BY <1>0, <1>8 DEF RevalidationThrows, StateTypes, LookUpThrows
  <2> QED
    BY <1>0, <1>8, <2>1, <2>2, <2>3, <2>4 DEF RevalidationThrows, StateTypes
<1> QED
  BY <1>1, <1>2, <1>3, <1>4, <1>5, <1>6, <1>7, <1>8 DEF Goes

LEMMA SendingIsTyped ==
  ASSUME TypeInv, NEW c \in Calls, NEW s \in Sockets, Sends(c, s)
  PROVE  StateTypes'
<1>0. StateTypes
  BY DEF TypeInv, TypeOK, StateTypes
<1>e. Counted => events' \in 0 .. MaxEvents
  BY <1>0, RoomAssumption DEF Counted, StateTypes
<1>1. CASE (\E a \in Auctions : JoinAsks(c, s, a) \/ RejoinAsks(c, s, a)) \/ StateAsked(c, s) \/ BidLooksUp(c, s)
  BY <1>0, <1>1, <1>e DEF JoinAsks, RejoinAsks, StateAsked, BidLooksUp, Event, StateTypes, local, redis, history
<1>2. CASE \E a \in Auctions : LeaveRoom(c, s, a)
  <2>1. PICK a \in Auctions : LeaveRoom(c, s, a)
    BY <1>2
  <2>2. people' \in [Auctions -> SUBSET Sockets] /\ key' \in [Sockets -> Auctions \cup {Null}]
    BY <1>0, <2>1, RemovesIsTyped DEF LeaveRoom, StateTypes, redis
  <2>3. rooms' \in [Auctions -> SUBSET Sockets] /\ bound' \in [Sockets -> Auctions \cup {Null}] /\ odd' \subseteq Sockets
    BY <1>0, <2>1 DEF LeaveRoom, StateTypes
  <2> QED
    BY <1>0, <1>e, <2>1, <2>2, <2>3 DEF LeaveRoom, StateTypes, Event
<1>3. CASE Disconnect(c, s)
  <2>1. /\ link' \in [Sockets -> {"off", "open", "closed"}]
        /\ rooms' \in [Auctions -> SUBSET Sockets] /\ personal' \subseteq Sockets
    BY <1>0, <1>3, ClosesIsTyped DEF Disconnect
  <2>2. people' \in [Auctions -> SUBSET Sockets] /\ key' \in [Sockets -> Auctions \cup {Null}]
    BY <1>0, <1>3, LeavesIsTyped DEF Disconnect
  <2> QED
    BY <1>0, <1>3, <2>1, <2>2 DEF Disconnect, StateTypes
<1> QED
  BY <1>1, <1>2, <1>3 DEF Sends

\* The steps that are nobody's handler.
Elsewhere ==
  \/ \E s \in Sockets : Connect(s) \/ Identify(s) \/ ConnectAsGuest(s) \/ Revoke(s) \/ KeyExpires(s)
  \/ \E a \in Auctions : AuctionExpires(a) \/ CleanupAuction(a)

LEMMA ElsewhereIsTyped ==
  ASSUME TypeInv, Elsewhere
  PROVE  StateTypes' /\ UNCHANGED <<calls, replies, failed>>
<1>0. StateTypes
  BY DEF TypeInv, TypeOK, StateTypes
<1>e. Counted => events' \in 0 .. MaxEvents
  BY <1>0, RoomAssumption DEF Counted, StateTypes
<1>1. ASSUME NEW s \in Sockets, Connect(s) \/ Identify(s) \/ ConnectAsGuest(s)
      PROVE  StateTypes' /\ UNCHANGED <<calls, replies, failed>>
  BY <1>0, <1>1 DEF Connect, Identify, ConnectAsGuest, LosesUser, LookUpThrows, StateTypes, local,
     redis, history
<1>2. ASSUME NEW s \in Sockets, Revoke(s) \/ KeyExpires(s)
      PROVE  StateTypes' /\ UNCHANGED <<calls, replies, failed>>
  BY <1>0, <1>e, <1>2 DEF Revoke, KeyExpires, StateTypes, local, redis, history
<1>3. ASSUME NEW a \in Auctions, AuctionExpires(a) \/ CleanupAuction(a)
      PROVE  StateTypes' /\ UNCHANGED <<calls, replies, failed>>
  BY <1>0, <1>e, <1>3 DEF AuctionExpires, CleanupAuction, StateTypes, local, redis, history
<1> QED
  BY <1>1, <1>2, <1>3 DEF Elsewhere

LEMMA InitIsTyped == ASSUME Init PROVE TypeInv
<1>0. Cardinality(Sockets) \in Nat
  BY RoomAssumption, FS_CardinalityType
<1>1. StateTypes
  <2>1. /\ link \in [Sockets -> {"off", "open", "closed"}]
        /\ bound \in [Sockets -> Auctions \cup {Null}] /\ key \in [Sockets -> Auctions \cup {Null}]
    BY DEF Init
  <2>2. rooms \in [Auctions -> SUBSET Sockets] /\ people \in [Auctions -> SUBSET Sockets]
    BY DEF Init
  <2>3. /\ status \in [Auctions -> {"active", "expired", "cleaned"}]
        /\ shown \in [Auctions -> 0 .. Cardinality(Sockets)] /\ events \in 0 .. MaxEvents
    BY <1>0, RoomAssumption DEF Init
  <2>4. /\ pending = {} /\ known = {} /\ personal = {} /\ revoked = {} /\ lapsed = {} /\ odd = {}
        /\ misread = FALSE
    BY DEF Init
  <2> QED
    BY <2>1, <2>2, <2>3, <2>4 DEF StateTypes
<1>2. /\ calls = [c \in Calls |-> Idle] /\ replies = <<>> /\ failed = FALSE
  BY DEF Init
<1>3. replies \in Seq(Calls) /\ Len(replies) = 0
  BY <1>2
<1>4. Once(replies) /\ \A c \in Calls : ~In(c, replies)
  BY <1>3 DEF Once, In
<1>5. \A c \in Calls : Sound(calls[c]) /\ calls[c].pc \notin RedisSteps
  BY <1>2, IdleIsSound DEF RedisSteps
<1>6. calls \in [Calls -> CallType]
  BY <1>2, IdleIsSound DEF Sound
<1>7. CallsInv
  BY <1>3, <1>4, <1>5, <1>6 DEF CallsInv
<1> QED
  BY <1>1, <1>2, <1>7, TypesTogether

LEMMA TypeStep == ASSUME TypeInv, [Next]_vars PROVE TypeInv'
<1>1. ASSUME NEW c \in Calls, Goes(c)
      PROVE  TypeInv'
  <2>1. StateTypes' /\ CallsInv' /\ failed' \in BOOLEAN
    BY <1>1, GoingOnIsTyped, GoingOnKeepsCalls
  <2> QED
    BY <2>1, TypesTogetherNext
<1>2. ASSUME NEW c \in Calls, NEW s \in Sockets, Sends(c, s)
      PROVE  TypeInv'
  <2>1. StateTypes' /\ CallsInv' /\ failed' \in BOOLEAN
    BY <1>2, SendingIsTyped, SendingKeepsCalls
  <2> QED
    BY <2>1, TypesTogetherNext
<1>3. ASSUME Elsewhere
      PROVE  TypeInv'
  <2>1. StateTypes' /\ CallsInv' /\ failed' \in BOOLEAN
    BY <1>3, ElsewhereIsTyped, OthersKeepCalls
  <2> QED
    BY <2>1, TypesTogetherNext
<1>4. CASE UNCHANGED vars
  <2>1. StateTypes' /\ UNCHANGED <<calls, replies, failed>>
    BY <1>4 DEF vars, TypeInv, TypeOK, StateTypes, local, redis, history
  <2> QED
    BY <2>1, OthersKeepCalls, TypesTogetherNext
<1> QED
  BY <1>1, <1>2, <1>3, <1>4 DEF Next, Elsewhere

\* Sockets, rooms and Redis have their types, and every handler that waits for
\* Redis has exactly one reply to come, whatever overlaps.
THEOREM TypeCorrect == Spec => []TypeOK
<1>1. Init => TypeInv
  BY InitIsTyped
<1>2. TypeInv /\ [Next]_vars => TypeInv'
  BY TypeStep
<1>3. TypeInv => TypeOK
  BY DEF TypeInv
<1> QED
  BY <1>1, <1>2, <1>3, PTL DEF Spec

-----------------------------------------------------------------------------
(* The participants of an auction *)

LEMMA RemovingKeepsCount ==
  ASSUME StateTypes, BoundSocketsAreCounted, UNCHANGED status,
         NEW c, NEW call, NEW s \in Sockets, NEW a \in Auctions, Removes(c, call, s, a)
  PROVE  BoundSocketsAreCounted'
BY RoomAssumption DEF StateTypes, BoundSocketsAreCounted, Removes, Writes

LEMMA AddingKeepsCount ==
  ASSUME StateTypes, BoundSocketsAreCounted, UNCHANGED status,
         NEW c, NEW call, NEW s \in Sockets, NEW a \in Auctions, Adds(c, call, s, a)
  PROVE  BoundSocketsAreCounted'
BY RoomAssumption DEF StateTypes, BoundSocketsAreCounted, Adds, Writes

LEMMA LeavingKeepsCount ==
  ASSUME StateTypes, BoundSocketsAreCounted, UNCHANGED status,
         NEW c, NEW s \in Sockets, NEW isUser, Leaves(c, s, isUser)
  PROVE  BoundSocketsAreCounted'
<1>1. CASE UNCHANGED redis /\ UNCHANGED failed
  BY <1>1 DEF BoundSocketsAreCounted, redis
<1>2. CASE bound[s] # Null /\ Removes(c, Call("removing", s, bound[s]), s, bound[s])
  <2>1. bound[s] \in Auctions
    BY <1>2 DEF StateTypes
  <2> QED
    BY <1>2, <2>1, RemovingKeepsCount
<1> QED
  BY <1>1, <1>2 DEF Leaves

LEMMA OthersKeepCount ==
  ASSUME BoundSocketsAreCounted, UNCHANGED <<redis, status>>, failed => failed'
  PROVE  BoundSocketsAreCounted'
BY DEF BoundSocketsAreCounted, redis

LEMMA CountStep ==
  ASSUME TypeInv, BoundSocketsAreCounted, [Next]_vars
  PROVE  BoundSocketsAreCounted'
<1>0. StateTypes
  BY DEF TypeInv, TypeOK, StateTypes
<1>1. ASSUME NEW c \in Calls, Goes(c)
      PROVE  BoundSocketsAreCounted'
  <2> DEFINE s == calls[c].socket
  <2>a. \A pc \in RedisSteps : Replied(c, pc) => s \in Sockets /\ calls[c].auction \in Auctions
    BY WhoseStep DEF Replied, RedisSteps
  <2>1. CASE \/ NotActive(c) \/ JoinCountsPrevious(c) \/ Announces(c) \/ Ends(c) \/ PresenceUpdate(c)
             \/ RejoinLooksUp(c) \/ RejoinsAsGuest(c) \/ RejoinReads(c) \/ StateSent(c)
             \/ GuardAdmits(c) \/ GuardRefuses(c) \/ RevalidationFails(c) \/ BidReadsKey(c)
             \/ BidChecked(c)
    <3>1. UNCHANGED <<redis, status>>
      BY <2>1 DEF NotActive, JoinCountsPrevious, Announces, Ends, PresenceUpdate, RejoinLooksUp,
         RejoinsAsGuest, RejoinReads, StateSent, GuardAdmits, GuardRefuses, RevalidationFails,
         BidReadsKey, BidChecked, redis
    <3>2. failed => failed'
      BY <2>1 DEF NotActive, JoinCountsPrevious, Announces, Ends, PresenceUpdate, RejoinLooksUp,
         RejoinsAsGuest, RejoinReads, StateSent, GuardAdmits, GuardRefuses, RevalidationFails,
         BidReadsKey, BidChecked, AsksCount, Reads, history
    <3> QED
      BY <3>1, <3>2, OthersKeepCount
  <2>2. CASE JoinLeavesPrevious(c)
    <3>1. s \in Sockets /\ bound[s] \in Auctions /\ UNCHANGED status
      BY <1>0, <2>2, <2>a DEF JoinLeavesPrevious, RedisSteps, StateTypes
    <3>2. CASE Removes(c, [[calls[c] EXCEPT !.from = bound[s]] EXCEPT !.pc = "join_removing"], s, bound[s])
      BY <1>0, <3>1, <3>2, RemovingKeepsCount
    <3>3. CASE AsksCount(c, [[calls[c] EXCEPT !.from = bound[s]] EXCEPT !.pc = "join_counting"]) /\ UNCHANGED redis
      BY <3>1, <3>3, OthersKeepCount DEF AsksCount, Reads
    <3> QED
      BY <2>2, <3>2, <3>3 DEF JoinLeavesPrevious
  <2>3. CASE JoinEnters(c)
    <3>1. s \in Sockets /\ calls[c].auction \in Auctions /\ UNCHANGED status
      BY <2>3, <2>a DEF JoinEnters, RedisSteps
    <3>2. CASE JoinsAsUser(c, "entering")
      BY <1>0, <3>1, <3>2, AddingKeepsCount DEF JoinsAsUser
    <3>3. CASE UNCHANGED <<redis, failed>>
      BY <3>1, <3>3, OthersKeepCount
    <3> QED
      BY <2>3, <3>2, <3>3 DEF JoinEnters
  <2>4. CASE RejoinsAsUser(c)
    <3>1. s \in Sockets /\ calls[c].auction \in Auctions /\ UNCHANGED status
      BY <2>4, WhoseStep DEF RejoinsAsUser
    <3> QED
      BY <1>0, <2>4, <3>1, AddingKeepsCount DEF RejoinsAsUser
  <2>5. CASE RevalidationThrows(c)
    <3>1. s \in Sockets /\ UNCHANGED status
      BY <2>5, WhoseStep DEF RevalidationThrows
    <3> QED
      BY <1>0, <2>5, <3>1, LeavingKeepsCount, OthersKeepCount DEF RevalidationThrows
  <2> QED
    BY <1>1, <2>1, <2>2, <2>3, <2>4, <2>5 DEF Goes
<1>2. ASSUME NEW c \in Calls, NEW s \in Sockets, Sends(c, s)
      PROVE  BoundSocketsAreCounted'
  <2>1. CASE (\E a \in Auctions : JoinAsks(c, s, a) \/ RejoinAsks(c, s, a)) \/ StateAsked(c, s) \/ BidLooksUp(c, s)
    <3>1. UNCHANGED <<redis, status>>
      BY <2>1 DEF JoinAsks, RejoinAsks, StateAsked, BidLooksUp, redis
    <3>2. failed' = failed \/ failed' = TRUE
      BY <2>1 DEF JoinAsks, RejoinAsks, StateAsked, BidLooksUp, AsksActive, Reads, history
    <3> QED
      BY <3>1, <3>2, OthersKeepCount
  <2>2. ASSUME NEW a \in Auctions, LeaveRoom(c, s, a)
        PROVE  BoundSocketsAreCounted'
    BY <1>0, <2>2, RemovingKeepsCount, OthersKeepCount DEF LeaveRoom
  <2>3. CASE Disconnect(c, s)
    BY <1>0, <2>3, LeavingKeepsCount DEF Disconnect
  <2> QED
    BY <1>2, <2>1, <2>2, <2>3 DEF Sends
<1>3. ASSUME Elsewhere
      PROVE  BoundSocketsAreCounted'
  <2>1. ASSUME NEW s \in Sockets, Connect(s) \/ Identify(s) \/ ConnectAsGuest(s) \/ Revoke(s)
        PROVE  BoundSocketsAreCounted'
    <3>1. UNCHANGED <<redis, status, failed>>
      BY <2>1 DEF Connect, Identify, ConnectAsGuest, Revoke, redis, history
    <3> QED
      BY <3>1, OthersKeepCount
  <2>2. ASSUME NEW s \in Sockets, KeyExpires(s)
        PROVE  BoundSocketsAreCounted'
    BY <1>0, <2>2, RoomAssumption DEF KeyExpires, BoundSocketsAreCounted, StateTypes, history
  <2>3. ASSUME NEW a \in Auctions, AuctionExpires(a) \/ CleanupAuction(a)
        PROVE  BoundSocketsAreCounted'
    BY <1>0, <2>3 DEF AuctionExpires, CleanupAuction, BoundSocketsAreCounted, StateTypes, history, redis
  <2> QED
    BY <1>3, <2>1, <2>2, <2>3 DEF Elsewhere
<1>4. CASE UNCHANGED vars
  BY <1>4 DEF vars, BoundSocketsAreCounted, redis, history
<1> QED
  BY <1>1, <1>2, <1>3, <1>4 DEF Next, Elsewhere

\* However many handlers of a socket overlap, its key names only an auction
\* that counts it.
THEOREM BoundIsCounted == Spec => []BoundSocketsAreCounted
<1>1. Init => TypeInv /\ BoundSocketsAreCounted
  <2>1. Init => \A s \in Sockets : key[s] = Null
    BY DEF Init
  <2> QED
    BY <2>1, InitIsTyped, RoomAssumption DEF BoundSocketsAreCounted
<1>2. TypeInv /\ BoundSocketsAreCounted /\ [Next]_vars => (TypeInv /\ BoundSocketsAreCounted)'
  BY TypeStep, CountStep
<1> QED
  BY <1>1, <1>2, PTL DEF Spec

-----------------------------------------------------------------------------
(* The room of a user *)

\* Every open socket with a token is being identified, may not bid any more, or
\* is in the room of its user; and the server knows nobody else.
ToldInv ==
  /\ misread \/ \A s \in Sockets : UserOf[s] # Null /\ Open(s) => s \in pending \cup revoked \cup personal
  /\ \A s \in known \cup pending : UserOf[s] # Null

LEMMA ToldStep ==
  ASSUME TypeInv, ToldInv, [Next]_vars
  PROVE  ToldInv'
<1>0. StateTypes
  BY DEF TypeInv, TypeOK, StateTypes
<1>u. ASSUME UNCHANGED <<link, pending, known, personal, revoked, misread>>
      PROVE  ToldInv'
  BY <1>u DEF ToldInv, Open
<1>1. ASSUME NEW c \in Calls, Goes(c)
      PROVE  ToldInv'
  <2> DEFINE s == calls[c].socket
  <2>1. CASE \/ NotActive(c) \/ JoinLeavesPrevious(c) \/ JoinCountsPrevious(c) \/ JoinEnters(c)
             \/ Announces(c) \/ Ends(c) \/ PresenceUpdate(c)
             \/ RejoinLooksUp(c) \/ RejoinReads(c) \/ StateSent(c) \/ BidChecked(c)
    BY <1>u, <2>1 DEF NotActive, JoinLeavesPrevious, JoinCountsPrevious, JoinEnters, Announces, Ends,
       PresenceUpdate, RejoinLooksUp, RejoinReads, StateSent, BidChecked, local, history
  <2>2. CASE RejoinsAsUser(c) \/ GuardAdmits(c) \/ BidReadsKey(c)
    <3>1. UserOf[s] # Null
      BY <2>2, WhoseStep DEF RejoinsAsUser, GuardAdmits, BidReadsKey, DbSteps
    <3>2. known' = known \cup {s} /\ UNCHANGED <<link, pending, personal, revoked, misread>>
      BY <2>2 DEF RejoinsAsUser, GuardAdmits, BidReadsKey, local
    <3> QED
      BY <3>1, <3>2 DEF ToldInv, Open
  <2>3. CASE RejoinsAsGuest(c) \/ GuardRefuses(c)
    <3>1. known' \subseteq known /\ UNCHANGED <<link, pending, personal, revoked>>
      BY <2>3 DEF RejoinsAsGuest, GuardRefuses, LosesUser, local
    <3>2. misread' = misread \/ misread' = TRUE
      BY <2>3 DEF RejoinsAsGuest, GuardRefuses, LookUpThrows
    <3> QED
      BY <3>1, <3>2 DEF ToldInv, Open
  <2>4. CASE RevalidationFails(c) \/ RevalidationThrows(c)
    <3>1. s \in Sockets
      BY <2>4, WhoseStep DEF RevalidationFails, RevalidationThrows
    <3>2. known' \subseteq known /\ UNCHANGED <<pending, revoked>> /\ (misread => misread')
      BY <2>4 DEF RevalidationFails, RevalidationThrows, LosesUser, LookUpThrows
    <3>3. Closes(s) \/ UNCHANGED <<link, personal>>
      BY <2>4 DEF RevalidationFails, RevalidationThrows
    <3> QED
      BY <1>0, <3>1, <3>2, <3>3 DEF ToldInv, Open, Closes, StateTypes
  <2> QED
    BY <1>1, <2>1, <2>2, <2>3, <2>4 DEF Goes
<1>2. ASSUME NEW c \in Calls, NEW s \in Sockets, Sends(c, s)
      PROVE  ToldInv'
  <2>1. CASE \/ \E a \in Auctions : JoinAsks(c, s, a) \/ LeaveRoom(c, s, a) \/ RejoinAsks(c, s, a)
             \/ StateAsked(c, s) \/ BidLooksUp(c, s)
    BY <1>u, <2>1 DEF JoinAsks, LeaveRoom, RejoinAsks, StateAsked, BidLooksUp, local, history
  <2>2. CASE Disconnect(c, s)
    BY <1>0, <2>2 DEF Disconnect, ToldInv, Open, Closes, StateTypes
  <2> QED
    BY <1>2, <2>1, <2>2 DEF Sends
<1>3. ASSUME Elsewhere
      PROVE  ToldInv'
  <2>1. ASSUME NEW s \in Sockets, Connect(s) \/ Identify(s) \/ ConnectAsGuest(s)
        PROVE  ToldInv'
    BY <1>0, <2>1 DEF Connect, Identify, ConnectAsGuest, LosesUser, LookUpThrows, ToldInv, Open,
       StateTypes, local, history
  <2>2. ASSUME NEW s \in Sockets, Revoke(s) \/ KeyExpires(s)
        PROVE  ToldInv'
    BY <2>2 DEF Revoke, KeyExpires, ToldInv, Open, local, history
  <2>3. ASSUME NEW a \in Auctions, AuctionExpires(a) \/ CleanupAuction(a)
        PROVE  ToldInv'
    BY <1>u, <2>3 DEF AuctionExpires, CleanupAuction, local, history
  <2> QED
    BY <1>3, <2>1, <2>2, <2>3 DEF Elsewhere
<1>4. CASE UNCHANGED vars
  BY <1>u, <1>4 DEF vars, local, history
<1> QED
  BY <1>1, <1>2, <1>3, <1>4 DEF Next, Elsewhere

\* Who may bid on an open socket is in the room auction:won is sent to, also
\* when the guard of place:bid identified the socket and not its connection.
THEOREM WinnersAreTold == Spec => []WinnersCanBeTold
<1>1. Init => TypeInv /\ ToldInv
  BY InitIsTyped DEF Init, ToldInv, Open
<1>2. TypeInv /\ ToldInv /\ [Next]_vars => (TypeInv /\ ToldInv)'
  BY TypeStep, ToldStep
<1>3. TypeInv /\ ToldInv => WinnersCanBeTold
  BY DEF ToldInv, WinnersCanBeTold, TypeInv, TypeOK
<1> QED
  BY <1>1, <1>2, <1>3, PTL DEF Spec

-----------------------------------------------------------------------------
(* Bids *)

\* Handlers belong to sockets that have connected, and only those are bound.
Connected ==
  /\ \A c \in Calls : calls[c].pc # "idle" => link[calls[c].socket] # "off"
  /\ \A s \in Sockets : link[s] = "off" => bound[s] = Null

\* Handler c goes on for socket s, or returns; the others wait.
Hands(c, s) ==
  /\ \A d \in Calls \ {c} : calls'[d] = calls[d]
  /\ calls'[c].pc = "idle" \/ calls'[c].socket = s

LEMMA GoingOnHands ==
  ASSUME TypeInv, NEW c \in Calls, Goes(c)
  PROVE  Hands(c, calls[c].socket) /\ calls[c].pc # "idle"
<1>0. calls \in [Calls -> CallType] /\ calls[c] \in CallType
  BY DEF TypeInv, TypeOK
<1>1. Return(c) => Hands(c, calls[c].socket)
  BY <1>0, IdleIsSound DEF Return, Hands
<1>2. ASSUME NEW call, call.socket = calls[c].socket, Await(c, call) \/ AwaitDb(c, call)
      PROVE  Hands(c, calls[c].socket)
  BY <1>0, <1>2 DEF Await, AwaitDb, Hands
<1>3. ASSUME NEW call, call \in CallType, call.socket = calls[c].socket, AsksCount(c, call)
      PROVE  Hands(c, calls[c].socket)
  BY <1>2, <1>3 DEF AsksCount, CallType
<1>4. ASSUME NEW call, call \in CallType, call.socket = calls[c].socket, NEW p, NEW k, Writes(c, call, p, k)
      PROVE  Hands(c, calls[c].socket)
  BY <1>2, <1>4 DEF Writes, CallType
<1>5. ASSUME NEW pc \in RedisSteps \cup DbSteps, NEW ok \in BOOLEAN
      PROVE  LET next == [calls[c] EXCEPT !.pc = pc, !.ok = ok]
             IN  next \in CallType /\ next.socket = calls[c].socket
  BY <1>0, <1>5 DEF CallType
<1>6. ASSUME NEW pc \in RedisSteps, NEW from \in Auctions \cup {Null}
      PROVE  LET next == [calls[c] EXCEPT !.pc = pc, !.from = from]
             IN  next \in CallType /\ next.socket = calls[c].socket
  BY <1>0, <1>6 DEF CallType
<1>7. ASSUME NEW pc \in RedisSteps
      PROVE  LET next == [calls[c] EXCEPT !.pc = pc]
             IN  next \in CallType /\ next.socket = calls[c].socket
  BY <1>0, <1>7 DEF CallType
<1>8. calls[c].pc # "idle"
  BY DEF Goes, NotActive, JoinLeavesPrevious, JoinCountsPrevious, JoinEnters, Announces, Ends,
     PresenceUpdate, RejoinLooksUp, RejoinsAsUser, RejoinsAsGuest, RejoinReads, StateSent, GuardAdmits,
     GuardRefuses, RevalidationFails, RevalidationThrows, BidReadsKey, BidChecked, Replied
<1>9. CASE \/ NotActive(c) \/ Ends(c) \/ PresenceUpdate(c) \/ StateSent(c) \/ GuardRefuses(c)
           \/ RevalidationFails(c) \/ BidChecked(c)
  BY <1>1, <1>8, <1>9 DEF NotActive, Ends, PresenceUpdate, StateSent, GuardRefuses, RevalidationFails, BidChecked
<1>10. CASE JoinLeavesPrevious(c)
  <2> DEFINE s == calls[c].socket
             next(pc) == [[calls[c] EXCEPT !.from = bound[s]] EXCEPT !.pc = pc]
  <2>1. bound[s] \in Auctions \cup {Null}
    <3>1. s \in Sockets
      BY <1>8, WhoseStep
    <3> QED
      BY <3>1 DEF TypeInv, TypeOK
  <2>2. \A pc \in RedisSteps : next(pc) \in CallType /\ next(pc).socket = s
    BY <1>0, <2>1 DEF CallType
  <2>3. CASE Removes(c, next("join_removing"), s, bound[s])
    BY <1>4, <1>8, <2>2, <2>3 DEF Removes, RedisSteps
  <2>4. CASE AsksCount(c, next("join_counting"))
    BY <1>3, <1>8, <2>2, <2>4 DEF RedisSteps
  <2> QED
    BY <1>10, <2>3, <2>4 DEF JoinLeavesPrevious
<1>11. CASE JoinCountsPrevious(c)
  BY <1>3, <1>7, <1>8, <1>11 DEF JoinCountsPrevious, RedisSteps
<1>12. CASE JoinEnters(c)
  BY <1>1, <1>4, <1>7, <1>8, <1>12 DEF JoinEnters, JoinsAsUser, Adds, RedisSteps
<1>13. CASE Announces(c)
  <2>1. calls[c].auction \in Auctions \cup {Null}
    BY <1>0 DEF CallType
  <2> QED
    BY <1>3, <1>6, <1>8, <1>13, <2>1 DEF Announces, RedisSteps
<1>14. CASE RejoinLooksUp(c) \/ GuardAdmits(c)
  BY <1>2, <1>5, <1>8, <1>14 DEF RejoinLooksUp, GuardAdmits, DbSteps
<1>15. CASE RejoinsAsUser(c)
  BY <1>4, <1>5, <1>8, <1>15 DEF RejoinsAsUser, Adds, RedisSteps
<1>16. CASE RejoinsAsGuest(c)
  BY <1>2, <1>5, <1>8, <1>16 DEF RejoinsAsGuest, RedisSteps
<1>17. CASE RejoinReads(c)
  BY <1>2, <1>7, <1>8, <1>17 DEF RejoinReads, RedisSteps
<1>18. CASE RevalidationThrows(c)
  <2> DEFINE s == calls[c].socket
             next == Call("removing", s, bound[s])
  <2>1. CASE Return(c)
    BY <1>1, <1>8, <2>1
  <2>2. CASE bound[s] # Null /\ Removes(c, next, s, bound[s])
    <3>1. next \in CallType /\ next.socket = s
      <4>1. s \in Sockets
        BY <1>8, WhoseStep
      <4>2. Sound(next)
        BY <2>2, <4>1, RemovingIsSound
      <4> QED
        BY <4>2 DEF Sound, Call, Idle
    <3> QED
      BY <1>4, <1>8, <2>2, <3>1 DEF Removes
  <2> QED
    BY <1>18, <2>1, <2>2 DEF RevalidationThrows, Leaves
<1>19. CASE BidReadsKey(c)
  <2> DEFINE s == calls[c].socket
  <2>1. ASSUME NEW v \in BOOLEAN, Await(c, [calls[c] EXCEPT !.pc = "bid_key", !.ok = v, !.auction = bound[s]])
        PROVE  Hands(c, s)
    <3> DEFINE next == [calls[c] EXCEPT !.pc = "bid_key", !.ok = v, !.auction = bound[s]]
    <3>1. next.socket = s
      BY <1>0 DEF CallType
    <3> HIDE DEF next
    <3>2. Await(c, next)
      BY <2>1 DEF next
    <3> QED
      BY <1>2, <3>1, <3>2
  <2> QED
    BY <1>1, <1>8, <1>19, <2>1 DEF BidReadsKey
<1> QED
  BY <1>9, <1>10, <1>11, <1>12, <1>13, <1>14, <1>15, <1>16, <1>17, <1>18, <1>19 DEF Goes

LEMMA SendingHands ==
  ASSUME TypeInv, NEW c \in Calls, NEW s \in Sockets, Sends(c, s)
  PROVE  Open(s) /\ (UNCHANGED calls \/ Hands(c, s))
<1>0. calls \in [Calls -> CallType] /\ calls[c] \in CallType
  BY DEF TypeInv, TypeOK
<1>1. ASSUME NEW call, call.socket = s, Await(c, call) \/ AwaitDb(c, call)
      PROVE  Hands(c, s)
  BY <1>0, <1>1 DEF Await, AwaitDb, Hands
<1>2. ASSUME NEW pc, NEW a
      PROVE  LET next == Call(pc, s, a)
             IN  next.socket = s /\ \A ok \in BOOLEAN : [next EXCEPT !.ok = ok].socket = s
  BY DEF Call, Idle
<1>3. ASSUME NEW pc, NEW a, NEW p, NEW k, Writes(c, Call(pc, s, a), p, k)
      PROVE  Hands(c, s)
  BY <1>1, <1>2, <1>3 DEF Writes
<1>4. CASE (\E a \in Auctions : JoinAsks(c, s, a) \/ RejoinAsks(c, s, a))
  BY <1>1, <1>2, <1>4 DEF JoinAsks, RejoinAsks, AsksActive, Event
<1>5. CASE \E a \in Auctions : LeaveRoom(c, s, a)
  BY <1>3, <1>5 DEF LeaveRoom, Removes, Event
<1>6. CASE StateAsked(c, s)
  BY <1>1, <1>2, <1>6 DEF StateAsked, Event
<1>7. CASE BidLooksUp(c, s)
  BY <1>1, <1>2, <1>7 DEF BidLooksUp, Event
<1>8. CASE Disconnect(c, s)
  <2>1. Return(c) => Hands(c, s)
    BY <1>0, IdleIsSound DEF Return, Hands
  <2> QED
    BY <1>3, <1>8, <2>1 DEF Disconnect, Leaves, Removes
<1> QED
  BY <1>4, <1>5, <1>6, <1>7, <1>8 DEF Sends

\* A socket that has connected never goes back.
LEMMA LinksGoOn ==
  ASSUME TypeInv, [Next]_vars, NEW s \in Sockets, link[s] # "off"
  PROVE  link'[s] # "off"
<1>0. StateTypes
  BY DEF TypeInv, TypeOK, StateTypes
<1>1. ASSUME UNCHANGED link
      PROVE  link'[s] # "off"
  BY <1>1
<1>2. ASSUME NEW t \in Sockets, Closes(t)
      PROVE  link'[s] # "off"
  BY <1>0, <1>2 DEF Closes, StateTypes
<1>3. ASSUME NEW c \in Calls, Goes(c)
      PROVE  link'[s] # "off"
  <2>1. CASE RevalidationFails(c) \/ RevalidationThrows(c)
    <3>1. calls[c].socket \in Sockets
      BY <2>1, WhoseStep DEF RevalidationFails, RevalidationThrows
    <3> QED
      BY <1>1, <1>2, <2>1, <3>1 DEF RevalidationFails, RevalidationThrows
  <2>2. CASE ~(RevalidationFails(c) \/ RevalidationThrows(c))
    BY <1>1, <1>3, <2>2 DEF Goes, NotActive, JoinLeavesPrevious, JoinCountsPrevious, JoinEnters,
       Announces, Ends, PresenceUpdate, RejoinLooksUp, RejoinsAsUser, RejoinsAsGuest, RejoinReads,
       StateSent, GuardAdmits, GuardRefuses, BidReadsKey, BidChecked
  <2> QED
    BY <2>1, <2>2
<1>4. ASSUME NEW c \in Calls, NEW t \in Sockets, Sends(c, t)
      PROVE  link'[s] # "off"
  BY <1>1, <1>2, <1>4 DEF Sends, JoinAsks, LeaveRoom, RejoinAsks, StateAsked, BidLooksUp, Disconnect
<1>5. ASSUME Elsewhere
      PROVE  link'[s] # "off"
  BY <1>0, <1>1, <1>5 DEF Elsewhere, Connect, Identify, ConnectAsGuest, Revoke, KeyExpires,
     AuctionExpires, CleanupAuction, StateTypes
<1> QED
  BY <1>1, <1>3, <1>4, <1>5 DEF Next, Elsewhere, vars

\* Only the handler of a socket changes what the socket is bound to.
LEMMA BoundByHandler ==
  ASSUME TypeInv, Connected, [Next]_vars, NEW s \in Sockets, link[s] = "off"
  PROVE  bound'[s] = bound[s]
<1>0. StateTypes
  BY DEF TypeInv, TypeOK, StateTypes
<1>1. ASSUME NEW c \in Calls, Goes(c)
      PROVE  bound'[s] = bound[s]
  <2>1. calls[c].pc # "idle" /\ calls[c].socket # s
    BY <1>1, GoingOnHands DEF Connected
  <2>2. CASE JoinEnters(c) \/ RejoinsAsUser(c) \/ RejoinsAsGuest(c)
    <3>1. bound' = [bound EXCEPT ![calls[c].socket] = calls[c].auction]
      BY <2>2 DEF JoinEnters, JoinsAsUser, RejoinsAsUser, RejoinsAsGuest, Enters
    <3> QED
      BY <1>0, <2>1, <3>1 DEF StateTypes
  <2>3. CASE ~(JoinEnters(c) \/ RejoinsAsUser(c) \/ RejoinsAsGuest(c))
    BY <1>1, <2>3 DEF Goes, NotActive, JoinLeavesPrevious, JoinCountsPrevious,
       Announces, Ends, PresenceUpdate, RejoinLooksUp, RejoinReads,
       StateSent, GuardAdmits, GuardRefuses, BidReadsKey, BidChecked, RevalidationFails,
       RevalidationThrows, local
  <2> QED
    BY <2>2, <2>3
<1>2. ASSUME NEW c \in Calls, NEW t \in Sockets, Sends(c, t)
      PROVE  bound'[s] = bound[s]
  <2>1. t # s
    BY <1>2, SendingHands DEF Open
  <2>2. CASE \E a \in Auctions : LeaveRoom(c, t, a)
    <3>1. bound' = [bound EXCEPT ![t] = Null]
      BY <2>2 DEF LeaveRoom
    <3> QED
      BY <1>0, <2>1, <3>1 DEF StateTypes
  <2>3. CASE ~(\E a \in Auctions : LeaveRoom(c, t, a))
    BY <1>2, <2>3 DEF Sends, JoinAsks, RejoinAsks, StateAsked, BidLooksUp, Disconnect, local
  <2> QED
    BY <2>2, <2>3
<1>3. CASE Elsewhere \/ UNCHANGED vars
  BY <1>3 DEF Elsewhere, Connect, Identify, ConnectAsGuest, Revoke, KeyExpires,
     AuctionExpires, CleanupAuction, local, vars
<1> QED
  BY <1>1, <1>2, <1>3 DEF Next, Elsewhere

LEMMA ConnectedStep ==
  ASSUME TypeInv, Connected, [Next]_vars
  PROVE  Connected'
<1>1. ASSUME NEW s \in Sockets, link'[s] = "off"
      PROVE  bound'[s] = Null
  <2>1. link[s] = "off"
    BY <1>1, LinksGoOn
  <2> QED
    BY <2>1, BoundByHandler DEF Connected
<1>2. ASSUME NEW d \in Calls, calls'[d].pc # "idle"
      PROVE  link'[calls'[d].socket] # "off"
  <2>1. CASE calls'[d] = calls[d]
    <3>1. calls[d].socket \in Sockets /\ link[calls[d].socket] # "off"
      BY <1>2, <2>1, WhoseStep DEF Connected
    <3> QED
      BY <2>1, <3>1, LinksGoOn
  <2>2. ASSUME NEW c \in Calls, Goes(c)
        PROVE  link'[calls'[d].socket] # "off"
    <3>1. CASE d = c
      <4>1. calls[c].socket \in Sockets /\ link[calls[c].socket] # "off" /\ calls'[d].socket = calls[c].socket
        BY <1>2, <2>2, <3>1, GoingOnHands, WhoseStep DEF Connected, Hands
      <4> QED
        BY <4>1, LinksGoOn
    <3>2. CASE d # c
      BY <2>1, <2>2, <3>2, GoingOnHands DEF Hands
    <3> QED
      BY <3>1, <3>2
  <2>3. ASSUME NEW c \in Calls, NEW s \in Sockets, Sends(c, s)
        PROVE  link'[calls'[d].socket] # "off"
    <3>1. link[s] # "off" /\ (UNCHANGED calls \/ Hands(c, s))
      BY <2>3, SendingHands DEF Open
    <3>2. CASE calls'[d].socket = s
      BY <3>1, <3>2, LinksGoOn
    <3>3. CASE calls'[d].socket # s
      BY <1>2, <2>1, <3>1, <3>3 DEF Hands
    <3> QED
      BY <3>2, <3>3
  <2>4. CASE Elsewhere \/ UNCHANGED vars
    <3>1. UNCHANGED calls
      BY <2>4, ElsewhereIsTyped DEF vars
    <3> QED
      BY <2>1, <3>1
  <2> QED
    BY <2>2, <2>3, <2>4 DEF Next, Elsewhere
<1> QED
  BY <1>1, <1>2 DEF Connected

\* Who has a key was a user of the server when it was written.
KeysOfUsers == \A s \in Sockets : key[s] # Null => s \in known \cup lapsed

LEMMA UsersStay ==
  ASSUME TypeInv, [Next]_vars
  PROVE  known \subseteq known' \cup lapsed' /\ lapsed \subseteq lapsed'
<1>0. UNCHANGED <<known, lapsed>> => known \subseteq known' \cup lapsed' /\ lapsed \subseteq lapsed'
  OBVIOUS
<1>1. \A s : LosesUser(s) => known \subseteq known' \cup lapsed' /\ lapsed \subseteq lapsed'
  BY DEF LosesUser
<1>2. ASSUME NEW c \in Calls, Goes(c)
      PROVE  known \subseteq known' \cup lapsed' /\ lapsed \subseteq lapsed'
  <2>1. CASE RejoinsAsGuest(c) \/ RevalidationFails(c)
    BY <1>0, <1>1, <2>1 DEF RejoinsAsGuest, RevalidationFails
  <2>2. CASE RejoinsAsUser(c) \/ GuardAdmits(c) \/ BidReadsKey(c)
    BY <2>2 DEF RejoinsAsUser, GuardAdmits, BidReadsKey
  <2>3. CASE ~(RejoinsAsGuest(c) \/ RevalidationFails(c) \/ RejoinsAsUser(c) \/ GuardAdmits(c) \/ BidReadsKey(c))
    BY <1>0, <1>2, <2>3 DEF Goes, NotActive, JoinLeavesPrevious, JoinCountsPrevious, JoinEnters,
       Announces, Ends, PresenceUpdate, RejoinLooksUp, RejoinReads, StateSent, GuardRefuses,
       RevalidationThrows, BidChecked, history
  <2> QED
    BY <2>1, <2>2, <2>3
<1>3. ASSUME NEW c \in Calls, NEW s \in Sockets, Sends(c, s)
      PROVE  known \subseteq known' \cup lapsed' /\ lapsed \subseteq lapsed'
  BY <1>0, <1>3 DEF Sends, JoinAsks, LeaveRoom, RejoinAsks, StateAsked, BidLooksUp, Disconnect, history
<1>4. CASE Elsewhere \/ UNCHANGED vars
  BY <1>0, <1>1, <1>4 DEF Elsewhere, Connect, Identify, ConnectAsGuest, Revoke, KeyExpires,
     AuctionExpires, CleanupAuction, history, vars
<1> QED
  BY <1>2, <1>3, <1>4 DEF Next, Elsewhere

\* What two commands do to the keys.
LEMMA KeysOfWrites ==
  ASSUME StateTypes, NEW c, NEW call, NEW s \in Sockets, NEW a \in Auctions
  PROVE  /\ Removes(c, call, s, a) =>
              /\ \A t \in Sockets \ {s} : key'[t] = key[t]
              /\ key'[s] = Null \/ (key'[s] = key[s] /\ failed' = TRUE)
              /\ failed' = failed \/ failed' = TRUE
         /\ Adds(c, call, s, a) =>
              /\ \A t \in Sockets \ {s} : key'[t] = key[t]
              /\ key'[s] \in {a, key[s]}
              /\ failed' = failed \/ failed' = TRUE
BY DEF StateTypes, Removes, Adds, Writes

LEMMA KeysOfLeaves ==
  ASSUME StateTypes, NEW c, NEW s \in Sockets, NEW isUser, Leaves(c, s, isUser)
  PROVE  /\ \A t \in Sockets : key'[t] \in {Null, key[t]}
         /\ \A t \in Sockets \ {s} : key'[t] = key[t]
         /\ failed' = failed \/ failed' = TRUE
<1>1. CASE UNCHANGED <<redis, failed>>
  BY <1>1 DEF redis
<1>2. CASE bound[s] # Null /\ Removes(c, Call("removing", s, bound[s]), s, bound[s])
  <2>1. bound[s] \in Auctions
    BY <1>2 DEF StateTypes
  <2> QED
    BY <1>2, <2>1, KeysOfWrites
<1> QED
  BY <1>1, <1>2 DEF Leaves

LEMMA OthersKeepBids ==
  ASSUME BidsComeFromTheRoom, UNCHANGED <<link, bound, rooms, key>>, lapsed \subseteq lapsed',
         failed' = failed \/ failed' = TRUE
  PROVE  BidsComeFromTheRoom'
BY DEF BidsComeFromTheRoom, Open

\* Entering a room goes with being bound to it.
LEMMA EnteringKeepsBids ==
  ASSUME StateTypes, BidsComeFromTheRoom, UNCHANGED link, lapsed \subseteq lapsed',
         failed' = failed \/ failed' = TRUE,
         NEW c, NEW isUser, calls[c].socket \in Sockets, calls[c].auction \in Auctions, Enters(c, isUser),
         \A t \in Sockets \ {calls[c].socket} : key'[t] = key[t]
  PROVE  BidsComeFromTheRoom'
<1> DEFINE s == calls[c].socket
           a == calls[c].auction
<1>1. /\ \A t \in Sockets \ {s} : bound'[t] = bound[t] /\ \A b \in Auctions : t \in rooms[b] => t \in rooms'[b]
      /\ bound'[s] = a /\ (Open(s) => s \in rooms'[a])
  BY DEF Enters, StateTypes
<1>2. \A t \in Sockets : bound[t] \in Auctions \cup {Null}
  BY DEF StateTypes
<1> QED
  BY <1>1, <1>2 DEF BidsComeFromTheRoom, Open

\* A socket that closes bids no more.
LEMMA ClosingKeepsBids ==
  ASSUME StateTypes, BidsComeFromTheRoom, UNCHANGED bound, lapsed \subseteq lapsed',
         failed' = failed \/ failed' = TRUE,
         NEW s \in Sockets, Closes(s), \A t \in Sockets \ {s} : key'[t] = key[t]
  PROVE  BidsComeFromTheRoom'
<1>1. /\ link'[s] = "closed"
      /\ \A t \in Sockets \ {s} : link'[t] = link[t] /\ \A b \in Auctions : t \in rooms[b] => t \in rooms'[b]
  BY DEF Closes, StateTypes
<1>2. \A t \in Sockets : bound[t] \in Auctions \cup {Null}
  BY DEF StateTypes
<1> QED
  BY <1>1, <1>2 DEF BidsComeFromTheRoom, Open

BidInv == Connected /\ KeysOfUsers /\ BidsComeFromTheRoom

LEMMA BidsGoingOn ==
  ASSUME TypeInv, BidInv, NEW c \in Calls, Goes(c)
  PROVE  KeysOfUsers' /\ BidsComeFromTheRoom'
<1> DEFINE s == calls[c].socket
<1>0. StateTypes /\ Connected /\ KeysOfUsers /\ BidsComeFromTheRoom
  BY DEF TypeInv, TypeOK, StateTypes, BidInv
<1>u. known \subseteq known' \cup lapsed' /\ lapsed \subseteq lapsed'
  BY UsersStay DEF Next
<1>a. \A pc \in RedisSteps : Replied(c, pc) => s \in Sockets /\ calls[c].auction \in Auctions
  BY WhoseStep DEF Replied, RedisSteps
<1>k. ASSUME \A t \in Sockets : key'[t] \in {Null, key[t]}
      PROVE  KeysOfUsers'
  BY <1>0, <1>u, <1>k DEF KeysOfUsers
<1>1. CASE \/ NotActive(c) \/ JoinCountsPrevious(c) \/ Announces(c) \/ Ends(c) \/ PresenceUpdate(c)
           \/ RejoinLooksUp(c) \/ RejoinReads(c) \/ StateSent(c)
           \/ GuardAdmits(c) \/ GuardRefuses(c) \/ BidReadsKey(c) \/ BidChecked(c)
  <2>1. UNCHANGED <<link, bound, rooms, key>>
    BY <1>1 DEF NotActive, JoinCountsPrevious, Announces, Ends, PresenceUpdate, RejoinLooksUp,
       RejoinReads, StateSent, GuardAdmits, GuardRefuses, BidReadsKey, BidChecked, redis, local
  <2>2. failed' = failed \/ failed' = TRUE
    BY <1>1 DEF NotActive, JoinCountsPrevious, Announces, Ends, PresenceUpdate, RejoinLooksUp,
       RejoinReads, StateSent, GuardAdmits, GuardRefuses, BidReadsKey, BidChecked, AsksCount, Reads, history
  <2> QED
    BY <1>0, <1>k, <1>u, <2>1, <2>2, OthersKeepBids
<1>2. CASE JoinLeavesPrevious(c)
  <2>1. s \in Sockets /\ bound[s] \in Auctions
    BY <1>0, <1>2, <1>a DEF JoinLeavesPrevious, RedisSteps, StateTypes
  <2>2. /\ UNCHANGED <<link, bound>>
        /\ \A t \in Sockets \ {s} : \A b \in Auctions : t \in rooms[b] => t \in rooms'[b]
    BY <1>0, <1>2, <2>1 DEF JoinLeavesPrevious, StateTypes
  <2>3. CASE Removes(c, [[calls[c] EXCEPT !.from = bound[s]] EXCEPT !.pc = "join_removing"], s, bound[s])
    <3>1. /\ \A t \in Sockets \ {s} : key'[t] = key[t]
          /\ key'[s] = Null \/ (key'[s] = key[s] /\ failed' = TRUE)
          /\ failed' = failed \/ failed' = TRUE
      BY <1>0, <2>1, <2>3, KeysOfWrites
    <3>2. KeysOfUsers'
      BY <1>k, <2>1, <3>1
    <3>3. \A t \in Sockets : bound[t] \in Auctions \cup {Null}
      BY <1>0 DEF StateTypes
    <3> QED
      BY <1>0, <1>u, <2>1, <2>2, <3>1, <3>2, <3>3 DEF BidsComeFromTheRoom, Open
  <2>4. CASE s \notin known /\ UNCHANGED redis /\ (failed' = failed \/ failed' = TRUE)
    <3>1. UNCHANGED key /\ (key[s] # Null => s \in lapsed)
      BY <1>0, <2>1, <2>4 DEF KeysOfUsers, redis
    <3>2. KeysOfUsers'
      BY <1>k, <3>1
    <3>3. \A t \in Sockets : bound[t] \in Auctions \cup {Null}
      BY <1>0 DEF StateTypes
    <3> QED
      BY <1>0, <1>u, <2>1, <2>2, <2>4, <3>1, <3>2, <3>3 DEF BidsComeFromTheRoom, Open
  <2> QED
    BY <1>2, <2>3, <2>4 DEF JoinLeavesPrevious, AsksCount, Reads
<1>3. CASE JoinEnters(c) \/ RejoinsAsUser(c) \/ RejoinsAsGuest(c)
  <2>1. s \in Sockets /\ calls[c].auction \in Auctions
    BY <1>3, <1>a, WhoseStep DEF JoinEnters, RejoinsAsUser, RejoinsAsGuest, RedisSteps
  <2>2. UNCHANGED link /\ \E isUser \in BOOLEAN : Enters(c, isUser)
    BY <1>3 DEF JoinEnters, JoinsAsUser, RejoinsAsUser, RejoinsAsGuest
  <2>3. \/ /\ s \in known' /\ \E call : Adds(c, call, s, calls[c].auction)
        \/ UNCHANGED <<key, failed>>
    BY <1>3 DEF JoinEnters, JoinsAsUser, RejoinsAsUser, RejoinsAsGuest, redis
  <2>4. /\ \A t \in Sockets \ {s} : key'[t] = key[t]
        /\ key'[s] = key[s] \/ s \in known'
        /\ failed' = failed \/ failed' = TRUE
    BY <1>0, <2>1, <2>3, KeysOfWrites
  <2>5. KeysOfUsers'
    BY <1>0, <1>u, <2>4 DEF KeysOfUsers
  <2> QED
    BY <1>0, <1>u, <2>1, <2>2, <2>4, <2>5, EnteringKeepsBids
<1>4. CASE RevalidationFails(c) \/ RevalidationThrows(c)
  <2>1. s \in Sockets
    BY <1>4, WhoseStep DEF RevalidationFails, RevalidationThrows
  <2>2. UNCHANGED bound /\ (Closes(s) \/ UNCHANGED <<link, rooms>>)
    BY <1>4 DEF RevalidationFails, RevalidationThrows
  <2>3. UNCHANGED <<redis, failed>> \/ Leaves(c, s, s \in known)
    BY <1>4 DEF RevalidationFails, RevalidationThrows
  <2>4. UNCHANGED <<link, rooms>> => UNCHANGED <<redis, failed>> \/ Closes(s)
    BY <1>4 DEF RevalidationFails, RevalidationThrows
  <2>5. /\ \A t \in Sockets : key'[t] \in {Null, key[t]}
        /\ \A t \in Sockets \ {s} : key'[t] = key[t]
        /\ failed' = failed \/ failed' = TRUE
    BY <1>0, <2>1, <2>3, KeysOfLeaves DEF redis
  <2>6. CASE Closes(s)
    BY <1>0, <1>k, <1>u, <2>1, <2>2, <2>5, <2>6, ClosingKeepsBids
  <2>7. CASE UNCHANGED <<link, rooms>> /\ UNCHANGED <<redis, failed>>
    BY <1>0, <1>k, <1>u, <2>2, <2>5, <2>7, OthersKeepBids DEF redis
  <2> QED
    BY <2>2, <2>4, <2>6, <2>7
<1> QED
  BY <1>1, <1>2, <1>3, <1>4 DEF Goes

LEMMA BidsSending ==
  ASSUME TypeInv, BidInv, NEW c \in Calls, NEW s \in Sockets, Sends(c, s)
  PROVE  KeysOfUsers' /\ BidsComeFromTheRoom'
<1>0. StateTypes /\ Connected /\ KeysOfUsers /\ BidsComeFromTheRoom
  BY DEF TypeInv, TypeOK, StateTypes, BidInv
<1>u. known \subseteq known' \cup lapsed' /\ lapsed \subseteq lapsed'
  BY UsersStay DEF Next
<1>k. ASSUME \A t \in Sockets : key'[t] \in {Null, key[t]}
      PROVE  KeysOfUsers'
  BY <1>0, <1>u, <1>k DEF KeysOfUsers
<1>1. CASE (\E a \in Auctions : JoinAsks(c, s, a) \/ RejoinAsks(c, s, a)) \/ StateAsked(c, s) \/ BidLooksUp(c, s)
  <2>1. UNCHANGED <<link, bound, rooms, key>>
    BY <1>1 DEF JoinAsks, RejoinAsks, StateAsked, BidLooksUp, redis, local
  <2>2. failed' = failed \/ failed' = TRUE
    BY <1>1 DEF JoinAsks, RejoinAsks, StateAsked, BidLooksUp, AsksActive, Reads, history
  <2> QED
    BY <1>0, <1>k, <1>u, <2>1, <2>2, OthersKeepBids
<1>2. ASSUME NEW a \in Auctions, LeaveRoom(c, s, a)
      PROVE  KeysOfUsers' /\ BidsComeFromTheRoom'
  <2>1. /\ UNCHANGED link /\ bound'[s] = Null
        /\ \A t \in Sockets \ {s} : bound'[t] = bound[t] /\ \A b \in Auctions : t \in rooms[b] => t \in rooms'[b]
    BY <1>0, <1>2 DEF LeaveRoom, StateTypes
  <2>2. /\ \A t \in Sockets \ {s} : key'[t] = key[t]
        /\ key'[s] \in {Null, key[s]}
        /\ failed' = failed \/ failed' = TRUE
    BY <1>0, <1>2, KeysOfWrites DEF LeaveRoom, redis
  <2>3. \A t \in Sockets : bound[t] \in Auctions \cup {Null}
    BY <1>0 DEF StateTypes
  <2>4. KeysOfUsers'
    BY <1>k, <2>2
  <2> QED
    BY <1>0, <1>u, <2>1, <2>2, <2>3, <2>4 DEF BidsComeFromTheRoom, Open
<1>3. CASE Disconnect(c, s)
  <2>1. /\ \A t \in Sockets : key'[t] \in {Null, key[t]}
        /\ \A t \in Sockets \ {s} : key'[t] = key[t]
        /\ failed' = failed \/ failed' = TRUE
    BY <1>0, <1>3, KeysOfLeaves DEF Disconnect
  <2> QED
    BY <1>0, <1>3, <1>k, <1>u, <2>1, ClosingKeepsBids DEF Disconnect
<1> QED
  BY <1>1, <1>2, <1>3 DEF Sends

LEMMA BidsElsewhere ==
  ASSUME TypeInv, BidInv, Elsewhere
  PROVE  KeysOfUsers' /\ BidsComeFromTheRoom'
<1>0. StateTypes /\ Connected /\ KeysOfUsers /\ BidsComeFromTheRoom
  BY DEF TypeInv, TypeOK, StateTypes, BidInv
<1>u. known \subseteq known' \cup lapsed' /\ lapsed \subseteq lapsed'
  BY UsersStay DEF Next, Elsewhere
<1>k. ASSUME \A t \in Sockets : key'[t] \in {Null, key[t]}
      PROVE  KeysOfUsers'
  BY <1>0, <1>u, <1>k DEF KeysOfUsers
<1>1. ASSUME NEW s \in Sockets, Connect(s)
      PROVE  KeysOfUsers' /\ BidsComeFromTheRoom'
  <2>1. /\ bound[s] = Null /\ UNCHANGED <<bound, rooms, key, lapsed, failed>>
        /\ \A t \in Sockets \ {s} : link'[t] = link[t]
    BY <1>0, <1>1 DEF Connect, Connected, StateTypes, local, redis, history
  <2>2. KeysOfUsers'
    BY <1>k, <2>1
  <2> QED
    BY <1>0, <2>1, <2>2 DEF BidsComeFromTheRoom, Open
<1>2. ASSUME NEW s \in Sockets, Identify(s) \/ ConnectAsGuest(s) \/ Revoke(s)
      PROVE  KeysOfUsers' /\ BidsComeFromTheRoom'
  <2>1. UNCHANGED <<link, bound, rooms, key, failed>>
    BY <1>2 DEF Identify, ConnectAsGuest, Revoke, local, redis, history
  <2> QED
    BY <1>0, <1>k, <1>u, <2>1, OthersKeepBids
<1>3. ASSUME NEW s \in Sockets, KeyExpires(s)
      PROVE  KeysOfUsers' /\ BidsComeFromTheRoom'
  <2>1. /\ UNCHANGED <<link, bound, rooms, lapsed, failed>>
        /\ key'[s] = Null /\ \A t \in Sockets \ {s} : key'[t] = key[t]
    BY <1>0, <1>3 DEF KeyExpires, StateTypes, local, history
  <2>2. KeysOfUsers'
    BY <1>k, <2>1
  <2> QED
    BY <1>0, <2>1, <2>2 DEF BidsComeFromTheRoom, Open
<1>4. ASSUME NEW a \in Auctions, AuctionExpires(a) \/ CleanupAuction(a)
      PROVE  KeysOfUsers' /\ BidsComeFromTheRoom'
  <2>1. UNCHANGED <<link, bound, rooms, key, failed>>
    BY <1>4 DEF AuctionExpires, CleanupAuction, local, redis, history
  <2> QED
    BY <1>0, <1>k, <1>u, <2>1, OthersKeepBids
<1> QED
  BY <1>1, <1>2, <1>3, <1>4 DEF Elsewhere

\* The room and the key place:bid compares agree only inside the room, for any
\* number of sockets, auctions and overlapping handlers.
THEOREM BidsAreFromTheRoom == Spec => []BidsComeFromTheRoom
<1>1. Init => TypeInv /\ BidInv
  <2>1. Init => /\ \A s \in Sockets : key[s] = Null /\ bound[s] = Null
                /\ \A c \in Calls : calls[c].pc = "idle"
    BY IdleIsSound DEF Init
  <2> QED
    BY <2>1, InitIsTyped DEF BidInv, Connected, KeysOfUsers, BidsComeFromTheRoom
<1>2. TypeInv /\ BidInv /\ [Next]_vars => (TypeInv /\ BidInv)'
  <2> SUFFICES ASSUME TypeInv, BidInv, [Next]_vars PROVE TypeInv' /\ BidInv'
    OBVIOUS
  <2>1. TypeInv' /\ Connected'
    BY TypeStep, ConnectedStep DEF BidInv
  <2>2. CASE UNCHANGED vars
    BY <2>1, <2>2 DEF BidInv, KeysOfUsers, BidsComeFromTheRoom, Open, vars, local, redis, history
  <2>3. CASE Next
    BY <2>1, <2>3, BidsGoingOn, BidsSending, BidsElsewhere DEF Next, Elsewhere, BidInv
  <2> QED
    BY <2>2, <2>3
<1>3. BidInv => BidsComeFromTheRoom
  BY DEF BidInv
<1> QED
  BY <1>1, <1>2, <1>3, PTL DEF Spec


-----------------------------------------------------------------------------
(* Rooms and participants *)

\* A regular socket is in the room it is bound to only, and open; it is not in
\* a room before its user is known; and it is a participant exactly if it is in
\* the room and has a user.
Mirrored(s) ==
  /\ \A a \in Auctions : s \in rooms[a] => bound[s] = a /\ Open(s)
  /\ s \in pending \ known => \A a \in Auctions : s \notin rooms[a]
  /\ \A c \in Calls : calls[c].pc = "bid_user" /\ calls[c].socket = s => s \in known
  /\ \A a \in Auctions : status[a] # "cleaned" => (s \in people[a] <=> s \in rooms[a] /\ s \in known)

MirrorInv == failed \/ \A s \in Sockets \ (lapsed \cup odd) : Mirrored(s)

\* A handler that revalidates the user of a bid comes from the guard, or has
\* found the user known.
BidsHaveUsers(t) ==
  \A d \in Calls : calls'[d].pc = "bid_user" /\ calls'[d].socket = t =>
                     (calls[d].pc = "bid_user" /\ calls[d].socket = t) \/ t \in known'

LEMMA GoingToBid ==
  ASSUME TypeInv, NEW c \in Calls, Goes(c)
  PROVE  \A t \in Sockets : BidsHaveUsers(t)
<1>0. calls \in [Calls -> CallType] /\ calls[c] \in CallType /\ Hands(c, calls[c].socket)
  BY GoingOnHands DEF TypeInv, TypeOK
<1>1. ASSUME calls'[c].pc # "bid_user" PROVE \A t \in Sockets : BidsHaveUsers(t)
  BY <1>0, <1>1 DEF Hands, BidsHaveUsers
<1>2. ASSUME NEW call, call.pc # "bid_user", Await(c, call) \/ AwaitDb(c, call)
      PROVE  calls'[c].pc # "bid_user"
  BY <1>0, <1>2 DEF Await, AwaitDb
<1>3. Return(c) => calls'[c].pc # "bid_user"
  BY <1>0 DEF Return, Idle
<1>4. ASSUME NEW call \in CallType, call.pc # "bid_user", AsksCount(c, call)
      PROVE  calls'[c].pc # "bid_user"
  BY <1>2, <1>4 DEF AsksCount, CallType
<1>5. ASSUME NEW call \in CallType, call.pc # "bid_user", NEW p, NEW k, Writes(c, call, p, k)
      PROVE  calls'[c].pc # "bid_user"
  BY <1>2, <1>5 DEF Writes, CallType
<1>6. ASSUME NEW pc \in RedisSteps \cup {"rejoin_user"}
      PROVE  /\ \A ok \in BOOLEAN : [calls[c] EXCEPT !.pc = pc, !.ok = ok].pc # "bid_user"
             /\ [calls[c] EXCEPT !.pc = pc] \in CallType
             /\ [calls[c] EXCEPT !.pc = pc].pc # "bid_user"
  BY <1>0, <1>6 DEF CallType, RedisSteps, DbSteps
<1>7. ASSUME NEW pc \in RedisSteps, NEW ok \in BOOLEAN
      PROVE  [calls[c] EXCEPT !.pc = pc, !.ok = ok] \in CallType
  BY <1>0, <1>7 DEF CallType
<1>8. ASSUME NEW pc \in RedisSteps, NEW from \in Auctions \cup {Null}
      PROVE  LET next == [calls[c] EXCEPT !.pc = pc, !.from = from]
             IN  next \in CallType /\ next.pc # "bid_user"
  <2> DEFINE next == [calls[c] EXCEPT !.pc = pc, !.from = from]
  <2>1. next \in CallType
    BY <1>0, <1>8 DEF CallType
  <2>2. next.pc = pc /\ pc # "bid_user"
    BY <1>0, <1>8 DEF CallType, RedisSteps
  <2> QED
    BY <2>1, <2>2
<1>9. CASE \/ NotActive(c) \/ Ends(c) \/ PresenceUpdate(c) \/ StateSent(c) \/ GuardRefuses(c)
           \/ RevalidationFails(c) \/ BidChecked(c)
  BY <1>1, <1>3, <1>9 DEF NotActive, Ends, PresenceUpdate, StateSent, GuardRefuses, RevalidationFails, BidChecked
<1>10. CASE JoinLeavesPrevious(c)
  <2> DEFINE s == calls[c].socket
             next(pc) == [[calls[c] EXCEPT !.from = bound[s]] EXCEPT !.pc = pc]
  <2>1. s \in Sockets /\ bound[s] \in Auctions \cup {Null}
    BY <1>10, WhoseStep DEF JoinLeavesPrevious, Replied, TypeInv, TypeOK
  <2>2. \A pc \in RedisSteps : next(pc) \in CallType /\ next(pc).pc # "bid_user"
    BY <1>0, <2>1 DEF CallType, RedisSteps
  <2>3. CASE Removes(c, next("join_removing"), s, bound[s])
    BY <1>1, <1>5, <2>2, <2>3 DEF Removes, RedisSteps
  <2>4. CASE AsksCount(c, next("join_counting"))
    BY <1>1, <1>4, <2>2, <2>4 DEF RedisSteps
  <2> QED
    BY <1>10, <2>3, <2>4 DEF JoinLeavesPrevious
<1>11. CASE JoinCountsPrevious(c) \/ JoinEnters(c)
  BY <1>1, <1>3, <1>4, <1>5, <1>6, <1>11 DEF JoinCountsPrevious, JoinEnters, JoinsAsUser, Adds, RedisSteps
<1>12. CASE Announces(c)
  <2>1. calls[c].auction \in Auctions \cup {Null}
    BY <1>0 DEF CallType
  <2> QED
    BY <1>1, <1>4, <1>8, <1>12, <2>1 DEF Announces, RedisSteps
<1>13. CASE RejoinLooksUp(c)
  BY <1>1, <1>2, <1>6, <1>13 DEF RejoinLooksUp
<1>14. CASE RejoinsAsUser(c)
  BY <1>1, <1>5, <1>6, <1>7, <1>14 DEF RejoinsAsUser, Adds, RedisSteps
<1>15. CASE RejoinsAsGuest(c)
  BY <1>1, <1>2, <1>6, <1>15 DEF RejoinsAsGuest, RedisSteps
<1>16. CASE RejoinReads(c)
  BY <1>1, <1>2, <1>6, <1>16 DEF RejoinReads, RedisSteps
<1>17. CASE RevalidationThrows(c)
  <2> DEFINE s == calls[c].socket
             next == Call("removing", s, bound[s])
  <2>1. CASE Return(c)
    BY <1>1, <1>3, <2>1
  <2>2. CASE bound[s] # Null /\ Removes(c, next, s, bound[s])
    <3>1. next \in CallType /\ next.pc # "bid_user"
      <4>1. s \in Sockets
        BY <1>17, WhoseStep DEF RevalidationThrows
      <4>2. Sound(next)
        BY <2>2, <4>1, RemovingIsSound
      <4> QED
        BY <4>2 DEF Sound, Call, Idle
    <3> QED
      BY <1>1, <1>5, <2>2, <3>1 DEF Removes
  <2> QED
    BY <1>17, <2>1, <2>2 DEF RevalidationThrows, Leaves
<1>18. CASE BidReadsKey(c)
  <2> DEFINE s == calls[c].socket
  <2>1. ASSUME NEW v \in BOOLEAN, Await(c, [calls[c] EXCEPT !.pc = "bid_key", !.ok = v, !.auction = bound[s]])
        PROVE  calls'[c].pc # "bid_user"
    <3> DEFINE next == [calls[c] EXCEPT !.pc = "bid_key", !.ok = v, !.auction = bound[s]]
    <3>1. next.pc # "bid_user"
      BY <1>0 DEF CallType
    <3> HIDE DEF next
    <3>2. Await(c, next)
      BY <2>1 DEF next
    <3> QED
      BY <1>2, <3>1, <3>2
  <2> QED
    BY <1>1, <1>3, <1>18, <2>1 DEF BidReadsKey
<1>19. CASE GuardAdmits(c)
  BY <1>0, <1>19 DEF GuardAdmits, Hands, BidsHaveUsers
<1> QED
  BY <1>9, <1>10, <1>11, <1>12, <1>13, <1>14, <1>15, <1>16, <1>17, <1>18, <1>19 DEF Goes

LEMMA SendingToBid ==
  ASSUME TypeInv, NEW c \in Calls, NEW s \in Sockets, Sends(c, s)
  PROVE  \A t \in Sockets : BidsHaveUsers(t)
<1>0. calls \in [Calls -> CallType] /\ (UNCHANGED calls \/ Hands(c, s))
  BY SendingHands DEF TypeInv, TypeOK
<1>1. ASSUME calls'[c].pc # "bid_user" PROVE \A t \in Sockets : BidsHaveUsers(t)
  BY <1>0, <1>1 DEF Hands, BidsHaveUsers
<1>2. ASSUME NEW call, call.pc # "bid_user", Await(c, call)
      PROVE  calls'[c].pc # "bid_user"
  BY <1>0, <1>2 DEF Await
<1>3. ASSUME NEW pc, pc # "bid_user", NEW a
      PROVE  LET next == Call(pc, s, a)
             IN  next.pc # "bid_user" /\ \A ok \in BOOLEAN : [next EXCEPT !.ok = ok].pc # "bid_user"
  BY <1>3 DEF Call, Idle
<1>4. CASE \E a \in Auctions : JoinAsks(c, s, a) \/ RejoinAsks(c, s, a)
  BY <1>1, <1>2, <1>3, <1>4 DEF JoinAsks, RejoinAsks, AsksActive
<1>5. CASE \E a \in Auctions : LeaveRoom(c, s, a)
  <2>1. PICK a \in Auctions : LeaveRoom(c, s, a)
    BY <1>5
  <2>2. CASE UNCHANGED calls
    BY <2>2 DEF BidsHaveUsers
  <2>3. CASE Removes(c, Call("leaving", s, a), s, a)
    BY <1>1, <1>2, <1>3, <2>3 DEF Removes, Writes
  <2> QED
    BY <2>1, <2>2, <2>3 DEF LeaveRoom
<1>6. CASE StateAsked(c, s)
  BY <1>1, <1>2, <1>3, <1>6 DEF StateAsked
<1>7. CASE BidLooksUp(c, s)
  <2>1. CASE s \in known
    <3>1. known' = known
      BY <1>7 DEF BidLooksUp
    <3> QED
      BY <1>0, <2>1, <3>1 DEF Hands, BidsHaveUsers
  <2>2. CASE s \notin known
    <3> DEFINE next == [Call("bid_guard", s, Null) EXCEPT !.ok = s \notin revoked]
    <3>1. next.pc # "bid_user" /\ calls' = [calls EXCEPT ![c] = next]
      BY <1>3, <1>7, <2>2 DEF BidLooksUp, AwaitDb
    <3> HIDE DEF next
    <3> QED
      BY <1>0, <1>1, <3>1
  <2> QED
    BY <2>1, <2>2
<1>8. CASE Disconnect(c, s)
  <2>1. Return(c) => calls'[c].pc # "bid_user"
    BY <1>0 DEF Return, Idle
  <2>2. ASSUME NEW a, Removes(c, Call("removing", s, a), s, a)
        PROVE  calls'[c].pc # "bid_user"
    <3> DEFINE next == Call("removing", s, a)
               last == [next EXCEPT !.ok = FALSE]
    <3>1. next.pc # "bid_user" /\ last.pc # "bid_user"
      BY <1>3
    <3>2. Await(c, next) \/ Await(c, last)
      BY <2>2 DEF Removes, Writes
    <3> HIDE DEF next, last
    <3> QED
      BY <1>2, <3>1, <3>2
  <2> QED
    BY <1>1, <1>8, <2>1, <2>2 DEF Disconnect, Leaves
<1> QED
  BY <1>4, <1>5, <1>6, <1>7, <1>8 DEF Sends

\* A step that leaves socket t where it is.
LEMMA StaysMirrored ==
  ASSUME NEW t \in Sockets, Mirrored(t), BidsHaveUsers(t),
         link'[t] = link[t], bound'[t] = bound[t], t \in known' <=> t \in known,
         t \in pending' => t \in pending,
         \A a \in Auctions : t \in rooms'[a] <=> t \in rooms[a],
         \A a \in Auctions : status'[a] # "cleaned" =>
            status[a] # "cleaned" /\ (t \in people'[a] <=> t \in people[a])
  PROVE  Mirrored(t)'
BY DEF Mirrored, BidsHaveUsers, Open

\* What two commands leave in the participants hash, if none is refused.
LEMMA PeopleOfWrites ==
  ASSUME StateTypes, ~failed', NEW c, NEW call, NEW s \in Sockets, NEW a \in Auctions
  PROVE  /\ Removes(c, call, s, a) => people' = [people EXCEPT ![a] = @ \ {s}]
         /\ Adds(c, call, s, a) => people' = [people EXCEPT ![a] = @ \cup {s}]
BY DEF Removes, Adds, Writes

\* Entering a room.
LEMMA EnteringMirrors ==
  ASSUME StateTypes, MirrorInv, ~failed, ~failed', NEW c, NEW isUser \in BOOLEAN,
         NEW s \in Sockets, NEW a \in Auctions, s = calls[c].socket, a = calls[c].auction, Enters(c, isUser),
         \A t \in Sockets : BidsHaveUsers(t),
         UNCHANGED <<link, pending, status>>, lapsed \subseteq lapsed',
         \A t \in Sockets \ {s} : t \in known' <=> t \in known,
         isUser => s \in known' /\ people' = [people EXCEPT ![a] = @ \cup {s}],
         ~isUser => people' = people /\ s \notin known' /\ (s \in known => s \in lapsed')
  PROVE  MirrorInv'
<1>1. /\ \A t \in Sockets \ {s} : /\ bound'[t] = bound[t]
                                  /\ \A b \in Auctions : t \in rooms'[b] <=> t \in rooms[b]
      /\ bound'[s] = a /\ odd \subseteq odd'
      /\ s \notin odd' => /\ Open(s) /\ ~InOtherRoom(s, a) /\ (~isUser => s \notin pending)
                          /\ s \in rooms'[a]
      /\ \A b \in Auctions \ {a} : s \in rooms'[b] <=> s \in rooms[b]
  BY DEF Enters, StateTypes
<1>2. /\ \A t \in Sockets \ {s}, b \in Auctions : t \in people'[b] <=> t \in people[b]
      /\ \A b \in Auctions \ {a} : people'[b] = people[b]
      /\ s \in people'[a] <=> isUser \/ s \in people[a]
  BY DEF StateTypes
<1>3. ASSUME NEW t \in Sockets \ (lapsed' \cup odd'), t # s
      PROVE  Mirrored(t)'
  <2>1. Mirrored(t)
    BY <1>1, <1>3 DEF MirrorInv
  <2> QED
    BY <1>1, <1>2, <1>3, <2>1, StaysMirrored
<1>4. ASSUME s \notin lapsed' \cup odd'
      PROVE  Mirrored(s)'
  <2>1. Mirrored(s)
    BY <1>1, <1>4 DEF MirrorInv
  <2>2. \A b \in Auctions \ {a} : s \notin rooms[b] /\ s \notin rooms'[b]
    BY <1>1, <1>4 DEF InOtherRoom
  <2>3. \A b \in Auctions : s \in rooms'[b] => bound'[s] = b /\ Open(s)'
    BY <1>1, <1>4, <2>2 DEF Open
  <2>4. s \in pending' \ known' => \A b \in Auctions : s \notin rooms'[b]
    BY <1>1, <1>4
  <2>5. \A d \in Calls : calls'[d].pc = "bid_user" /\ calls'[d].socket = s => s \in known'
    BY <1>4, <2>1 DEF Mirrored, BidsHaveUsers
  <2>6. s \in known' => isUser
    OBVIOUS
  <2>7. \A b \in Auctions : status'[b] # "cleaned" => (s \in people'[b] <=> s \in rooms'[b] /\ s \in known')
    <3> SUFFICES ASSUME NEW b \in Auctions, status[b] # "cleaned"
                 PROVE  s \in people'[b] <=> s \in rooms'[b] /\ s \in known'
      OBVIOUS
    <3>1. s \in people[b] <=> s \in rooms[b] /\ s \in known
      BY <2>1 DEF Mirrored
    <3>2. CASE b # a
      BY <1>2, <2>2, <3>1, <3>2
    <3>3. CASE b = a /\ isUser
      BY <1>1, <1>2, <1>4, <3>3
    <3>4. CASE b = a /\ ~isUser
      BY <1>2, <1>4, <3>1, <3>4
    <3> QED
      BY <3>2, <3>3, <3>4
  <2> QED
    BY <2>3, <2>4, <2>5, <2>7 DEF Mirrored, Open
<1> QED
  BY <1>3, <1>4 DEF MirrorInv

\* A socket that closes, with the entries of its user.
LEMMA ClosingMirrors ==
  ASSUME StateTypes, MirrorInv, ~failed, ~failed', NEW c, NEW s \in Sockets, Closes(s),
         \A t \in Sockets : BidsHaveUsers(t),
         UNCHANGED <<pending, bound, status, odd>>, lapsed \subseteq lapsed',
         \A t \in Sockets \ {s} : t \in known' <=> t \in known,
         s \in known => s \in known' \/ s \in lapsed',
         s \in known' => s \in known,
         Leaves(c, s, s \in known) \/ (people' = people /\ (s \notin known \/ s \in lapsed'))
  PROVE  MirrorInv'
<1>1. /\ \A t \in Sockets \ {s} : /\ link'[t] = link[t]
                                  /\ \A b \in Auctions : t \in rooms'[b] <=> t \in rooms[b]
      /\ \A b \in Auctions : s \notin rooms'[b]
  BY DEF Closes, StateTypes
<1>2. /\ \A t \in Sockets \ {s}, b \in Auctions : t \in people'[b] <=> t \in people[b]
      /\ \A b \in Auctions : s \in people'[b] =>
            s \in people[b] /\ (s \in known /\ s \notin lapsed' => bound[s] # b)
  <2>1. CASE people' = people /\ (s \notin known \/ s \in lapsed')
    BY <2>1
  <2>2. CASE Leaves(c, s, s \in known)
    <3>1. CASE s \in known /\ bound[s] # Null
      <4>1. bound[s] \in Auctions /\ Removes(c, Call("removing", s, bound[s]), s, bound[s])
        BY <2>2, <3>1 DEF StateTypes, Leaves
      <4>2. people' = [people EXCEPT ![bound[s]] = @ \ {s}]
        <5> DEFINE next == Call("removing", s, bound[s])
        <5>1. Removes(c, next, s, bound[s])
          BY <4>1
        <5> HIDE DEF next
        <5> QED
          BY <5>1 DEF Removes, Writes
      <4> QED
        BY <4>1, <4>2 DEF StateTypes
    <3>2. CASE ~(s \in known /\ bound[s] # Null)
      <4>1. people' = people
        BY <2>2, <3>2 DEF Leaves, redis
      <4> QED
        BY <3>2, <4>1, RoomAssumption
    <3> QED
      BY <3>1, <3>2
  <2> QED
    BY <2>1, <2>2
<1>3. ASSUME NEW t \in Sockets \ (lapsed' \cup odd'), t # s
      PROVE  Mirrored(t)'
  <2>1. Mirrored(t)
    BY <1>3 DEF MirrorInv
  <2> QED
    BY <1>1, <1>2, <1>3, <2>1, StaysMirrored
<1>4. ASSUME s \notin lapsed' \cup odd'
      PROVE  Mirrored(s)'
  <2>1. Mirrored(s)
    BY <1>4 DEF MirrorInv
  <2>2. \A b \in Auctions : status'[b] # "cleaned" => s \notin people'[b]
    BY <1>2, <1>4, <2>1 DEF Mirrored
  <2> QED
    BY <1>1, <1>4, <2>1, <2>2 DEF Mirrored, BidsHaveUsers
<1> QED
  BY <1>3, <1>4 DEF MirrorInv

\* A socket that leaves the room it is in.
LEMMA LeavingMirrors ==
  ASSUME StateTypes, MirrorInv, ~failed, NEW s \in Sockets, NEW a \in Auctions,
         \A t \in Sockets : BidsHaveUsers(t),
         UNCHANGED <<link, pending, known, status, lapsed>>, odd \subseteq odd',
         rooms' = [rooms EXCEPT ![a] = @ \ {s}],
         \A t \in Sockets \ {s} : bound'[t] = bound[t],
         s \notin odd' => bound[s] \in {Null, a},
         s \in known => people' = [people EXCEPT ![a] = @ \ {s}],
         s \notin known => people' = people
  PROVE  MirrorInv'
<1>1. /\ \A t \in Sockets \ {s}, b \in Auctions : t \in rooms'[b] <=> t \in rooms[b]
      /\ \A t \in Sockets \ {s}, b \in Auctions : t \in people'[b] <=> t \in people[b]
      /\ \A b \in Auctions : s \in people'[b] => s \in people[b]
      /\ s \in known => s \notin people'[a]
      /\ \A b \in Auctions \ {a} : s \in people'[b] => s \in people[b]
      /\ s \notin rooms'[a] /\ \A b \in Auctions \ {a} : rooms'[b] = rooms[b]
  BY DEF StateTypes
<1>2. ASSUME NEW t \in Sockets \ (lapsed' \cup odd'), t # s
      PROVE  Mirrored(t)'
  <2>1. Mirrored(t)
    BY <1>2 DEF MirrorInv
  <2> QED
    BY <1>1, <1>2, <2>1, StaysMirrored
<1>3. ASSUME s \notin lapsed' \cup odd'
      PROVE  Mirrored(s)'
  <2>1. Mirrored(s)
    BY <1>3 DEF MirrorInv
  <2>2. \A b \in Auctions : s \notin rooms'[b] /\ (b # a => s \notin rooms[b])
    BY <1>1, <1>3, <2>1, RoomAssumption DEF Mirrored
  <2>3. \A b \in Auctions : status'[b] # "cleaned" => s \notin people'[b]
    BY <1>1, <2>1, <2>2 DEF Mirrored
  <2> QED
    BY <1>3, <2>1, <2>2, <2>3 DEF Mirrored, BidsHaveUsers
<1> QED
  BY <1>2, <1>3 DEF MirrorInv

\* A socket whose user becomes known: in no room yet, or known already.
LEMMA KnowingMirrors ==
  ASSUME MirrorInv, ~failed, NEW s \in Sockets,
         \A t \in Sockets : BidsHaveUsers(t),
         UNCHANGED <<link, bound, rooms, people, status>>, pending' \subseteq pending,
         lapsed \subseteq lapsed', odd \subseteq odd',
         known' = known \cup {s},
         s \notin odd' => s \in known \cup pending \/ bound[s] = Null
  PROVE  MirrorInv'
<1>1. ASSUME NEW t \in Sockets \ (lapsed' \cup odd'), t # s \/ t \in known
      PROVE  Mirrored(t)'
  <2>1. Mirrored(t)
    BY <1>1 DEF MirrorInv
  <2> QED
    BY <1>1, <2>1, StaysMirrored
<1>2. ASSUME s \notin lapsed' \cup odd', s \notin known
      PROVE  Mirrored(s)'
  <2>1. Mirrored(s)
    BY <1>2 DEF MirrorInv
  <2>2. \A a \in Auctions : s \notin rooms[a]
    BY <1>2, <2>1, RoomAssumption DEF Mirrored
  <2> QED
    BY <1>2, <2>1, <2>2 DEF Mirrored, Open
<1> QED
  BY <1>1, <1>2 DEF MirrorInv

\* A socket that loses its user is not regular any more.
LEMMA LosingMirrors ==
  ASSUME MirrorInv, ~failed, NEW s, LosesUser(s),
         \A t \in Sockets : BidsHaveUsers(t),
         UNCHANGED <<link, bound, rooms, people, status, odd>>, pending' \subseteq pending
  PROVE  MirrorInv'
<1>1. lapsed \subseteq lapsed' /\ \A t \in Sockets \ lapsed' : t \in known' <=> t \in known
  BY DEF LosesUser
<1>2. ASSUME NEW t \in Sockets \ (lapsed' \cup odd')
      PROVE  Mirrored(t)'
  <2>1. Mirrored(t)
    BY <1>1, <1>2 DEF MirrorInv
  <2> QED
    BY <1>1, <1>2, <2>1, StaysMirrored
<1> QED
  BY <1>2 DEF MirrorInv

\* A step that moves no socket.
LEMMA NobodyMoves ==
  ASSUME MirrorInv, ~failed, \A t \in Sockets : BidsHaveUsers(t),
         UNCHANGED <<link, bound, rooms, pending, known, people, status, lapsed, odd>>
  PROVE  MirrorInv'
<1>1. ASSUME NEW t \in Sockets \ (lapsed' \cup odd')
      PROVE  Mirrored(t)'
  <2>1. Mirrored(t)
    BY <1>1 DEF MirrorInv
  <2> QED
    BY <1>1, <2>1, StaysMirrored
<1> QED
  BY <1>1 DEF MirrorInv

\* A refused command is not forgotten.
LEMMA FailuresStay ==
  ASSUME [Next]_vars
  PROVE  failed => failed'
<1>1. \A c, call, p, k : Writes(c, call, p, k) => (failed => failed')
  BY DEF Writes
<1>2. \A c, call : AsksCount(c, call) => (failed => failed')
  BY DEF AsksCount, Reads
<1>3. \A c, s, u : Leaves(c, s, u) => (failed => failed')
  BY <1>1 DEF Leaves, Removes
<1>4. \A c, s, a, pc : AsksActive(c, s, a, pc) => (failed => failed')
  BY DEF AsksActive, Reads
<1>5. ASSUME NEW c \in Calls, Goes(c)
      PROVE  failed => failed'
  <2>1. CASE JoinLeavesPrevious(c) \/ JoinEnters(c) \/ RejoinsAsUser(c) \/ RevalidationThrows(c)
    BY <1>1, <1>2, <1>3, <2>1 DEF JoinLeavesPrevious, JoinEnters, RejoinsAsUser, RevalidationThrows,
       JoinsAsUser, Adds, Removes
  <2>2. CASE JoinCountsPrevious(c) \/ Announces(c) \/ BidReadsKey(c)
    BY <1>2, <2>2 DEF JoinCountsPrevious, Announces, BidReadsKey, Reads
  <2>3. CASE \/ NotActive(c) \/ Ends(c) \/ PresenceUpdate(c) \/ RejoinLooksUp(c) \/ RejoinsAsGuest(c)
             \/ RejoinReads(c) \/ StateSent(c) \/ GuardAdmits(c) \/ GuardRefuses(c)
             \/ RevalidationFails(c) \/ BidChecked(c)
    BY <2>3 DEF NotActive, Ends, PresenceUpdate, RejoinLooksUp, RejoinsAsGuest, RejoinReads, StateSent,
       GuardAdmits, GuardRefuses, RevalidationFails, BidChecked, history
  <2> QED
    BY <1>5, <2>1, <2>2, <2>3 DEF Goes
<1>6. ASSUME NEW c \in Calls, NEW s \in Sockets, Sends(c, s)
      PROVE  failed => failed'
  BY <1>1, <1>3, <1>4, <1>6 DEF Sends, JoinAsks, LeaveRoom, RejoinAsks, StateAsked, BidLooksUp, Disconnect,
     Removes, history
<1>7. CASE Elsewhere \/ UNCHANGED vars
  BY <1>7 DEF Elsewhere, Connect, Identify, ConnectAsGuest, Revoke, KeyExpires, AuctionExpires,
     CleanupAuction, history, vars
<1> QED
  BY <1>5, <1>6, <1>7 DEF Next, Elsewhere

LEMMA MirrorGoingOn ==
  ASSUME TypeInv, ToldInv, MirrorInv, NEW c \in Calls, Goes(c)
  PROVE  MirrorInv'
<1> SUFFICES ASSUME ~failed' PROVE MirrorInv'
  BY DEF MirrorInv
<1>0. /\ StateTypes /\ ~failed
      /\ \A t \in Sockets : BidsHaveUsers(t)
      /\ calls[c].from \in Auctions \cup {Null}
      /\ known \subseteq known' \cup lapsed' /\ lapsed \subseteq lapsed'
  BY FailuresStay, GoingToBid, UsersStay, WhoseStep DEF Next, TypeInv, TypeOK, StateTypes
<1>a. \A pc \in RedisSteps : Replied(c, pc) => calls[c].socket \in Sockets /\ calls[c].auction \in Auctions
  BY WhoseStep DEF Replied, RedisSteps
<1>b. calls[c].pc \in DbSteps => calls[c].socket \in Sockets
  BY WhoseStep DEF DbSteps
<1>1. CASE \/ NotActive(c) \/ JoinCountsPrevious(c) \/ Announces(c) \/ Ends(c) \/ PresenceUpdate(c)
           \/ RejoinLooksUp(c) \/ RejoinReads(c) \/ StateSent(c) \/ GuardRefuses(c) \/ BidChecked(c)
  <2>1. UNCHANGED <<link, bound, rooms, pending, known, people, status, lapsed, odd>>
    BY <1>1 DEF NotActive, JoinCountsPrevious, Announces, Ends, PresenceUpdate, RejoinLooksUp,
       RejoinReads, StateSent, GuardRefuses, BidChecked, local, redis, history
  <2> QED
    BY <1>0, <2>1, NobodyMoves
<1>2. ASSUME JoinLeavesPrevious(c)
      PROVE  MirrorInv'
  <2>1. PICK s \in Sockets : s = calls[c].socket
    BY <1>2, <1>a DEF JoinLeavesPrevious, RedisSteps
  <2>2. PICK a \in Auctions : a = bound[s]
    BY <1>0, <1>2, <2>1 DEF JoinLeavesPrevious, StateTypes
  <2>3. /\ rooms' = [rooms EXCEPT ![a] = @ \ {s}]
        /\ UNCHANGED <<link, pending, known, bound, status, lapsed, odd>>
    BY <1>2, <2>1, <2>2 DEF JoinLeavesPrevious
  <2>4. s \in known => people' = [people EXCEPT ![a] = @ \ {s}]
    BY <1>2, <2>1, <2>2 DEF JoinLeavesPrevious, Removes, Writes
  <2>5. s \notin known => people' = people
    BY <1>2, <2>1 DEF JoinLeavesPrevious, redis
  <2> QED
    BY <1>0, <2>1, <2>2, <2>3, <2>4, <2>5, LeavingMirrors
<1>3. ASSUME JoinEnters(c)
      PROVE  MirrorInv'
  <2>1. PICK s \in Sockets : s = calls[c].socket
    BY <1>3, <1>a DEF JoinEnters, RedisSteps
  <2>2. PICK a \in Auctions : a = calls[c].auction
    BY <1>3, <1>a DEF JoinEnters, RedisSteps
  <2>3. UNCHANGED <<link, pending, known, status, lapsed>>
    BY <1>3 DEF JoinEnters
  <2>4. CASE s \in known
    <3>1. Enters(c, TRUE)
      BY <1>3, <2>1, <2>4 DEF JoinEnters, JoinsAsUser
    <3>2. people' = [people EXCEPT ![a] = @ \cup {s}]
      BY <1>3, <2>1, <2>2, <2>4 DEF JoinEnters, JoinsAsUser, Adds, Writes
    <3> QED
      BY <1>0, <2>1, <2>2, <2>3, <2>4, <3>1, <3>2, EnteringMirrors
  <2>5. CASE s \notin known
    <3>1. Enters(c, FALSE) /\ people' = people
      BY <1>3, <2>1, <2>5 DEF JoinEnters, redis
    <3> QED
      BY <1>0, <2>1, <2>2, <2>3, <2>5, <3>1, EnteringMirrors
  <2> QED
    BY <2>4, <2>5
<1>4. ASSUME RejoinsAsUser(c)
      PROVE  MirrorInv'
  <2>1. PICK s \in Sockets : s = calls[c].socket
    BY <1>4, <1>b DEF RejoinsAsUser, DbSteps
  <2>2. PICK a \in Auctions : a = calls[c].auction
    BY <1>4, WhoseStep DEF RejoinsAsUser
  <2>3. Enters(c, TRUE) /\ known' = known \cup {s} /\ UNCHANGED <<link, pending, status>>
    BY <1>4, <2>1 DEF RejoinsAsUser
  <2>4. people' = [people EXCEPT ![a] = @ \cup {s}]
    BY <1>4, <2>1, <2>2 DEF RejoinsAsUser, Adds, Writes
  <2>5. s \in known' /\ \A t \in Sockets \ {s} : t \in known' <=> t \in known
    BY <2>3
  <2> QED
    BY <1>0, <2>1, <2>2, <2>3, <2>4, <2>5, EnteringMirrors
<1>5. ASSUME RejoinsAsGuest(c)
      PROVE  MirrorInv'
  <2>1. PICK s \in Sockets : s = calls[c].socket
    BY <1>5, <1>a, <1>b DEF RejoinsAsGuest, RedisSteps, DbSteps
  <2>2. PICK a \in Auctions : a = calls[c].auction
    BY <1>5, <1>a, WhoseStep DEF RejoinsAsGuest, RedisSteps
  <2>3. Enters(c, FALSE) /\ people' = people /\ UNCHANGED <<link, pending, status>>
    BY <1>5 DEF RejoinsAsGuest, redis
  <2>4. /\ s \notin known' /\ (s \in known => s \in lapsed')
        /\ \A t \in Sockets \ {s} : t \in known' <=> t \in known
    BY <1>5, <2>1 DEF RejoinsAsGuest, LosesUser, ToldInv
  <2> QED
    BY <1>0, <2>1, <2>2, <2>3, <2>4, EnteringMirrors
<1>6. ASSUME GuardAdmits(c)
      PROVE  MirrorInv'
  <2>1. PICK s \in Sockets : s = calls[c].socket
    BY <1>6, <1>b DEF GuardAdmits, DbSteps
  <2>2. /\ known' = known \cup {s} /\ odd \subseteq odd'
        /\ s \notin odd' => s \in known \/ bound[s] = Null
        /\ UNCHANGED <<link, bound, rooms, people, status, pending>>
    BY <1>6, <2>1 DEF GuardAdmits, local, redis
  <2> QED
    BY <1>0, <2>2, KnowingMirrors
<1>7. ASSUME BidReadsKey(c)
      PROVE  MirrorInv'
  <2>1. PICK s \in Sockets : s = calls[c].socket
    BY <1>7, <1>b DEF BidReadsKey, DbSteps
  <2>2. known' = known \cup {s} /\ UNCHANGED <<link, bound, rooms, people, status, pending, lapsed, odd>>
    BY <1>7, <2>1 DEF BidReadsKey, local, redis
  <2>3. CASE s \in lapsed \cup odd
    <3>1. ASSUME NEW t \in Sockets \ (lapsed' \cup odd')
          PROVE  Mirrored(t)'
      <4>1. Mirrored(t) /\ t # s
        BY <1>0, <2>2, <2>3, <3>1 DEF MirrorInv
      <4> QED
        BY <1>0, <2>2, <3>1, <4>1, StaysMirrored
    <3> QED
      BY <3>1 DEF MirrorInv
  <2>4. CASE s \notin lapsed \cup odd
    <3>1. s \in known
      BY <1>0, <1>7, <2>1, <2>4 DEF MirrorInv, Mirrored, BidReadsKey
    <3> QED
      BY <1>0, <2>2, <3>1, KnowingMirrors
  <2> QED
    BY <2>3, <2>4
<1>8. ASSUME RevalidationFails(c)
      PROVE  MirrorInv'
  <2>1. PICK s \in Sockets : s = calls[c].socket
    BY <1>8, <1>b DEF RevalidationFails, DbSteps
  <2>2. LosesUser(s) /\ UNCHANGED <<pending, bound, people, status, odd>>
    BY <1>8, <2>1 DEF RevalidationFails, redis
  <2>3. CASE Closes(s)
    <3>1. /\ \A t \in Sockets \ {s} : t \in known' <=> t \in known
          /\ s \notin known' /\ (s \in known => s \in lapsed')
      BY <2>2 DEF LosesUser
    <3> QED
      BY <1>0, <2>2, <2>3, <3>1, ClosingMirrors
  <2>4. CASE UNCHANGED <<link, rooms>>
    BY <1>0, <2>2, <2>4, LosingMirrors
  <2> QED
    BY <1>8, <2>1, <2>3, <2>4 DEF RevalidationFails
<1>9. ASSUME RevalidationThrows(c)
      PROVE  MirrorInv'
  <2>1. PICK s \in Sockets : s = calls[c].socket
    BY <1>9, <1>b DEF RevalidationThrows, DbSteps
  <2>2. UNCHANGED <<pending, known, bound, status, lapsed, odd>>
    BY <1>9 DEF RevalidationThrows
  <2>3. CASE Closes(s) /\ Leaves(c, s, s \in known)
    BY <1>0, <2>2, <2>3, ClosingMirrors
  <2>4. CASE UNCHANGED <<link, rooms, redis>>
    BY <1>0, <2>2, <2>4, NobodyMoves DEF redis
  <2> QED
    BY <1>9, <2>1, <2>3, <2>4 DEF RevalidationThrows
<1> QED
  BY <1>1, <1>2, <1>3, <1>4, <1>5, <1>6, <1>7, <1>8, <1>9 DEF Goes

LEMMA MirrorSending ==
  ASSUME TypeInv, MirrorInv, NEW c \in Calls, NEW s \in Sockets, Sends(c, s)
  PROVE  MirrorInv'
<1> SUFFICES ASSUME ~failed' PROVE MirrorInv'
  BY DEF MirrorInv
<1>0. StateTypes /\ ~failed /\ \A t \in Sockets : BidsHaveUsers(t)
  BY FailuresStay, SendingToBid DEF Next, TypeInv, TypeOK, StateTypes
<1>1. CASE (\E a \in Auctions : JoinAsks(c, s, a) \/ RejoinAsks(c, s, a)) \/ StateAsked(c, s) \/ BidLooksUp(c, s)
  <2>1. UNCHANGED <<link, bound, rooms, pending, known, people, status, lapsed, odd>>
    BY <1>1 DEF JoinAsks, RejoinAsks, StateAsked, BidLooksUp, local, redis, history
  <2> QED
    BY <1>0, <2>1, NobodyMoves
<1>2. ASSUME NEW a \in Auctions, LeaveRoom(c, s, a)
      PROVE  MirrorInv'
  <2>1. /\ rooms' = [rooms EXCEPT ![a] = @ \ {s}]
        /\ \A t \in Sockets \ {s} : bound'[t] = bound[t]
        /\ odd \subseteq odd' /\ (s \notin odd' => bound[s] \in {Null, a})
        /\ UNCHANGED <<link, pending, known, status, lapsed>>
    BY <1>0, <1>2 DEF LeaveRoom, StateTypes
  <2>2. s \in known => people' = [people EXCEPT ![a] = @ \ {s}]
    BY <1>2 DEF LeaveRoom, Removes, Writes
  <2>3. s \notin known => people' = people
    BY <1>2 DEF LeaveRoom, redis
  <2> QED
    BY <1>0, <2>1, <2>2, <2>3, LeavingMirrors
<1>3. CASE Disconnect(c, s)
  <2>1. /\ Closes(s) /\ Leaves(c, s, s \in known)
        /\ UNCHANGED <<pending, known, bound, status, lapsed, odd>>
    BY <1>3 DEF Disconnect
  <2> QED
    BY <1>0, <2>1, ClosingMirrors
<1> QED
  BY <1>1, <1>2, <1>3 DEF Sends

LEMMA MirrorElsewhere ==
  ASSUME TypeInv, MirrorInv, Elsewhere
  PROVE  MirrorInv'
<1> SUFFICES ASSUME ~failed' PROVE MirrorInv'
  BY DEF MirrorInv
<1>0. StateTypes /\ ~failed /\ UNCHANGED calls
  BY ElsewhereIsTyped DEF TypeInv, TypeOK, StateTypes
<1>b. \A t \in Sockets : BidsHaveUsers(t)
  BY <1>0 DEF BidsHaveUsers
<1>1. ASSUME NEW s \in Sockets, Connect(s)
      PROVE  MirrorInv'
  <2>1. /\ link[s] = "off" /\ \A t \in Sockets \ {s} : link'[t] = link[t] /\ (t \in pending' => t \in pending)
        /\ UNCHANGED <<bound, rooms, known, people, status, lapsed, odd>>
    BY <1>0, <1>1 DEF Connect, StateTypes, local, redis, history
  <2>2. ASSUME NEW t \in Sockets \ (lapsed' \cup odd'), t # s
        PROVE  Mirrored(t)'
    <3>1. Mirrored(t)
      BY <1>0, <2>1, <2>2 DEF MirrorInv
    <3> QED
      BY <1>b, <2>1, <2>2, <3>1, StaysMirrored
  <2>3. ASSUME s \notin lapsed' \cup odd'
        PROVE  Mirrored(s)'
    <3>1. Mirrored(s)
      BY <1>0, <2>1, <2>3 DEF MirrorInv
    <3>2. \A a \in Auctions : s \notin rooms[a]
      BY <2>1, <3>1 DEF Mirrored, Open
    <3> QED
      BY <1>0, <2>1, <3>1, <3>2 DEF Mirrored
  <2> QED
    BY <2>2, <2>3 DEF MirrorInv
<1>2. ASSUME NEW s \in Sockets, Identify(s)
      PROVE  MirrorInv'
  <2>1. /\ known' = known \cup {s} /\ s \in pending /\ pending' \subseteq pending
        /\ UNCHANGED <<link, bound, rooms, people, status, lapsed, odd>>
    BY <1>2 DEF Identify, redis, history
  <2> QED
    BY <1>0, <1>b, <2>1, KnowingMirrors
<1>3. ASSUME NEW s \in Sockets, ConnectAsGuest(s)
      PROVE  MirrorInv'
  <2>1. LosesUser(s) /\ pending' \subseteq pending /\ UNCHANGED <<link, bound, rooms, people, status, odd>>
    BY <1>3 DEF ConnectAsGuest, local, redis
  <2> QED
    BY <1>0, <1>b, <2>1, LosingMirrors
<1>4. ASSUME NEW s \in Sockets, Revoke(s) \/ KeyExpires(s)
      PROVE  MirrorInv'
  <2>1. UNCHANGED <<link, bound, rooms, pending, known, people, status, lapsed, odd>>
    BY <1>4 DEF Revoke, KeyExpires, local, redis, history
  <2> QED
    BY <1>0, <1>b, <2>1, NobodyMoves
<1>5. ASSUME NEW a \in Auctions, AuctionExpires(a) \/ CleanupAuction(a)
      PROVE  MirrorInv'
  <2>1. /\ UNCHANGED <<link, bound, rooms, pending, known, lapsed, odd>>
        /\ \A b \in Auctions : status'[b] # "cleaned" => status[b] # "cleaned" /\ people'[b] = people[b]
    BY <1>0, <1>5 DEF AuctionExpires, CleanupAuction, StateTypes, local, redis, history
  <2>2. ASSUME NEW t \in Sockets \ (lapsed' \cup odd')
        PROVE  Mirrored(t)'
    <3>1. Mirrored(t)
      BY <1>0, <2>1, <2>2 DEF MirrorInv
    <3> QED
      BY <1>b, <2>1, <2>2, <3>1, StaysMirrored
  <2> QED
    BY <2>2 DEF MirrorInv
<1> QED
  BY <1>1, <1>2, <1>3, <1>4, <1>5 DEF Elsewhere

\* In quiet moments the participants of a running auction are the users in its
\* room, for any number of sockets, auctions and overlapping handlers.
THEOREM RoomIsMirrored == Spec => []RoomMirrorsHash
<1>1. Init => TypeInv /\ ToldInv /\ MirrorInv
  <2>1. Init => /\ \A a \in Auctions, s \in Sockets : s \notin rooms[a] /\ s \notin people[a]
                /\ \A c \in Calls : calls[c].pc = "idle"
    BY IdleIsSound DEF Init
  <2>2. Init => MirrorInv
    BY <2>1 DEF MirrorInv, Mirrored
  <2>3. Init => ToldInv
    BY DEF Init, ToldInv, Open
  <2> QED
    BY <2>2, <2>3, InitIsTyped
<1>2. TypeInv /\ ToldInv /\ MirrorInv /\ [Next]_vars => (TypeInv /\ ToldInv /\ MirrorInv)'
  <2> SUFFICES ASSUME TypeInv, ToldInv, MirrorInv, [Next]_vars PROVE TypeInv' /\ ToldInv' /\ MirrorInv'
    OBVIOUS
  <2>1. TypeInv' /\ ToldInv'
    BY TypeStep, ToldStep
  <2>2. CASE UNCHANGED vars
    BY <2>1, <2>2 DEF MirrorInv, Mirrored, Open, vars, local, redis, history
  <2>3. CASE Next
    BY <2>1, <2>3, MirrorGoingOn, MirrorSending, MirrorElsewhere DEF Next, Elsewhere
  <2> QED
    BY <2>2, <2>3
<1>3. MirrorInv => RoomMirrorsHash
  BY DEF MirrorInv, Mirrored, RoomMirrorsHash
<1> QED
  BY <1>1, <1>2, <1>3, PTL DEF Spec

-----------------------------------------------------------------------------
(* Presence *)

\* A handler between the change of the participants and the count.
Announcing == {"entering", "leaving", "removing", "rejoining", "rejoin_reading"}

\* A handler that will ask for the count of a.
Owes(c, a) ==
  \/ calls[c].pc = "removing" /\ calls[c].auction = a
  \/ calls[c].pc \in Announcing /\ calls[c].auction = a /\ calls[c].socket \in known
  \/ calls[c].pc = "join_removing" /\ calls[c].from = a

\* One, of the handlers hs, that has asked for it and will tell the room.
TellsOf(hs, c, a) == hs[c].pc \in {"counting", "join_counting"} /\ hs[c].from = a
Tells(c, a) == TellsOf(calls, c, a)

\* The last of queue q to tell the room of a says n; if none will, the room
\* was told so.
SaysLast(hs, q, told, a, n) ==
  \/ \E i \in 1 .. Len(q) : /\ TellsOf(hs, q[i], a) /\ hs[q[i]].count = n
                            /\ \A j \in 1 .. Len(q) : j > i => ~TellsOf(hs, q[j], a)
  \/ told = n /\ \A i \in 1 .. Len(q) : ~TellsOf(hs, q[i], a)

ToldLast(a) == SaysLast(calls, replies, shown[a], a, Count(a))
Settles(a) == (\E c \in Calls : Owes(c, a)) \/ ToldLast(a)

\* Without faults: no handler that owes a count gives up, and unless one does
\* the last to tell a room has read the participants as they are now.
PresenceInv ==
  ~failed /\ lapsed = {} =>
    /\ \A c \in Calls : calls[c].pc \in Announcing \cup {"join_removing", "join_counting"} => calls[c].ok
    /\ \A a \in Auctions : status[a] # "cleaned" => Settles(a)

\* Queue r is q without c, which was its first or not in it.
Without(q, r, c, k) ==
  /\ q \in Seq(Calls) /\ r \in Seq(Calls) /\ k \in {0, 1} /\ Len(r) = Len(q) - k
  /\ \A i \in 1 .. Len(r) : r[i] = q[i + k] /\ r[i] # c
  /\ k = 1 => q[1] = c

LEMMA RestIsWithout ==
  ASSUME CallsInv, NEW c \in Calls, Ready(c)
  PROVE  \E k \in {0, 1} : /\ Without(replies, Rest(c), c, k)
                           /\ replies # <<>> /\ Head(replies) = c => k = 1
<1> DEFINE r == Rest(c)
<1>0. replies \in Seq(Calls) /\ r \in Seq(Calls) /\ \A i \in 1 .. Len(r) : r[i] # c
  BY RestIsOnce DEF CallsInv, In
<1>1. CASE replies # <<>> /\ Head(replies) = c
  <2>1. r = Tail(replies) /\ Len(r) = Len(replies) - 1 /\ \A i \in 1 .. Len(r) : r[i] = replies[i + 1]
    BY <1>0, <1>1 DEF Rest
  <2> HIDE DEF r
  <2>2. Without(replies, r, c, 1)
    BY <1>0, <1>1, <2>1 DEF Without
  <2> QED
    BY <2>2 DEF r
<1>2. CASE ~(replies # <<>> /\ Head(replies) = c)
  <2>1. r = replies
    BY <1>2 DEF Rest
  <2> HIDE DEF r
  <2>2. Without(replies, r, c, 0)
    BY <1>0, <2>1 DEF Without
  <2> QED
    BY <1>2, <2>2 DEF r
<1> QED
  BY <1>1, <1>2

\* What is said last stays what it was after the first of the queue has told
\* the room, or when a handler that tells it nothing leaves or goes to the end.
SameWord(hs, q, c, k, a, was, told, n) ==
  /\ SaysLast(hs, q, was, a, n)
  /\ \/ ~TellsOf(hs, c, a) /\ told = was
     \/ TellsOf(hs, c, a) /\ told = hs[c].count /\ k = 1

Follows(hs, hs2, q, q2, r, c, k, a) ==
  /\ Without(q, r, c, k) /\ q2 \in {r, Append(r, c)}
  /\ ~TellsOf(hs2, c, a) /\ \A d \in Calls \ {c} : hs2[d] = hs[d]

LEMMA SaysTheSame ==
  ASSUME NEW hs, NEW hs2, NEW q, NEW q2, NEW r, NEW c, NEW k, NEW a,
         Follows(hs, hs2, q, q2, r, c, k, a),
         NEW was, NEW told, NEW n, SameWord(hs, q, c, k, a, was, told, n)
  PROVE  SaysLast(hs2, q2, told, a, n)
<1>0. /\ q \in Seq(Calls) /\ r \in Seq(Calls) /\ k \in {0, 1}
      /\ Len(q) \in Nat /\ Len(r) \in Nat /\ Len(r) = Len(q) - k
      /\ \A i \in 1 .. Len(r) : r[i] = q[i + k] /\ r[i] # c /\ r[i] \in Calls
      /\ k = 1 => q[1] = c
      /\ q2 \in {r, Append(r, c)} /\ ~TellsOf(hs2, c, a)
      /\ \A d \in Calls \ {c} : hs2[d] = hs[d]
  BY DEF Without, Follows
<1>1. \A i \in 1 .. Len(r) : /\ TellsOf(hs2, r[i], a) <=> TellsOf(hs, q[i + k], a)
                             /\ hs2[r[i]] = hs[q[i + k]]
  BY <1>0 DEF TellsOf
<1>2. \A j \in 1 .. Len(q2) : (j \in 1 .. Len(r) /\ q2[j] = r[j]) \/ ~TellsOf(hs2, q2[j], a)
  <2>1. CASE q2 = r
    BY <1>0, <2>1
  <2>2. CASE q2 = Append(r, c)
    <3>1. Len(q2) = Len(r) + 1 /\ q2[Len(r) + 1] = c /\ \A j \in 1 .. Len(r) : q2[j] = r[j]
      BY <1>0, <2>2
    <3> QED
      BY <1>0, <3>1
  <2> QED
    BY <1>0, <2>1, <2>2
<1>3. Len(q2) \in Nat /\ Len(q2) >= Len(r) /\ \A i \in 1 .. Len(r) : q2[i] = r[i]
  <2>1. CASE q2 = r
    BY <1>0, <2>1
  <2>2. CASE q2 = Append(r, c)
    <3>1. Len(q2) = Len(r) + 1 /\ \A j \in 1 .. Len(r) : q2[j] = r[j]
      BY <1>0, <2>2
    <3> QED
      BY <1>0, <3>1
  <2> QED
    BY <1>0, <2>1, <2>2
\* One that stays in the queue has the last word.
<1>4. ASSUME NEW i \in 1 .. Len(q), i > k, TellsOf(hs, q[i], a), hs[q[i]].count = n,
             \A j \in 1 .. Len(q) : j > i => ~TellsOf(hs, q[j], a)
      PROVE  SaysLast(hs2, q2, told, a, n)
  <2> DEFINE x == i - k
  <2>1. x \in 1 .. Len(r) /\ x \in 1 .. Len(q2) /\ x + k = i /\ q2[x] = r[x]
    BY <1>0, <1>3, <1>4
  <2>2. TellsOf(hs2, q2[x], a) /\ hs2[q2[x]].count = n
    BY <1>1, <1>4, <2>1
  <2>3. ASSUME NEW j \in 1 .. Len(q2), j > x PROVE ~TellsOf(hs2, q2[j], a)
    <3>1. CASE j \in 1 .. Len(r) /\ q2[j] = r[j]
      <4>1. j + k \in 1 .. Len(q) /\ j + k > i
        BY <1>0, <2>1, <2>3, <3>1
      <4> QED
        BY <1>1, <1>4, <3>1, <4>1
    <3> QED
      BY <1>2, <3>1
  <2> HIDE DEF x
  <2> QED
    BY <2>1, <2>2, <2>3 DEF SaysLast
\* Nobody who stays has anything to say.
<1>5. ASSUME told = n, \A j \in 1 .. Len(q) : j > k => ~TellsOf(hs, q[j], a)
      PROVE  SaysLast(hs2, q2, told, a, n)
  <2>1. ASSUME NEW j \in 1 .. Len(q2) PROVE ~TellsOf(hs2, q2[j], a)
    <3>1. CASE j \in 1 .. Len(r) /\ q2[j] = r[j]
      <4>1. j + k \in 1 .. Len(q) /\ j + k > k
        BY <1>0, <3>1
      <4> QED
        BY <1>1, <1>5, <3>1, <4>1
    <3> QED
      BY <1>2, <3>1
  <2> QED
    BY <1>5, <2>1 DEF SaysLast
<1>6. CASE ~TellsOf(hs, c, a) /\ SaysLast(hs, q, told, a, n)
  <2>1. \A i \in 1 .. Len(q) : TellsOf(hs, q[i], a) => i > k
    BY <1>0, <1>6
  <2> QED
    BY <1>4, <1>5, <1>6, <2>1 DEF SaysLast
<1>7. CASE k = 1 /\ told = hs[c].count /\ TellsOf(hs, c, a) /\ SaysLast(hs, q, was, a, n)
  <2>1. 1 \in 1 .. Len(q) /\ q[1] = c
    BY <1>0, <1>7
  <2>2. PICK i \in 1 .. Len(q) : /\ TellsOf(hs, q[i], a) /\ hs[q[i]].count = n
                                 /\ \A j \in 1 .. Len(q) : j > i => ~TellsOf(hs, q[j], a)
    BY <1>7, <2>1 DEF SaysLast
  <2>3. CASE i = 1
    BY <1>5, <1>7, <2>1, <2>2, <2>3
  <2>4. CASE i # 1
    BY <1>4, <1>7, <2>2, <2>4
  <2> QED
    BY <2>3, <2>4
<1> QED
  BY <1>6, <1>7 DEF SameWord

\* A handler that goes to the end of the queue to tell the room has the last word.
LEMMA SaysItLast ==
  ASSUME NEW r \in Seq(Calls), NEW c \in Calls, NEW hs, NEW a, TellsOf(hs, c, a), NEW told
  PROVE  SaysLast(hs, Append(r, c), told, a, hs[c].count)
<1> DEFINE q == Append(r, c)
<1>1. Len(q) = Len(r) + 1 /\ Len(r) \in Nat /\ q[Len(r) + 1] = c
  OBVIOUS
<1> HIDE DEF q
<1>2. Len(q) \in 1 .. Len(q) /\ q[Len(q)] = c /\ \A j \in 1 .. Len(q) : ~(j > Len(q))
  BY <1>1
<1>3. SaysLast(hs, q, told, a, hs[c].count)
  BY <1>2 DEF SaysLast
<1> QED
  BY <1>3 DEF q

\* Handler c leaves the queue, or goes to its end; the others stay as they are.
Queues(c) ==
  /\ Ready(c) /\ \A d \in Calls \ {c} : calls'[d] = calls[d]
  /\ replies' \in {Rest(c), Append(Rest(c), c)}

\* What a step of handler c has to do with the presence in a: it changes the
\* participants and owes their number; it asks for it; it has nothing to do with
\* it; or it tells the room.
Owing(c, a) == Owes(c, a)'
Asking(c, a) == Tells(c, a)' /\ calls'[c].count = Count(a)' /\ replies' = Append(Rest(c), c)
Neutral(c, a) == /\ ~Owes(c, a) /\ ~Tells(c, a) /\ ~Tells(c, a)'
                 /\ people'[a] = people[a] /\ shown'[a] = shown[a]
Telling(c, a) == /\ Tells(c, a) /\ ~Tells(c, a)' /\ replies # <<>> /\ Head(replies) = c
                 /\ people'[a] = people[a] /\ shown'[a] = calls[c].count
Regards(c, a) == Owing(c, a) \/ Asking(c, a) \/ Neutral(c, a) \/ Telling(c, a)

LEMMA SettlesOn ==
  ASSUME CallsInv, NEW c \in Calls, NEW a \in Auctions, Queues(c), Regards(c, a),
         known \subseteq known', Settles(a)
  PROVE  Settles(a)'
<1>1. CASE \E d \in Calls \ {c} : Owes(d, a)
  <2>1. PICK d \in Calls \ {c} : Owes(d, a)
    BY <1>1
  <2>2. Owes(d, a)'
    BY <2>1 DEF Owes, Queues
  <2> QED
    BY <2>2 DEF Settles
<1>2. CASE Owing(c, a)
  BY <1>2 DEF Owing, Settles
<1>3. PICK k \in {0, 1} : /\ Without(replies, Rest(c), c, k)
                          /\ replies # <<>> /\ Head(replies) = c => k = 1
  BY RestIsWithout DEF Queues
<1>4. CASE Asking(c, a)
  <2>1. SaysLast(calls', Append(Rest(c), c), shown'[a], a, calls'[c].count)
    BY <1>3, <1>4, SaysItLast DEF Without, Asking, Tells
  <2>2. ToldLast(a)'
    BY <1>4, <2>1 DEF ToldLast, Asking
  <2> QED
    BY <2>2 DEF Settles
<1>5. ASSUME people'[a] = people[a]
      PROVE  Count(a)' = Count(a)
  BY <1>5 DEF Count
<1>6. CASE Neutral(c, a) /\ ~\E d \in Calls \ {c} : Owes(d, a)
  <2>1. SaysLast(calls, replies, shown'[a], a, Count(a))
    BY <1>6 DEF Neutral, Settles, ToldLast
  <2>2. SaysLast(calls', replies', shown'[a], a, Count(a))
    <3> DEFINE r == Rest(c)
               hs == calls
               hs2 == calls'
               q == replies
               q2 == replies'
               told == shown'[a]
               n == Count(a)
    <3>1. Follows(hs, hs2, q, q2, r, c, k, a) /\ SameWord(hs, q, c, k, a, told, told, n)
      BY <1>3, <1>6, <2>1 DEF Neutral, Tells, Queues, Follows, SameWord
    <3> HIDE DEF r, hs, hs2, q, q2, told, n
    <3>2. SaysLast(hs2, q2, told, a, n)
      BY <3>1, SaysTheSame
    <3> QED
      BY <3>2 DEF hs2, q2, told, n
  <2>3. ToldLast(a)'
    BY <1>5, <1>6, <2>2 DEF ToldLast, Neutral
  <2> QED
    BY <2>3 DEF Settles
<1>7. CASE Telling(c, a) /\ ~\E d \in Calls \ {c} : Owes(d, a)
  <2>1. ~Owes(c, a)
    BY <1>7 DEF Telling, Tells, TellsOf, Owes, Announcing
  <2>2. SaysLast(calls, replies, shown[a], a, Count(a))
    BY <1>7, <2>1 DEF Settles, ToldLast
  <2>3. SaysLast(calls', replies', shown'[a], a, Count(a))
    <3> DEFINE r == Rest(c)
               hs == calls
               hs2 == calls'
               q == replies
               q2 == replies'
               told == shown'[a]
               n == Count(a)
               was == shown[a]
    <3>1. Follows(hs, hs2, q, q2, r, c, k, a) /\ SameWord(hs, q, c, k, a, was, told, n)
      BY <1>3, <1>7, <2>2 DEF Telling, Tells, Queues, Follows, SameWord
    <3> HIDE DEF r, hs, hs2, q, q2, told, n, was
    <3>2. SaysLast(hs2, q2, told, a, n)
      BY <3>1, SaysTheSame
    <3> QED
      BY <3>2 DEF hs2, q2, told, n
  <2>4. ToldLast(a)'
    BY <1>5, <1>7, <2>3 DEF ToldLast, Telling
  <2> QED
    BY <2>4 DEF Settles
<1> QED
  BY <1>1, <1>2, <1>4, <1>6, <1>7 DEF Regards

\* Commands that are not refused.
LEMMA CommandsSucceed ==
  ASSUME ~failed', NEW c, NEW call
  PROVE  /\ \A p, k : Writes(c, call, p, k) => people' = p /\ Await(c, call)
         /\ AsksCount(c, call) => Await(c, [call EXCEPT !.count = Count(call.from)])
<1>1. \A p, k : Writes(c, call, p, k) => people' = p /\ Await(c, call)
  BY DEF Writes
<1>2. ASSUME AsksCount(c, call) PROVE Await(c, [call EXCEPT !.count = Count(call.from)])
  BY <1>2 DEF AsksCount, Reads
<1> QED
  BY <1>1, <1>2

LEMMA WritesQueue ==
  ASSUME NEW c, NEW call, NEW p, NEW k, Writes(c, call, p, k)
  PROVE  replies' = Append(Rest(c), c)
BY DEF Writes, Await

LEMMA GoingOnQueues ==
  ASSUME TypeInv, NEW c \in Calls, Goes(c)
  PROVE  Queues(c)
<1> DEFINE Good == replies' \in {Rest(c), Append(Rest(c), c)}
<1>1. \A call : Await(c, call) \/ AwaitDb(c, call) \/ Return(c) => Good
  BY DEF Await, AwaitDb, Return
<1>2. \A call : AsksCount(c, call) => Good
  BY <1>1 DEF AsksCount
<1>3. \A call, p, k : Writes(c, call, p, k) => Good
  BY WritesQueue
<1> HIDE DEF Good
<1>4. ASSUME \/ JoinLeavesPrevious(c) \/ JoinEnters(c) \/ RejoinsAsUser(c) \/ RevalidationThrows(c)
             \/ JoinCountsPrevious(c) \/ Announces(c) \/ BidReadsKey(c)
      PROVE  Good
  BY <1>1, <1>2, <1>3, <1>4 DEF JoinLeavesPrevious, JoinEnters, RejoinsAsUser, RevalidationThrows,
     JoinCountsPrevious, Announces, BidReadsKey, JoinsAsUser, Adds, Leaves, Removes
<1>5. ASSUME \/ NotActive(c) \/ Ends(c) \/ PresenceUpdate(c) \/ RejoinLooksUp(c) \/ RejoinsAsGuest(c)
             \/ RejoinReads(c) \/ StateSent(c) \/ GuardAdmits(c) \/ GuardRefuses(c)
             \/ RevalidationFails(c) \/ BidChecked(c)
      PROVE  Good
  BY <1>1, <1>5 DEF NotActive, Ends, PresenceUpdate, RejoinLooksUp, RejoinsAsGuest, RejoinReads,
     StateSent, GuardAdmits, GuardRefuses, RevalidationFails, BidChecked
<1>6. Good
  BY <1>4, <1>5 DEF Goes
<1>7. Ready(c)
  <2>1. ASSUME NEW pc, Replied(c, pc) PROVE Ready(c)
    BY <2>1 DEF Replied, Ready
  <2>2. calls[c].pc \in DbSteps => Ready(c)
    BY DEF DbSteps, RedisSteps, Ready
  <2>3. (\E pc : Replied(c, pc)) \/ calls[c].pc \in DbSteps
    BY DEF Goes, NotActive, JoinLeavesPrevious, JoinEnters, RejoinsAsUser, RevalidationThrows,
     JoinCountsPrevious, Announces, BidReadsKey, Ends, PresenceUpdate, RejoinLooksUp, RejoinsAsGuest,
     RejoinReads, StateSent, GuardAdmits, GuardRefuses, RevalidationFails, BidChecked, DbSteps
  <2> QED
    BY <2>1, <2>2, <2>3
<1> QED
  BY <1>6, <1>7, GoingOnHands DEF Queues, Hands, Good

LEMMA SendingQueues ==
  ASSUME TypeInv, NEW c \in Calls, NEW s \in Sockets, Sends(c, s)
  PROVE  calls[c].pc = "idle" /\ Queues(c)
<1>1. calls[c].pc = "idle"
  BY DEF Sends, JoinAsks, LeaveRoom, RejoinAsks, StateAsked, BidLooksUp, Disconnect, Event
<1>2. Ready(c)
  BY <1>1 DEF Ready, RedisSteps
<1>3. Rest(c) = replies
  <2>1. ~In(c, replies)
    BY <1>1, TypeGivesCalls DEF CallsInv, RedisSteps
  <2>2. replies # <<>> => 1 \in 1 .. Len(replies) /\ Head(replies) = replies[1]
    BY TypeGivesCalls DEF CallsInv
  <2> QED
    BY <2>1, <2>2 DEF In, Rest
<1>4. replies' \in {Rest(c), Append(Rest(c), c)}
  <2> DEFINE Good == replies' \in {Rest(c), Append(Rest(c), c)}
  <2>1. \A call : Await(c, call) \/ AwaitDb(c, call) \/ Return(c) => Good
    BY DEF Await, AwaitDb, Return
  <2>2. \A call, p, k : Writes(c, call, p, k) => Good
    BY WritesQueue
  <2>3. UNCHANGED replies => Good
    BY <1>3
  <2> HIDE DEF Good
  <2>4. Good
    BY <2>1, <2>2, <2>3 DEF Sends, JoinAsks, LeaveRoom, RejoinAsks, StateAsked, BidLooksUp, Disconnect,
       AsksActive, Removes, Leaves
  <2> QED
    BY <2>4 DEF Good
<1> QED
  BY <1>1, <1>2, <1>4, SendingHands DEF Queues, Hands

\* Without faults a step of a handler regards the presence in every auction as
\* it should, and a handler that owes a count does not give up.
Proceeds(c) ==
  /\ \A a \in Auctions : Regards(c, a)
  /\ calls'[c].pc \in Announcing \cup {"join_removing", "join_counting"} => calls'[c].ok

\* The new record of the handler, where a step makes one.
LEMMA AwaitsRecord ==
  ASSUME TypeInv, NEW c \in Calls
  PROVE  /\ \A call : Await(c, call) => calls'[c] = call /\ replies' = Append(Rest(c), c)
         /\ \A call : AwaitDb(c, call) => calls'[c] = call
         /\ Return(c) => calls'[c].pc = "idle"
BY DEF TypeInv, TypeOK, Await, AwaitDb, Return, Idle

\* A handler before and after what concerns no presence.
LEMMA StaysNeutral ==
  ASSUME NEW c \in Calls, NEW a \in Auctions, ~Owes(c, a), ~Tells(c, a),
         calls'[c].pc \notin {"counting", "join_counting"} \/ calls'[c].from # a,
         people'[a] = people[a], shown'[a] = shown[a]
  PROVE  Regards(c, a)
BY DEF Regards, Neutral, Tells, TellsOf

LEMMA ReturningProceeds ==
  ASSUME TypeInv, PresenceInv, ~failed, lapsed = {}, ~failed', NEW c \in Calls,
         \/ NotActive(c) \/ Ends(c) \/ PresenceUpdate(c) \/ StateSent(c) \/ GuardRefuses(c)
         \/ RevalidationFails(c) \/ BidChecked(c)
  PROVE  Proceeds(c)
<1>1. Return(c) /\ people' = people
  BY DEF NotActive, Ends, PresenceUpdate, StateSent, GuardRefuses, RevalidationFails, BidChecked, redis
<1>2. calls'[c].pc = "idle"
  BY <1>1, AwaitsRecord
<1>3. CASE NotActive(c) \/ Ends(c) \/ StateSent(c) \/ GuardRefuses(c) \/ RevalidationFails(c) \/ BidChecked(c)
  <2>1. UNCHANGED shown /\ calls[c].pc \notin {"counting", "join_counting"}
    BY <1>3 DEF NotActive, Ends, StateSent, GuardRefuses, RevalidationFails, BidChecked, Replied
  <2>2. ASSUME NEW a \in Auctions PROVE ~Owes(c, a)
    <3>1. CASE Ends(c)
      BY <3>1 DEF Ends, Replied, PresenceInv, Owes, Announcing
    <3>2. CASE NotActive(c) \/ StateSent(c) \/ GuardRefuses(c) \/ RevalidationFails(c) \/ BidChecked(c)
      BY <3>2 DEF NotActive, StateSent, GuardRefuses, RevalidationFails, BidChecked, Replied, Owes, Announcing
    <3> QED
      BY <1>3, <3>1, <3>2
  <2>3. \A a \in Auctions : Regards(c, a)
    BY <1>1, <1>2, <2>1, <2>2, StaysNeutral DEF Tells, TellsOf
  <2> QED
    BY <1>2, <2>3 DEF Proceeds, Announcing
<1>4. CASE PresenceUpdate(c)
  <2> DEFINE b == calls[c].from
  <2>1. /\ calls[c].pc = "counting" /\ replies # <<>> /\ Head(replies) = c
        /\ shown' = [shown EXCEPT ![b] = calls[c].count]
    BY <1>4 DEF PresenceUpdate, Replied
  <2>2. ASSUME NEW a \in Auctions PROVE Regards(c, a)
    <3>1. ~Owes(c, a) /\ ~Tells(c, a)'
      BY <1>2, <2>1 DEF Owes, Announcing, Tells, TellsOf
    <3>2. CASE a = b
      <4>1. shown'[a] = calls[c].count
        BY <2>1, <3>2 DEF TypeInv, TypeOK
      <4> QED
        BY <1>1, <2>1, <3>1, <3>2, <4>1 DEF Regards, Telling, Tells, TellsOf
    <3>3. CASE a # b
      <4>1. shown'[a] = shown[a]
        BY <2>1, <3>3 DEF TypeInv, TypeOK
      <4> QED
        BY <1>1, <3>1, <3>3, <4>1 DEF Regards, Neutral, Tells, TellsOf
    <3> QED
      BY <3>2, <3>3
  <2> QED
    BY <1>2, <2>2 DEF Proceeds, Announcing
<1> QED
  BY <1>3, <1>4

\* Handler c asks for the count of b, having changed no participants.
LEMMA AskingProceeds ==
  ASSUME TypeInv, ~failed', NEW c \in Calls, NEW call \in CallType, NEW b \in Auctions \cup {Null},
         call.from = b, call.pc \in {"counting", "join_counting"}, call.ok,
         AsksCount(c, call), UNCHANGED <<people, shown>>,
         \A a \in Auctions \ {b} : ~Owes(c, a) /\ ~Tells(c, a)
  PROVE  Proceeds(c)
<1> DEFINE next == [call EXCEPT !.count = Count(call.from)]
<1>1. next.pc = call.pc /\ next.from = b /\ next.ok /\ next.count = Count(b)
  BY DEF CallType
<1>2. Await(c, next)
  BY CommandsSucceed
<1> HIDE DEF next
<1>3. calls'[c] = next /\ replies' = Append(Rest(c), c)
  BY <1>2, AwaitsRecord
<1>4. ASSUME NEW a \in Auctions PROVE Regards(c, a)
  <2>1. CASE a = b
    <3>1. Count(a)' = Count(a)
      BY DEF Count
    <3>2. calls'[c].pc \in {"counting", "join_counting"} /\ calls'[c].from = a /\ calls'[c].count = Count(a)'
      BY <1>1, <1>3, <2>1, <3>1
    <3> QED
      BY <1>3, <3>2 DEF Regards, Asking, Tells, TellsOf
  <2>2. CASE a # b
    <3>1. calls'[c].from # a
      BY <1>1, <1>3, <2>2
    <3> QED
      BY <2>2, <3>1, StaysNeutral
  <2> QED
    BY <2>1, <2>2
<1> QED
  BY <1>1, <1>3, <1>4 DEF Proceeds

\* What is shown in a changes only if handler c is the next to tell the room.
Shows(c, a) ==
  \/ ~Tells(c, a) /\ shown'[a] = shown[a]
  \/ Tells(c, a) /\ replies # <<>> /\ Head(replies) = c /\ shown'[a] = calls[c].count

\* Handler c sends two commands about b, and will ask for the count of b.
LEMMA CommandingProceeds ==
  ASSUME TypeInv, ~failed', NEW c \in Calls, NEW call, NEW s \in Sockets, NEW b \in Auctions,
         Removes(c, call, s, b) \/ Adds(c, call, s, b), call.ok,
         \/ call.pc = "join_removing" /\ call.from = b
         \/ call.pc = "removing" /\ call.auction = b
         \/ call.pc \in Announcing /\ call.auction = b /\ call.socket \in known',
         \A a \in Auctions : Shows(c, a) /\ ~Owes(c, a)
  PROVE  Proceeds(c)
<1>1. Await(c, call) /\ \A a \in Auctions \ {b} : people'[a] = people[a]
  <2>1. CASE Removes(c, call, s, b)
    <3>1. Await(c, call) /\ people' = [people EXCEPT ![b] = @ \ {s}]
      BY <2>1, CommandsSucceed DEF Removes
    <3> QED
      BY <3>1 DEF TypeInv, TypeOK
  <2>2. CASE Adds(c, call, s, b)
    <3>1. Await(c, call) /\ people' = [people EXCEPT ![b] = @ \cup {s}]
      BY <2>2, CommandsSucceed DEF Adds
    <3> QED
      BY <3>1 DEF TypeInv, TypeOK
  <2> QED
    BY <2>1, <2>2
<1>2. calls'[c] = call
  BY <1>1, AwaitsRecord
<1>3. call.pc \notin {"counting", "join_counting"}
  BY DEF Announcing
<1>4. Regards(c, b)
  BY <1>2 DEF Regards, Owing, Owes, Announcing
<1>5. ASSUME NEW a \in Auctions \ {b} PROVE Regards(c, a)
  BY <1>1, <1>2, <1>3, <1>5 DEF Shows, Regards, Neutral, Telling, Tells, TellsOf
<1> QED
  BY <1>2, <1>4, <1>5 DEF Proceeds

\* Handler c changes no participants and does not ask for their number.
LEMMA PassingProceeds ==
  ASSUME NEW c \in Calls, UNCHANGED people,
         calls'[c].pc \notin {"counting", "join_counting"},
         calls'[c].pc \in Announcing \cup {"join_removing"} => calls'[c].ok,
         \A a \in Auctions : Shows(c, a) /\ (Owes(c, a) => Owes(c, a)')
  PROVE  Proceeds(c)
<1>1. ASSUME NEW a \in Auctions PROVE Regards(c, a)
  BY DEF Shows, Regards, Owing, Neutral, Telling, Tells, TellsOf, Owes, Announcing
<1> QED
  BY <1>1 DEF Proceeds

\* A handler at pc has no count to ask for, or to tell.
LEMMA NothingToTell ==
  ASSUME NEW c \in Calls,
         calls[c].pc \in {"idle", "join_active", "rejoin_active", "rejoin_user", "bid_guard", "bid_user"},
         NEW a
  PROVE  ~Owes(c, a) /\ ~Tells(c, a)
BY DEF Owes, Tells, TellsOf, Announcing

LEMMA JoinProceeds ==
  ASSUME TypeInv, PresenceInv, ~failed, lapsed = {}, ~failed', NEW c \in Calls,
         JoinLeavesPrevious(c) \/ JoinCountsPrevious(c) \/ JoinEnters(c) \/ Announces(c)
  PROVE  Proceeds(c)
<1>0. /\ calls[c] \in CallType /\ StateTypes
      /\ calls[c].from \in Auctions \cup {Null} /\ calls[c].auction \in Auctions
      /\ calls[c].socket \in Sockets
  <2>1. calls[c].pc \in RedisSteps
    BY DEF JoinLeavesPrevious, JoinCountsPrevious, JoinEnters, Announces, Replied, RedisSteps
  <2> QED
    BY <2>1, WhoseStep DEF RedisSteps, TypeInv, TypeOK, StateTypes
<1>1. ASSUME JoinLeavesPrevious(c)
      PROVE  Proceeds(c)
  <2>1. PICK s \in Sockets : s = calls[c].socket
    BY <1>0
  <2>2. PICK b \in Auctions : b = bound[s]
    BY <1>0, <1>1, <2>1 DEF JoinLeavesPrevious, StateTypes
  <2>3. calls[c].pc = "join_active" /\ calls[c].ok /\ shown' = shown
    BY <1>1 DEF JoinLeavesPrevious, Replied
  <2>4. \A a \in Auctions : Shows(c, a) /\ ~Owes(c, a) /\ ~Tells(c, a)
    BY <2>3, NothingToTell DEF Shows
  <2> DEFINE next(pc) == [[calls[c] EXCEPT !.from = b] EXCEPT !.pc = pc]
  <2>5. \A pc \in RedisSteps : /\ next(pc) \in CallType /\ next(pc).pc = pc /\ next(pc).from = b
                               /\ next(pc).ok
    BY <1>0, <2>3 DEF CallType
  <2>6. \/ Removes(c, next("join_removing"), s, b)
        \/ AsksCount(c, next("join_counting")) /\ people' = people
    BY <1>1, <2>1, <2>2 DEF JoinLeavesPrevious, redis
  <2> DEFINE removing == next("join_removing")
             counting == next("join_counting")
  <2>7. /\ counting \in CallType /\ counting.pc = "join_counting" /\ counting.from = b /\ counting.ok
        /\ removing.pc = "join_removing" /\ removing.from = b /\ removing.ok
    BY <2>5 DEF RedisSteps
  <2> HIDE DEF removing, counting
  <2>8. CASE Removes(c, removing, s, b)
    BY <2>4, <2>7, <2>8, CommandingProceeds
  <2>9. CASE AsksCount(c, counting) /\ people' = people
    BY <2>3, <2>4, <2>7, <2>9, AskingProceeds
  <2> QED
    BY <2>6, <2>8, <2>9 DEF removing, counting
<1>2. ASSUME JoinCountsPrevious(c)
      PROVE  Proceeds(c)
  <2>1. PICK b \in Auctions \cup {Null} : b = calls[c].from
    BY <1>0
  <2>2. calls[c].pc = "join_removing" /\ calls[c].ok /\ people' = people /\ shown' = shown
    BY <1>2 DEF JoinCountsPrevious, Replied, redis
  <2>3. \A a \in Auctions \ {b} : ~Owes(c, a) /\ ~Tells(c, a)
    BY <2>1, <2>2 DEF Owes, Tells, TellsOf, Announcing
  <2> DEFINE next == [calls[c] EXCEPT !.pc = "join_counting"]
  <2>4. next \in CallType /\ next.pc = "join_counting" /\ next.from = b /\ next.ok
    BY <1>0, <2>1, <2>2 DEF CallType, RedisSteps
  <2> HIDE DEF next
  <2>5. AsksCount(c, next)
    BY <1>2 DEF JoinCountsPrevious, next
  <2> QED
    BY <2>2, <2>3, <2>4, <2>5, AskingProceeds
<1>3. ASSUME JoinEnters(c)
      PROVE  Proceeds(c)
  <2>1. PICK s \in Sockets : s = calls[c].socket
    BY <1>0
  <2>2. PICK b \in Auctions : b = calls[c].auction
    BY <1>0
  <2>3. calls[c].ok /\ known' = known
    BY <1>3 DEF JoinEnters, Replied, PresenceInv
  <2>4. ASSUME NEW a \in Auctions PROVE Shows(c, a) /\ ~Owes(c, a)
    <3>1. CASE calls[c].pc = "join_active" /\ UNCHANGED shown
      BY <3>1, NothingToTell DEF Shows
    <3>2. CASE Replied(c, "join_counting") /\ shown' = [shown EXCEPT ![calls[c].from] = calls[c].count]
      <4>1. ~Owes(c, a) /\ (Tells(c, a) <=> calls[c].from = a) /\ replies # <<>> /\ Head(replies) = c
        BY <3>2 DEF Replied, Owes, Announcing, Tells, TellsOf
      <4>2. shown'[a] = IF calls[c].from = a THEN calls[c].count ELSE shown[a]
        BY <1>0, <3>2 DEF StateTypes
      <4> QED
        BY <4>1, <4>2 DEF Shows
    <3> QED
      BY <1>3, <3>1, <3>2 DEF JoinEnters, Replied
  <2>5. CASE JoinsAsUser(c, "entering") /\ s \in known
    <3> DEFINE next == [calls[c] EXCEPT !.pc = "entering"]
    <3>1. next.pc = "entering" /\ next.auction = b /\ next.socket = s /\ next.ok
      BY <1>0, <2>1, <2>2, <2>3 DEF CallType
    <3> HIDE DEF next
    <3>2. Adds(c, next, s, b)
      BY <2>1, <2>2, <2>5 DEF JoinsAsUser, next
    <3>3. next.pc \in Announcing /\ next.socket \in known'
      BY <2>3, <2>5, <3>1 DEF Announcing
    <3> QED
      BY <2>4, <3>1, <3>2, <3>3, CommandingProceeds
  <2>6. CASE Return(c) /\ UNCHANGED redis
    <3>1. calls'[c].pc = "idle" /\ people' = people
      BY <2>6, AwaitsRecord DEF redis
    <3> QED
      BY <2>4, <3>1, PassingProceeds DEF Announcing
  <2> QED
    BY <1>3, <2>1, <2>5, <2>6 DEF JoinEnters
<1>4. ASSUME Announces(c)
      PROVE  Proceeds(c)
  <2>1. PICK b \in Auctions : b = calls[c].auction
    BY <1>0
  <2>2. /\ calls[c].pc \in {"entering", "leaving", "removing", "rejoin_reading"}
        /\ calls[c].ok /\ people' = people /\ shown' = shown
    BY <1>4 DEF Announces, Replied, redis
  <2>3. \A a \in Auctions \ {b} : ~Owes(c, a) /\ ~Tells(c, a)
    BY <2>1, <2>2 DEF Owes, Tells, TellsOf
  <2> DEFINE next == [calls[c] EXCEPT !.pc = "counting", !.from = calls[c].auction]
  <2>4. next \in CallType /\ next.pc = "counting" /\ next.from = b /\ next.ok
    BY <1>0, <2>1, <2>2 DEF CallType, RedisSteps
  <2> HIDE DEF next
  <2>5. AsksCount(c, next)
    BY <1>4 DEF Announces, next
  <2> QED
    BY <2>2, <2>3, <2>4, <2>5, AskingProceeds
<1> QED
  BY <1>1, <1>2, <1>3, <1>4

LEMMA RejoinProceeds ==
  ASSUME TypeInv, PresenceInv, ~failed, lapsed = {}, ~failed', NEW c \in Calls,
         RejoinLooksUp(c) \/ RejoinsAsUser(c) \/ RejoinsAsGuest(c) \/ RejoinReads(c)
  PROVE  Proceeds(c)
<1>0. calls[c] \in CallType
  BY DEF TypeInv, TypeOK
<1>1. CASE RejoinLooksUp(c)
  <2> DEFINE next == [calls[c] EXCEPT !.pc = "rejoin_user", !.ok = calls[c].socket \notin revoked]
  <2>1. next.pc = "rejoin_user"
    BY <1>0 DEF CallType
  <2> HIDE DEF next
  <2>2. AwaitDb(c, next) /\ people' = people /\ shown' = shown /\ calls[c].pc = "rejoin_active"
    BY <1>1 DEF RejoinLooksUp, next, redis, Replied
  <2>3. calls'[c].pc = "rejoin_user"
    BY <2>1, <2>2, AwaitsRecord
  <2> QED
    BY <2>2, <2>3, NothingToTell, PassingProceeds DEF Announcing, Shows
<1>2. CASE RejoinsAsUser(c)
  <2>1. PICK s \in Sockets : s = calls[c].socket
    BY <1>2, WhoseStep DEF RejoinsAsUser
  <2>2. PICK b \in Auctions : b = calls[c].auction
    BY <1>2, WhoseStep DEF RejoinsAsUser
  <2>3. calls[c].pc = "rejoin_user" /\ shown' = shown /\ s \in known'
    BY <1>2, <2>1 DEF RejoinsAsUser
  <2> DEFINE next == [calls[c] EXCEPT !.pc = "rejoining", !.ok = TRUE]
  <2>4. next.pc = "rejoining" /\ next.ok /\ next.auction = b /\ next.socket = s
    BY <1>0, <2>1, <2>2 DEF CallType
  <2> HIDE DEF next
  <2>5. Adds(c, next, s, b)
    BY <1>2, <2>1, <2>2 DEF RejoinsAsUser, next
  <2>6. next.pc \in Announcing
    BY <2>4 DEF Announcing
  <2>7. \A a \in Auctions : Shows(c, a) /\ ~Owes(c, a)
    BY <2>3, NothingToTell DEF Shows
  <2> QED
    BY <2>3, <2>4, <2>5, <2>6, <2>7, CommandingProceeds
<1>3. CASE RejoinsAsGuest(c)
  <2> DEFINE next == [calls[c] EXCEPT !.pc = "rejoin_reading", !.ok = TRUE]
  <2>1. next.pc = "rejoin_reading" /\ next.ok
    BY <1>0 DEF CallType
  <2> HIDE DEF next
  <2>2. /\ Await(c, next) /\ people' = people /\ shown' = shown
        /\ calls[c].pc \in {"rejoin_active", "rejoin_user"}
    BY <1>3 DEF RejoinsAsGuest, next, redis, Replied
  <2>3. calls'[c].pc = "rejoin_reading" /\ calls'[c].ok
    BY <2>1, <2>2, AwaitsRecord
  <2>4. \A a \in Auctions : Shows(c, a) /\ ~Owes(c, a)
    BY <2>2, NothingToTell DEF Shows
  <2> QED
    BY <2>2, <2>3, <2>4, PassingProceeds
<1>4. CASE RejoinReads(c)
  <2> DEFINE next == [calls[c] EXCEPT !.pc = "rejoin_reading"]
  <2>1. /\ next.pc = "rejoin_reading" /\ next.ok = calls[c].ok
        /\ next.auction = calls[c].auction /\ next.socket = calls[c].socket
    BY <1>0 DEF CallType
  <2> HIDE DEF next
  <2>2. /\ Await(c, next) /\ people' = people /\ shown' = shown /\ known' = known
        /\ calls[c].pc = "rejoining" /\ calls[c].ok
    BY <1>4 DEF RejoinReads, next, redis, Replied
  <2>3. calls'[c] = next
    BY <2>2, AwaitsRecord
  <2>4. \A a \in Auctions : Shows(c, a) /\ (Owes(c, a) => Owes(c, a)')
    BY <2>1, <2>2, <2>3 DEF Shows, Tells, TellsOf, Owes, Announcing
  <2> QED
    BY <2>1, <2>2, <2>3, <2>4, PassingProceeds
<1> QED
  BY <1>1, <1>2, <1>3, <1>4

\* A socket that closes with its user in an auction owes the count of it.
LEMMA LeavingProceeds ==
  ASSUME TypeInv, ~failed', NEW c \in Calls, NEW s \in Sockets, NEW isUser, Leaves(c, s, isUser),
         calls[c].pc \in {"idle", "bid_user"}, shown' = shown
  PROVE  Proceeds(c)
<1>1. \A a \in Auctions : Shows(c, a) /\ ~Owes(c, a)
  BY NothingToTell DEF Shows
<1>2. CASE Return(c) /\ UNCHANGED redis
  <2>1. calls'[c].pc = "idle" /\ people' = people
    BY <1>2, AwaitsRecord DEF redis
  <2> QED
    BY <1>1, <2>1, PassingProceeds DEF Announcing
<1>3. CASE bound[s] # Null /\ Removes(c, Call("removing", s, bound[s]), s, bound[s])
  <2>1. PICK b \in Auctions : b = bound[s]
    BY <1>3 DEF TypeInv, TypeOK
  <2> DEFINE next == Call("removing", s, b)
  <2>2. next.pc = "removing" /\ next.auction = b /\ next.ok
    BY DEF Call, Idle
  <2>3. Removes(c, next, s, b)
    BY <1>3, <2>1
  <2> HIDE DEF next
  <2> QED
    BY <1>1, <2>2, <2>3, CommandingProceeds
<1> QED
  BY <1>2, <1>3 DEF Leaves

LEMMA BidProceeds ==
  ASSUME TypeInv, PresenceInv, ~failed, lapsed = {}, ~failed', NEW c \in Calls,
         GuardAdmits(c) \/ RevalidationThrows(c) \/ BidReadsKey(c)
  PROVE  Proceeds(c)
<1>0. calls[c] \in CallType
  BY DEF TypeInv, TypeOK
<1>1. calls[c].pc \in {"bid_guard", "bid_user"} /\ shown' = shown
  BY DEF GuardAdmits, RevalidationThrows, BidReadsKey
<1>2. \A a \in Auctions : Shows(c, a) /\ ~Owes(c, a)
  BY <1>1, NothingToTell DEF Shows
<1>3. ASSUME calls'[c].pc \in {"idle", "bid_user", "bid_key"}, people' = people
      PROVE  Proceeds(c)
  <2>1. /\ calls'[c].pc \notin {"counting", "join_counting"}
        /\ calls'[c].pc \notin Announcing \cup {"join_removing"}
    BY <1>3 DEF Announcing
  <2> QED
    BY <1>2, <1>3, <2>1, PassingProceeds
<1>4. CASE GuardAdmits(c)
  <2> DEFINE next == [calls[c] EXCEPT !.pc = "bid_user", !.ok = calls[c].socket \notin revoked]
  <2>1. next.pc = "bid_user"
    BY <1>0 DEF CallType
  <2> HIDE DEF next
  <2>2. AwaitDb(c, next) /\ people' = people
    BY <1>4 DEF GuardAdmits, next, redis
  <2> QED
    BY <1>3, <2>1, <2>2, AwaitsRecord
<1>5. CASE BidReadsKey(c)
  <2>1. people' = people
    BY <1>5 DEF BidReadsKey, redis
  <2>2. ASSUME NEW v, NEW a, Await(c, [calls[c] EXCEPT !.pc = "bid_key", !.ok = v, !.auction = a])
        PROVE  calls'[c].pc = "bid_key"
    <3> DEFINE next == [calls[c] EXCEPT !.pc = "bid_key", !.ok = v, !.auction = a]
    <3>1. next.pc = "bid_key"
      BY <1>0 DEF CallType
    <3> HIDE DEF next
    <3>2. Await(c, next)
      BY <2>2 DEF next
    <3> QED
      BY <3>1, <3>2, AwaitsRecord
  <2>3. Return(c) => calls'[c].pc = "idle"
    BY AwaitsRecord
  <2> QED
    BY <1>3, <1>5, <2>1, <2>2, <2>3 DEF BidReadsKey
<1>6. CASE RevalidationThrows(c)
  <2>1. CASE Return(c) /\ UNCHANGED redis
    BY <1>3, <2>1, AwaitsRecord DEF redis
  <2>2. CASE Leaves(c, calls[c].socket, calls[c].socket \in known)
    <3>1. calls[c].pc = "bid_user" /\ calls[c].socket \in Sockets
      BY <1>6, WhoseStep DEF RevalidationThrows
    <3> QED
      BY <1>1, <2>2, <3>1, LeavingProceeds
  <2> QED
    BY <1>6, <2>1, <2>2 DEF RevalidationThrows
<1> QED
  BY <1>4, <1>5, <1>6

LEMMA SendingProceeds ==
  ASSUME TypeInv, ~failed', NEW c \in Calls, NEW s \in Sockets, Sends(c, s)
  PROVE  Proceeds(c)
<1>1. calls[c].pc = "idle" /\ shown' = shown /\ known' = known
  BY SendingQueues DEF Sends, JoinAsks, LeaveRoom, RejoinAsks, StateAsked, BidLooksUp, Disconnect
<1>2. \A a \in Auctions : Shows(c, a) /\ ~Owes(c, a)
  BY <1>1, NothingToTell DEF Shows
<1>3. ASSUME calls'[c].pc \in {"idle", "join_active", "rejoin_active", "state_reading", "bid_user", "bid_guard"},
             people' = people
      PROVE  Proceeds(c)
  <2>1. /\ calls'[c].pc \notin {"counting", "join_counting"}
        /\ calls'[c].pc \notin Announcing \cup {"join_removing"}
    BY <1>3 DEF Announcing
  <2> QED
    BY <1>2, <1>3, <2>1, PassingProceeds
<1>4. ASSUME NEW pc, NEW a, NEW v
      PROVE  Call(pc, s, a).pc = pc /\ [Call(pc, s, a) EXCEPT !.ok = v].pc = pc
  BY DEF Call, Idle
<1>5. ASSUME NEW a \in Auctions, NEW pc, AsksActive(c, s, a, pc)
      PROVE  calls'[c].pc = pc
  <2>1. PICK v \in BOOLEAN : Await(c, [Call(pc, s, a) EXCEPT !.ok = v])
    BY <1>5 DEF AsksActive
  <2> DEFINE next == [Call(pc, s, a) EXCEPT !.ok = v]
  <2>2. next.pc = pc
    BY <1>4
  <2> HIDE DEF next
  <2>3. Await(c, next)
    BY <2>1 DEF next
  <2> QED
    BY <2>2, <2>3, AwaitsRecord
<1>6. CASE \E a \in Auctions : JoinAsks(c, s, a) \/ RejoinAsks(c, s, a)
  BY <1>3, <1>5, <1>6 DEF JoinAsks, RejoinAsks, redis
<1>7. CASE StateAsked(c, s)
  BY <1>3, <1>4, <1>7, AwaitsRecord DEF StateAsked, redis
<1>8. CASE BidLooksUp(c, s)
  <2> DEFINE pc == IF s \in known THEN "bid_user" ELSE "bid_guard"
             next == [Call(pc, s, Null) EXCEPT !.ok = s \notin revoked]
  <2>1. next.pc = pc /\ pc \in {"bid_user", "bid_guard"}
    BY <1>4
  <2> HIDE DEF next
  <2>2. AwaitDb(c, next) /\ people' = people
    BY <1>8 DEF BidLooksUp, next, redis
  <2> QED
    BY <1>3, <2>1, <2>2, AwaitsRecord
<1>9. ASSUME NEW a \in Auctions, LeaveRoom(c, s, a)
      PROVE  Proceeds(c)
  <2>1. CASE UNCHANGED <<redis, calls>>
    BY <1>1, <1>3, <2>1 DEF redis
  <2>2. CASE s \in known /\ Removes(c, Call("leaving", s, a), s, a)
    <3> DEFINE next == Call("leaving", s, a)
    <3>1. next.pc = "leaving" /\ next.auction = a /\ next.socket = s /\ next.ok
      BY DEF Call, Idle
    <3> HIDE DEF next
    <3>2. Removes(c, next, s, a)
      BY <2>2 DEF next
    <3>3. next.pc \in Announcing /\ next.socket \in known'
      BY <1>1, <2>2, <3>1 DEF Announcing
    <3> QED
      BY <1>2, <3>1, <3>2, <3>3, CommandingProceeds
  <2> QED
    BY <1>9, <2>1, <2>2 DEF LeaveRoom
<1>10. CASE Disconnect(c, s)
  BY <1>1, <1>10, LeavingProceeds DEF Disconnect
<1> QED
  BY <1>6, <1>7, <1>8, <1>9, <1>10 DEF Sends

LEMMA PresenceStep ==
  ASSUME TypeInv, PresenceInv, [Next]_vars
  PROVE  PresenceInv'
<1> SUFFICES ASSUME ~failed', lapsed' = {} PROVE PresenceInv'
  BY DEF PresenceInv
<1>0. /\ CallsInv /\ ~failed /\ lapsed = {} /\ known \subseteq known'
      /\ \A c \in Calls : calls[c].pc \in Announcing \cup {"join_removing", "join_counting"} => calls[c].ok
      /\ \A a \in Auctions : status[a] # "cleaned" => Settles(a)
  BY TypeGivesCalls, FailuresStay, UsersStay DEF PresenceInv
<1>1. ASSUME NEW c \in Calls, Queues(c), Proceeds(c), status' = status
      PROVE  PresenceInv'
  <2>1. \A d \in Calls : calls'[d].pc \in Announcing \cup {"join_removing", "join_counting"} => calls'[d].ok
    BY <1>0, <1>1 DEF Queues, Proceeds
  <2>2. \A a \in Auctions : status'[a] # "cleaned" => Settles(a)'
    BY <1>0, <1>1, SettlesOn DEF Proceeds
  <2> QED
    BY <2>1, <2>2 DEF PresenceInv
<1>2. ASSUME NEW c \in Calls, Goes(c)
      PROVE  PresenceInv'
  <2>1. status' = status
    BY <1>2 DEF Goes, NotActive, JoinLeavesPrevious, JoinCountsPrevious, JoinEnters, Announces, Ends,
       PresenceUpdate, RejoinLooksUp, RejoinsAsUser, RejoinsAsGuest, RejoinReads, StateSent,
       GuardAdmits, GuardRefuses, RevalidationFails, RevalidationThrows, BidReadsKey, BidChecked
  <2>2. Proceeds(c)
    BY <1>0, <1>2, ReturningProceeds, JoinProceeds, RejoinProceeds, BidProceeds DEF Goes
  <2> QED
    BY <1>1, <1>2, <2>1, <2>2, GoingOnQueues
<1>3. ASSUME NEW c \in Calls, NEW s \in Sockets, Sends(c, s)
      PROVE  PresenceInv'
  <2>1. status' = status
    BY <1>3 DEF Sends, JoinAsks, LeaveRoom, RejoinAsks, StateAsked, BidLooksUp, Disconnect
  <2> QED
    BY <1>1, <1>3, <2>1, SendingQueues, SendingProceeds
<1>4. CASE Elsewhere \/ UNCHANGED vars
  <2>1. UNCHANGED <<calls, replies, shown>>
    BY <1>4 DEF Elsewhere, Connect, Identify, ConnectAsGuest, Revoke, KeyExpires, AuctionExpires,
       CleanupAuction, vars
  <2>2. \A a \in Auctions : status'[a] # "cleaned" => status[a] # "cleaned" /\ people'[a] = people[a]
    BY <1>4 DEF TypeInv, TypeOK, Elsewhere, Connect, Identify, ConnectAsGuest, Revoke, KeyExpires,
       AuctionExpires, CleanupAuction, vars, redis
  <2>3. ASSUME NEW a \in Auctions, status'[a] # "cleaned" PROVE Settles(a)'
    <3>1. Settles(a) /\ people'[a] = people[a]
      BY <1>0, <2>2, <2>3
    <3>2. \A c \in Calls : Owes(c, a) => Owes(c, a)'
      BY <1>0, <2>1 DEF Owes
    <3>3. ToldLast(a) => ToldLast(a)'
      BY <2>1, <3>1 DEF ToldLast, Count
    <3> QED
      BY <3>1, <3>2, <3>3 DEF Settles
  <2> QED
    BY <1>0, <2>1, <2>3 DEF PresenceInv
<1> QED
  BY <1>2, <1>3, <1>4 DEF Next, Elsewhere

\* Once no handler is in progress the last number of participants an auction
\* showed is the number of its users, for any number of overlapping handlers.
THEOREM PresenceIsSettled == Spec => []PresenceSettles
<1>1. Init => TypeInv /\ PresenceInv
  <2> SUFFICES ASSUME Init PROVE PresenceInv
    BY InitIsTyped
  <2>1. /\ \A c \in Calls : calls[c].pc = "idle"
        /\ replies = <<>> /\ Len(replies) = 0
        /\ \A a \in Auctions : people[a] = {} /\ shown[a] = 0
    BY IdleIsSound DEF Init
  <2>2. \A a \in Auctions : Count(a) = 0
    <3>1. ASSUME NEW a \in Auctions PROVE {UserOf[s] : s \in people[a]} = {}
      BY <2>1
    <3> QED
      BY <3>1, FS_EmptySet DEF Count
  <2>3. \A a \in Auctions : ToldLast(a)
    BY <2>1, <2>2 DEF ToldLast, SaysLast
  <2> QED
    BY <2>1, <2>3 DEF PresenceInv, Settles, Announcing
<1>2. TypeInv /\ PresenceInv /\ [Next]_vars => (TypeInv /\ PresenceInv)'
  BY TypeStep, PresenceStep
<1>3. TypeInv /\ PresenceInv => PresenceSettles
  <2> SUFFICES ASSUME TypeInv, PresenceInv, Quiet, ~failed, lapsed = {}, NEW a \in Auctions, status[a] # "cleaned"
               PROVE  shown[a] = Count(a)
    BY DEF PresenceSettles
  <2>1. \A c \in Calls : calls[c].pc = "idle"
    BY DEF Quiet
  <2>2. \A c \in Calls : ~Owes(c, a) /\ ~Tells(c, a)
    BY <2>1, NothingToTell
  <2>3. \A i \in 1 .. Len(replies) : ~Tells(replies[i], a)
    BY <2>2 DEF TypeInv, TypeOK
  <2>4. SaysLast(calls, replies, shown[a], a, Count(a))
    BY <2>2 DEF PresenceInv, Settles, ToldLast
  <2> QED
    BY <2>3, <2>4 DEF SaysLast, Tells
<1> QED
  BY <1>1, <1>2, <1>3, PTL DEF Spec
===============================================================================
