----------------------------- MODULE AuctionRoom -----------------------------
(***************************************************************************)
(* The sockets of the /bid namespace (BidGateway): who is in which room,   *)
(* what the server remembers on the socket (client.data), and the two      *)
(* things it keeps in Redis about it: the participants hash of an auction  *)
(* and the key that binds a socket to one auction.                         *)
(*                                                                         *)
(* A handler in progress is a record of calls with a program counter.  All *)
(* Redis commands of the process go through one connection: they take      *)
(* effect in the order they are sent and their replies come back in that   *)
(* order, so a handler acts when it sends and goes on when its reply is    *)
(* the first of replies.  Database reads come back in any order.  Rooms    *)
(* are the in-memory ones of the server: joining a closed socket and       *)
(* emitting to it do nothing.                                              *)
(*                                                                         *)
(* Faults: redis_fails (one command is refused; of two sent together any   *)
(* may have been applied), db_fails (a look-up of the user throws),        *)
(* key_expires (a socket stays longer than SOCKET_AUCTION_TTL).            *)
(***************************************************************************)
EXTENDS Naturals, Sequences, FiniteSets

CONSTANTS Sockets, Auctions, Users, Null,
          UserOf,     (* the user whose token a socket's handshake carries  *)
          Calls,      (* bound: handlers in progress at once                *)
          MaxEvents,  (* bound: events of sockets, tokens, auctions and keys *)
          Faults

ASSUME RoomAssumption ==
  /\ Null \notin Auctions /\ Null \notin Users
  /\ IsFiniteSet(Sockets)
  /\ UserOf \in [Sockets -> Users \cup {Null}]
  /\ MaxEvents \in Nat
  /\ Faults \subseteq {"redis_fails", "db_fails", "key_expires"}

VARIABLES link,      (* the transport of a socket                           *)
          pending,   (* sockets whose connection handler awaits the user    *)
          known,     (* sockets with client.data.user                       *)
          bound,     (* client.data.auctionId                               *)
          rooms,     (* auction_room_{id}                                   *)
          personal,  (* sockets in the user:{id} room of their user         *)
          people,    (* the participants hash: the sockets it has           *)
          key,       (* Redis: the auction a user's socket is bound to      *)
          status,    (* of an auction: its active key, then its clean-up    *)
          revoked,   (* sockets whose token is no longer accepted           *)
          calls, replies,
          shown,     (* the last presence:update of an auction              *)
          events,
          failed,    (* history: a Redis command was refused                *)
          misread,   (* history: a look-up of a user threw                  *)
          lapsed,    (* history: sockets that lost client.data.user         *)
          odd        (* history: sockets that sent irregular events         *)

local == <<bound, rooms, personal>>
redis == <<people, key>>
history == <<failed, misread, lapsed, odd>>
vars == <<link, pending, known, local, redis, status, revoked, calls, replies, shown, events, history>>

Fault(f) == f \in Faults

Idle == [pc |-> "idle", socket |-> Null, auction |-> Null, from |-> Null, ok |-> TRUE, count |-> 0]
Call(pc, s, a) == [Idle EXCEPT !.pc = pc, !.socket = s, !.auction = a]

Init ==
  /\ link = [s \in Sockets |-> "off"]
  /\ pending = {} /\ known = {} /\ personal = {}
  /\ bound = [s \in Sockets |-> Null]
  /\ rooms = [a \in Auctions |-> {}]
  /\ people = [a \in Auctions |-> {}]
  /\ key = [s \in Sockets |-> Null]
  /\ status = [a \in Auctions |-> "active"]
  /\ revoked = {}
  /\ calls = [c \in Calls |-> Idle] /\ replies = <<>>
  /\ shown = [a \in Auctions |-> 0]
  /\ events = 0
  /\ failed = FALSE /\ misread = FALSE /\ lapsed = {} /\ odd = {}

Open(s) == link[s] = "open"

\* getUniqueParticipantsCount: a user counts once, with any number of sockets.
Count(a) == Cardinality({UserOf[s] : s \in people[a]})

-----------------------------------------------------------------------------
(* How a handler waits *)

\* One of the MaxEvents things that happen to the server from outside.
Counted == events < MaxEvents /\ events' = events + 1

\* Socket s sends an event and a new handler takes it.
Event(c, s) == calls[c].pc = "idle" /\ Open(s) /\ Counted

\* The reply the handler waits for is the next one on the connection.
Replied(c, pc) == calls[c].pc = pc /\ replies # <<>> /\ Head(replies) = c

\* Mutated form: the reply stays the first one.
RestWithHead(c) == replies

\* What is left of replies once the handler at pc goes on.
Rest(c) == IF replies # <<>> /\ Head(replies) = c THEN Tail(replies) ELSE replies

Await(c, call) == calls' = [calls EXCEPT ![c] = call] /\ replies' = Append(Rest(c), c)
AwaitDb(c, call) == calls' = [calls EXCEPT ![c] = call] /\ replies' = Rest(c)
Return(c) == calls' = [calls EXCEPT ![c] = Idle] /\ replies' = Rest(c)

\* A read that is refused has a default value.
Reads(value, default, v) ==
  \/ v = value /\ UNCHANGED failed
  \/ Fault("redis_fails") /\ ~failed /\ v = default /\ failed' = TRUE

AsksActive(c, s, a, pc) ==
  \E v \in BOOLEAN : /\ Reads(status[a] = "active", FALSE, v)
                     /\ Await(c, [Call(pc, s, a) EXCEPT !.ok = v])

\* emitPresenceUpdate: the count is read now and emitted with its reply.
AsksCount(c, call) ==
  \E n \in 0 .. Cardinality(Sockets) : /\ Reads(Count(call.from), 0, n)
                                       /\ Await(c, [call EXCEPT !.count = n])

\* Two commands on the hash and on the key, sent together.
Writes(c, call, newPeople, newKey) ==
  \/ people' = newPeople /\ key' = newKey /\ Await(c, call) /\ UNCHANGED failed
  \/ /\ Fault("redis_fails") /\ ~failed /\ failed' = TRUE
     /\ people' \in {people, newPeople} /\ key' \in {key, newKey}
     /\ Await(c, [call EXCEPT !.ok = FALSE])

\* Mutated form: the key is left to its time to live.
RemovesEntry(c, call, s, a) == Writes(c, call, [people EXCEPT ![a] = @ \ {s}], key)

\* removeUserFromAuctionRoom and deleteSocketAuction.
Removes(c, call, s, a) ==
  Writes(c, call, [people EXCEPT ![a] = @ \ {s}], [key EXCEPT ![s] = Null])

\* addUserToAuctionRoom and setSocketAuction.
Adds(c, call, s, a) ==
  Writes(c, call, [people EXCEPT ![a] = @ \cup {s}], [key EXCEPT ![s] = a])

\* validateJwtUser answers: the token was valid at some time of the wait.
Accepted(c) == calls[c].ok \/ calls[c].socket \notin revoked
Refused(c) == calls[c].socket \in revoked
LookUpThrows == Fault("db_fails") /\ misread' = TRUE

LosesUser(s) == known' = known \ {s} /\ lapsed' = IF s \in known THEN lapsed \cup {s} ELSE lapsed

-----------------------------------------------------------------------------
(* Connecting: events of the socket may be handled before its user is known *)

Connect(s) ==
  /\ link[s] = "off"
  /\ link' = [link EXCEPT ![s] = "open"]
  /\ pending' = IF UserOf[s] = Null THEN pending ELSE pending \cup {s}
  /\ UNCHANGED <<known, local, redis, status, revoked, calls, replies, shown, events, history>>

\* Mutated form: the socket does not join the room of its user.
IdentifyOnly(s) ==
  /\ s \in pending /\ s \notin revoked
  /\ pending' = pending \ {s} /\ known' = known \cup {s}
  /\ UNCHANGED <<link, local, redis, status, revoked, calls, replies, shown, events, history>>

Identify(s) ==
  /\ s \in pending /\ s \notin revoked
  /\ pending' = pending \ {s} /\ known' = known \cup {s}
  /\ personal' = IF Open(s) THEN personal \cup {s} ELSE personal
  /\ UNCHANGED <<link, bound, rooms, redis, status, revoked, calls, replies, shown, events, history>>

ConnectAsGuest(s) ==
  /\ s \in pending
  /\ (s \in revoked /\ UNCHANGED misread) \/ LookUpThrows
  /\ pending' = pending \ {s} /\ LosesUser(s)
  /\ UNCHANGED <<link, local, redis, status, revoked, calls, replies, shown, events, failed, odd>>

-----------------------------------------------------------------------------
(* join:auction *)

JoinAsks(c, s, a) ==
  /\ Event(c, s)
  /\ AsksActive(c, s, a, "join_active")
  /\ UNCHANGED <<link, pending, known, local, redis, status, revoked, shown, misread, lapsed, odd>>

\* AUCTION_NOT_ACTIVE to a join, auction:ended to a rejoin.
NotActive(c) ==
  /\ Replied(c, "join_active") \/ Replied(c, "rejoin_active")
  /\ ~calls[c].ok
  /\ Return(c)
  /\ UNCHANGED <<link, pending, known, local, redis, status, revoked, shown, events, history>>

\* Mutated form: the participants of the previous auction keep the socket.
JoinLeavesRoomOnly(c) ==
  LET s == calls[c].socket  prev == bound[s] IN
  /\ Replied(c, "join_active") /\ calls[c].ok
  /\ prev \notin {Null, calls[c].auction}
  /\ rooms' = [rooms EXCEPT ![prev] = @ \ {s}]
  /\ AsksCount(c, [calls[c] EXCEPT !.pc = "join_counting", !.from = prev])
  /\ UNCHANGED <<link, pending, known, bound, personal, redis, status, revoked, shown, events,
                 misread, lapsed, odd>>

\* The socket is in another auction: it leaves that one first.
JoinLeavesPrevious(c) ==
  LET s == calls[c].socket
      prev == bound[s]
      call == [calls[c] EXCEPT !.from = prev]
  IN
  /\ Replied(c, "join_active") /\ calls[c].ok
  /\ prev \notin {Null, calls[c].auction}
  /\ rooms' = [rooms EXCEPT ![prev] = @ \ {s}]
  /\ \/ s \in known /\ Removes(c, [call EXCEPT !.pc = "join_removing"], s, prev)
     \/ s \notin known /\ AsksCount(c, [call EXCEPT !.pc = "join_counting"]) /\ UNCHANGED redis
  /\ UNCHANGED <<link, pending, known, bound, personal, status, revoked, shown, events,
                 misread, lapsed, odd>>

JoinCountsPrevious(c) ==
  /\ Replied(c, "join_removing") /\ calls[c].ok
  /\ AsksCount(c, [calls[c] EXCEPT !.pc = "join_counting"])
  /\ UNCHANGED <<link, pending, known, local, redis, status, revoked, shown, events,
                 misread, lapsed, odd>>

InOtherRoom(s, a) == \E b \in Auctions \ {a} : s \in rooms[b]

\* client.join and client.data.auctionId, then the entries of a user.
Enters(c, isUser) ==
  LET s == calls[c].socket  a == calls[c].auction IN
  /\ rooms' = IF Open(s) THEN [rooms EXCEPT ![a] = @ \cup {s}] ELSE rooms
  /\ bound' = [bound EXCEPT ![s] = a]
  /\ odd' = IF ~Open(s) \/ InOtherRoom(s, a) \/ (~isUser /\ s \in pending)
            THEN odd \cup {s} ELSE odd

JoinsAsUser(c, pc) ==
  Enters(c, TRUE) /\ Adds(c, [calls[c] EXCEPT !.pc = pc], calls[c].socket, calls[c].auction)

JoinEnters(c) ==
  /\ \/ /\ Replied(c, "join_active") /\ calls[c].ok
        /\ bound[calls[c].socket] \in {Null, calls[c].auction} /\ UNCHANGED shown
     \/ /\ Replied(c, "join_counting")
        /\ shown' = [shown EXCEPT ![calls[c].from] = calls[c].count]
  /\ \/ calls[c].socket \in known /\ JoinsAsUser(c, "entering")
     \/ calls[c].socket \notin known /\ Enters(c, FALSE) /\ Return(c) /\ UNCHANGED <<redis, failed>>
  /\ UNCHANGED <<link, pending, known, personal, status, revoked, events, misread, lapsed>>

-----------------------------------------------------------------------------
(* What join, leave, rejoin and disconnect end with *)

\* Two commands have been answered: the count of the room follows.  A handler
\* that reads client.data.user again throws when it is gone.
Announces(c) ==
  /\ \/ Replied(c, "entering") /\ calls[c].socket \in known
     \/ Replied(c, "leaving") /\ calls[c].socket \in known
     \/ Replied(c, "removing")
     \/ Replied(c, "rejoin_reading") /\ calls[c].socket \in known
  /\ calls[c].ok
  /\ AsksCount(c, [calls[c] EXCEPT !.pc = "counting", !.from = calls[c].auction])
  /\ UNCHANGED <<link, pending, known, local, redis, status, revoked, shown, events,
                 misread, lapsed, odd>>

\* JOIN_, LEAVE_ and REJOIN_AUCTION_ERROR; a rejoined guest.
Ends(c) ==
  /\ \/ \E pc \in {"join_removing", "entering", "leaving", "removing", "rejoining"} :
          Replied(c, pc) /\ ~calls[c].ok
     \/ \E pc \in {"entering", "leaving", "rejoin_reading"} :
          Replied(c, pc) /\ calls[c].ok /\ calls[c].socket \notin known
  /\ Return(c)
  /\ UNCHANGED <<link, pending, known, local, redis, status, revoked, shown, events, history>>

\* Mutated form: emitted by the socket of the handler, not by the server.
PresenceFromSocket(c) ==
  /\ Replied(c, "counting")
  /\ shown' = IF Open(calls[c].socket)
              THEN [shown EXCEPT ![calls[c].from] = calls[c].count] ELSE shown
  /\ Return(c)
  /\ UNCHANGED <<link, pending, known, local, redis, status, revoked, events, history>>

PresenceUpdate(c) ==
  /\ Replied(c, "counting")
  /\ shown' = [shown EXCEPT ![calls[c].from] = calls[c].count]
  /\ Return(c)
  /\ UNCHANGED <<link, pending, known, local, redis, status, revoked, events, history>>

-----------------------------------------------------------------------------
(* leave:auction: whatever auction the event names, the socket is bound to
   none afterwards. *)

LeaveRoom(c, s, a) ==
  /\ Event(c, s)
  /\ rooms' = [rooms EXCEPT ![a] = @ \ {s}]
  /\ bound' = [bound EXCEPT ![s] = Null]
  /\ odd' = IF bound[s] \in {Null, a} THEN odd ELSE odd \cup {s}
  /\ \/ s \in known /\ Removes(c, Call("leaving", s, a), s, a)
     \/ s \notin known /\ UNCHANGED <<redis, calls, replies, failed>>
  /\ UNCHANGED <<link, pending, known, personal, status, revoked, shown, misread, lapsed>>

-----------------------------------------------------------------------------
(* rejoin:auction: joins without leaving the previous room *)

RejoinAsks(c, s, a) ==
  /\ Event(c, s)
  /\ AsksActive(c, s, a, "rejoin_active")
  /\ UNCHANGED <<link, pending, known, local, redis, status, revoked, shown, misread, lapsed, odd>>

RejoinLooksUp(c) ==
  LET s == calls[c].socket IN
  /\ Replied(c, "rejoin_active") /\ calls[c].ok /\ UserOf[s] # Null
  /\ AwaitDb(c, [calls[c] EXCEPT !.pc = "rejoin_user", !.ok = s \notin revoked])
  /\ UNCHANGED <<link, pending, known, local, redis, status, revoked, shown, events, history>>

RejoinsAsUser(c) ==
  /\ calls[c].pc = "rejoin_user" /\ Accepted(c)
  /\ known' = known \cup {calls[c].socket}
  /\ Enters(c, TRUE)
  /\ Adds(c, [calls[c] EXCEPT !.pc = "rejoining", !.ok = TRUE], calls[c].socket, calls[c].auction)
  /\ UNCHANGED <<link, pending, personal, status, revoked, shown, events, misread, lapsed>>

\* A guest has no entries; getCurrentState reads what concerns nobody here.
RejoinsAsGuest(c) ==
  /\ \/ /\ Replied(c, "rejoin_active") /\ calls[c].ok /\ UserOf[calls[c].socket] = Null
        /\ UNCHANGED <<known, misread, lapsed>>
     \/ /\ calls[c].pc = "rejoin_user"
        /\ (Refused(c) /\ UNCHANGED misread) \/ LookUpThrows
        /\ LosesUser(calls[c].socket)
  /\ Enters(c, FALSE)
  /\ Await(c, [calls[c] EXCEPT !.pc = "rejoin_reading", !.ok = TRUE])
  /\ UNCHANGED <<link, pending, personal, redis, status, revoked, shown, events, failed>>

RejoinReads(c) ==
  /\ Replied(c, "rejoining") /\ calls[c].ok
  /\ Await(c, [calls[c] EXCEPT !.pc = "rejoin_reading"])
  /\ UNCHANGED <<link, pending, known, local, redis, status, revoked, shown, events, history>>

-----------------------------------------------------------------------------
(* request:current:state: the state of the auction the socket was bound to
   when it asked, whatever it is bound to when the reply comes. *)

StateAsked(c, s) ==
  /\ Event(c, s) /\ bound[s] # Null
  /\ Await(c, Call("state_reading", s, bound[s]))
  /\ UNCHANGED <<link, pending, known, local, redis, status, revoked, shown, history>>

StateSent(c) ==
  /\ Replied(c, "state_reading") /\ Return(c)
  /\ UNCHANGED <<link, pending, known, local, redis, status, revoked, shown, events, history>>

-----------------------------------------------------------------------------
(* place:bid, up to BidService.placeBid *)

\* WsJwtGuard.canActivate authenticates a socket that has no user;
\* revalidateSocket then looks the user up again.
BidLooksUp(c, s) ==
  /\ Event(c, s) /\ UserOf[s] # Null
  /\ AwaitDb(c, [Call(IF s \in known THEN "bid_user" ELSE "bid_guard", s, Null)
                   EXCEPT !.ok = s \notin revoked])
  /\ UNCHANGED <<link, pending, known, local, redis, status, revoked, shown, history>>

GuardAdmits(c) ==
  LET s == calls[c].socket IN
  /\ calls[c].pc = "bid_guard" /\ Accepted(c)
  /\ known' = known \cup {s}
  /\ odd' = IF s \in known \/ bound[s] = Null THEN odd ELSE odd \cup {s}
  /\ AwaitDb(c, [calls[c] EXCEPT !.pc = "bid_user", !.ok = s \notin revoked])
  /\ UNCHANGED <<link, pending, local, redis, status, revoked, shown, events, failed, misread, lapsed>>

GuardRefuses(c) ==
  /\ calls[c].pc = "bid_guard"
  /\ (Refused(c) /\ UNCHANGED misread) \/ LookUpThrows
  /\ Return(c)
  /\ UNCHANGED <<link, pending, known, local, redis, status, revoked, shown, events, failed, lapsed, odd>>

\* client.disconnect(): the socket leaves its rooms at once.
Closes(s) ==
  /\ link' = [link EXCEPT ![s] = "closed"]
  /\ rooms' = [a \in Auctions |-> rooms[a] \ {s}]
  /\ personal' = personal \ {s}

\* Mutated form: the entries of a closed socket stay.
LeavesSilently(c, s, isUser) == Return(c) /\ UNCHANGED <<redis, failed>>

\* onClientDisconnect removes the entries of a user who is in an auction.
Leaves(c, s, isUser) ==
  \/ /\ isUser /\ bound[s] # Null
     /\ Removes(c, Call("removing", s, bound[s]), s, bound[s])
  \/ ~isUser /\ Return(c) /\ UNCHANGED <<redis, failed>>
  \/ bound[s] = Null /\ Return(c) /\ UNCHANGED <<redis, failed>>

\* UNAUTHORIZED, the token has expired: the user is forgotten before the socket
\* is closed.
RevalidationFails(c) ==
  LET s == calls[c].socket IN
  /\ calls[c].pc = "bid_user" /\ Refused(c)
  /\ LosesUser(s)
  /\ IF Open(s) THEN Closes(s) ELSE UNCHANGED <<link, rooms, personal>>
  /\ Return(c)
  /\ UNCHANGED <<pending, bound, redis, status, revoked, shown, events, failed, misread, odd>>

\* UNAUTHORIZED, validateJwtUser throws, for a user who is gone or changed the
\* password or because the look-up failed: the user is still there when the
\* socket closes.
RevalidationThrows(c) ==
  LET s == calls[c].socket IN
  /\ calls[c].pc = "bid_user"
  /\ (Refused(c) /\ UNCHANGED misread) \/ LookUpThrows
  /\ \/ Open(s) /\ Closes(s) /\ Leaves(c, s, s \in known)
     \/ ~Open(s) /\ Return(c) /\ UNCHANGED <<link, rooms, personal, redis, failed>>
  /\ UNCHANGED <<pending, known, bound, status, revoked, shown, events, lapsed, odd>>

BidReadsKey(c) ==
  LET s == calls[c].socket IN
  /\ calls[c].pc = "bid_user" /\ Accepted(c)
  /\ known' = known \cup {s}
  /\ \/ /\ bound[s] # Null
        /\ \E v \in BOOLEAN : /\ Reads(key[s] = bound[s], FALSE, v)
                              /\ Await(c, [calls[c] EXCEPT !.pc = "bid_key", !.ok = v, !.auction = bound[s]])
     \/ bound[s] = Null /\ Return(c) /\ UNCHANGED failed
  /\ UNCHANGED <<link, pending, local, redis, status, revoked, shown, events, misread, lapsed, odd>>

\* NOT_IN_AUCTION_ROOM, or the bid goes on to placeBid for calls[c].auction.
BidChecked(c) ==
  /\ Replied(c, "bid_key")
  /\ Return(c)
  /\ UNCHANGED <<link, pending, known, local, redis, status, revoked, shown, events, history>>

-----------------------------------------------------------------------------
(* The client goes away; the environment *)

Disconnect(c, s) ==
  /\ Open(s) /\ calls[c].pc = "idle"
  /\ Closes(s)
  /\ Leaves(c, s, s \in known)
  /\ UNCHANGED <<pending, known, bound, status, revoked, shown, events, misread, lapsed, odd>>

\* The token expires, or the user changes the password or is deleted.
Revoke(s) ==
  /\ Counted
  /\ UserOf[s] # Null /\ s \notin revoked
  /\ revoked' = revoked \cup {s}
  /\ UNCHANGED <<link, pending, known, local, redis, status, calls, replies, shown, history>>

\* The active key expires; cleanupAuction deletes the hash with it.
AuctionExpires(a) ==
  /\ Counted
  /\ status[a] = "active"
  /\ status' = [status EXCEPT ![a] = "expired"]
  /\ UNCHANGED <<link, pending, known, local, redis, revoked, calls, replies, shown, history>>

CleanupAuction(a) ==
  /\ Counted
  /\ status[a] # "cleaned"
  /\ status' = [status EXCEPT ![a] = "cleaned"]
  /\ people' = [people EXCEPT ![a] = {}]
  /\ UNCHANGED <<link, pending, known, local, key, revoked, calls, replies, shown, history>>

KeyExpires(s) ==
  /\ Counted
  /\ Fault("key_expires") /\ key[s] # Null
  /\ key' = [key EXCEPT ![s] = Null]
  /\ UNCHANGED <<link, pending, known, local, people, status, revoked, calls, replies, shown, history>>

-----------------------------------------------------------------------------

Sends(c, s) ==
  \/ \E a \in Auctions : JoinAsks(c, s, a) \/ LeaveRoom(c, s, a) \/ RejoinAsks(c, s, a)
  \/ StateAsked(c, s) \/ BidLooksUp(c, s) \/ Disconnect(c, s)

Goes(c) ==
  \/ NotActive(c) \/ JoinLeavesPrevious(c) \/ JoinCountsPrevious(c) \/ JoinEnters(c)
  \/ Announces(c) \/ Ends(c) \/ PresenceUpdate(c)
  \/ RejoinLooksUp(c) \/ RejoinsAsUser(c) \/ RejoinsAsGuest(c) \/ RejoinReads(c) \/ StateSent(c)
  \/ GuardAdmits(c) \/ GuardRefuses(c)
  \/ RevalidationFails(c) \/ RevalidationThrows(c) \/ BidReadsKey(c) \/ BidChecked(c)

Next ==
  \/ \E c \in Calls : Goes(c) \/ \E s \in Sockets : Sends(c, s)
  \/ \E s \in Sockets : Connect(s) \/ Identify(s) \/ ConnectAsGuest(s) \/ Revoke(s) \/ KeyExpires(s)
  \/ \E a \in Auctions : AuctionExpires(a) \/ CleanupAuction(a)

Spec == Init /\ [][Next]_vars

-----------------------------------------------------------------------------
(* Properties *)

DbSteps == {"rejoin_user", "bid_guard", "bid_user"}
RedisSteps == {"join_active", "join_removing", "join_counting", "entering", "counting", "leaving",
               "removing", "rejoin_active", "rejoining", "rejoin_reading", "state_reading", "bid_key"}

CallType ==
  [pc : {"idle"} \cup DbSteps \cup RedisSteps, socket : Sockets \cup {Null},
   auction : Auctions \cup {Null}, from : Auctions \cup {Null}, ok : BOOLEAN,
   count : 0 .. Cardinality(Sockets)]

\* Types; and replies holds each handler that waits for Redis exactly once.
TypeOK ==
  /\ link \in [Sockets -> {"off", "open", "closed"}]
  /\ pending \subseteq Sockets /\ known \subseteq Sockets /\ personal \subseteq Sockets
  /\ revoked \subseteq Sockets /\ lapsed \subseteq Sockets /\ odd \subseteq Sockets
  /\ bound \in [Sockets -> Auctions \cup {Null}] /\ key \in [Sockets -> Auctions \cup {Null}]
  /\ rooms \in [Auctions -> SUBSET Sockets] /\ people \in [Auctions -> SUBSET Sockets]
  /\ status \in [Auctions -> {"active", "expired", "cleaned"}]
  /\ calls \in [Calls -> CallType] /\ replies \in Seq(Calls)
  /\ shown \in [Auctions -> 0 .. Cardinality(Sockets)]
  /\ events \in 0 .. MaxEvents /\ failed \in BOOLEAN /\ misread \in BOOLEAN
  /\ \A c \in Calls : calls[c].pc \in RedisSteps <=> \E i \in 1 .. Len(replies) : replies[i] = c
  /\ \A i, j \in 1 .. Len(replies) : replies[i] = replies[j] => i = j

Quiet == pending = {} /\ \A c \in Calls : calls[c].pc = "idle"

\* A socket's key names an auction only while the participants hash of that
\* auction has the socket, whatever events were handled at the same time:
\* until the hash is deleted with the auction, or a command was refused.
BoundSocketsAreCounted ==
  failed \/ \A s \in Sockets : \A a \in Auctions :
              key[s] = a /\ status[a] # "cleaned" => s \in people[a]

\* The two places place:bid compares agree only for a socket that is in the
\* room, so a bid is never taken from a socket that left it.
BidsComeFromTheRoom ==
  failed \/ \A s \in Sockets \ lapsed :
              key[s] # Null /\ key[s] = bound[s] /\ Open(s) => s \in rooms[key[s]]

\* When no handler is in progress the last presence:update of a running
\* auction is the number of its users, however the handlers overlapped,
\* unless one of them lost its user on the way.
PresenceSettles ==
  Quiet /\ ~failed /\ lapsed = {} =>
    \A a \in Auctions : status[a] # "cleaned" => shown[a] = Count(a)

\* When no handler is in progress the participants of a running auction are
\* the users' sockets in its room: nobody is counted after leaving and nobody
\* is missing, for sockets that sent no irregular events (odd, lapsed).
RoomMirrorsHash ==
  Quiet /\ ~failed =>
    \A a \in Auctions, s \in Sockets \ (lapsed \cup odd) :
      status[a] # "cleaned" => (s \in people[a] <=> s \in rooms[a] /\ s \in known)

\* Every open socket that may bid is in the room auction:won is sent to.
WinnersCanBeTold ==
  misread \/ \A s \in known \ (pending \cup revoked) : Open(s) => s \in personal

=============================================================================
