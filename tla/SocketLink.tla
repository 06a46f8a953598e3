----------------------------- MODULE SocketLink -----------------------------
(***************************************************************************)
(* A namespace's connection in the client (SocketConnection, SocketService)*)
(* over the sockets that socket.io-client makes for it.  A socket keeps    *)
(* reconnecting by itself until it is disconnected, by us or by the server,*)
(* or has failed too often.  Each socket carries its own listeners; those  *)
(* registered with on() before there is a socket wait for the next one.    *)
(* In this version of socket.io-client the events reconnect and            *)
(* reconnect_attempt are not sent to sockets.                              *)
(***************************************************************************)
EXTENDS Naturals, FiniteSets

CONSTANTS MaxSockets,    (* bound: sockets made *)
          Subscriptions,
          NoSocket

ASSUME SocketLinkAssumption == MaxSockets \in Nat /\ NoSocket \notin Nat

VARIABLES sockets,    (* of each socket, its transport                      *)
          socket,     (* SocketConnection.socket                            *)
          status, socketId,
          subs,       (* of each on(): none, pending, ended, or its socket  *)
          replaced    (* history: connect() while a socket was not closed   *)

linkVars == <<sockets, socket, status, socketId, subs, replaced>>

Ids == 1 .. MaxSockets

LinkInit ==
  /\ sockets = [i \in Ids |-> "none"] /\ socket = NoSocket
  /\ status = "disconnected" /\ socketId = NoSocket
  /\ subs = [s \in Subscriptions |-> [pc |-> "none", at |-> NoSocket]]
  /\ replaced = FALSE

Is(state) == {i \in Ids : sockets[i] = state}
Live == Is("connecting") \cup Is("open") \cup Is("down")
IsConnected == socket \in Is("open")

\* Only a connected socket keeps connect() from making another.
Connect(i) ==
  /\ ~IsConnected
  /\ sockets[i] = "none" /\ \A j \in 1 .. i - 1 : sockets[j] # "none"
  /\ sockets' = [sockets EXCEPT ![i] = "connecting"]
  /\ socket' = i /\ status' = "connecting"
  /\ subs' = [s \in Subscriptions |->
                IF subs[s].pc = "pending" THEN [pc |-> "attached", at |-> i] ELSE subs[s]]
  /\ replaced' = (replaced \/ socket \in Live)
  /\ UNCHANGED socketId

\* Mutated form: the socket is forgotten, not closed.
DisconnectForgetting ==
  /\ socket' = NoSocket /\ status' = "disconnected" /\ socketId' = NoSocket
  /\ subs' = [s \in Subscriptions |-> IF subs[s].pc = "pending" THEN [subs[s] EXCEPT !.pc = "ended"] ELSE subs[s]]
  /\ UNCHANGED <<sockets, replaced>>

\* Pending on() calls end; listeners of the closed socket are not told.
Disconnect ==
  /\ sockets' = [i \in Ids |-> IF i = socket THEN "closed" ELSE sockets[i]]
  /\ socket' = NoSocket /\ status' = "disconnected" /\ socketId' = NoSocket
  /\ subs' = [s \in Subscriptions |-> IF subs[s].pc = "pending" THEN [subs[s] EXCEPT !.pc = "ended"] ELSE subs[s]]
  /\ UNCHANGED replaced

Subscribe(s) ==
  /\ subs[s].pc \in {"none", "ended"}
  /\ subs' = [subs EXCEPT ![s] = IF socket = NoSocket THEN [pc |-> "pending", at |-> NoSocket]
                                                      ELSE [pc |-> "attached", at |-> socket]]
  /\ UNCHANGED <<sockets, socket, status, socketId, replaced>>

Unsubscribe(s) ==
  /\ subs[s].pc \in {"pending", "attached"}
  /\ subs' = [subs EXCEPT ![s].pc = "ended"]
  /\ UNCHANGED <<sockets, socket, status, socketId, replaced>>

-----------------------------------------------------------------------------
(* What the transport tells the core listeners, also those of a socket that
   was replaced *)

Opens(i) ==
  /\ sockets[i] \in {"connecting", "down"}
  /\ sockets' = [sockets EXCEPT ![i] = "open"]
  /\ status' = "connected"
  /\ socketId' = IF socket \in Is("open") \cup {i} THEN socket ELSE NoSocket
  /\ UNCHANGED <<socket, subs, replaced>>

\* By the network, and it reconnects; or by the server, and it does not.
Drops(i) ==
  /\ sockets[i] = "open"
  /\ sockets' \in {[sockets EXCEPT ![i] = "down"], [sockets EXCEPT ![i] = "closed"]}
  /\ status' = "disconnected" /\ socketId' = NoSocket
  /\ UNCHANGED <<socket, subs, replaced>>

\* One more attempt, or the last one.
ConnectFails(i) ==
  /\ sockets[i] \in {"connecting", "down"}
  /\ sockets' \in {sockets, [sockets EXCEPT ![i] = "closed"]}
  /\ status' = "error"
  /\ UNCHANGED <<socket, socketId, subs, replaced>>

-----------------------------------------------------------------------------
(* Properties *)

LinkTypeOK ==
  /\ sockets \in [Ids -> {"none", "connecting", "open", "down", "closed"}]
  /\ socket \in Ids \cup {NoSocket} /\ socketId \in Ids \cup {NoSocket}
  /\ status \in {"disconnected", "connecting", "connected", "error"}
  /\ subs \in [Subscriptions -> [pc : {"none", "pending", "attached", "ended"}, at : Ids \cup {NoSocket}]]
  /\ replaced \in BOOLEAN

\* The status and the id the client shows are those of its one live socket,
\* and no subscriber listens to a socket other than that while it is alive,
\* unless connect() was called again before the socket was connected.
SocketIsCurrent ==
  replaced \/ /\ Live \subseteq {socket}
              /\ (status = "connected") <=> IsConnected
              /\ (socketId # NoSocket) <=> IsConnected
              /\ \A s \in Subscriptions :
                   /\ subs[s].pc = "attached" => subs[s].at = socket \/ subs[s].at \in Is("closed")
                   /\ subs[s].pc = "pending" => socket = NoSocket

=============================================================================
