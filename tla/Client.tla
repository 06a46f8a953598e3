-------------------------------- MODULE Client --------------------------------
(***************************************************************************)
(* One tab of the client: the session with its toasts, and the connection  *)
(* to a socket namespace.  What the user does, and what the network does   *)
(* to the socket, are the events of a run.                                 *)
(***************************************************************************)
EXTENDS Session, SocketLink

CONSTANT MaxEvents   (* bound: events *)

ASSUME ClientAssumption == MaxEvents \in Nat

VARIABLE events

vars == <<sessionVars, linkVars, events>>

Init == SessionInit /\ LinkInit /\ events = 0

Unsaid == UNCHANGED <<memory, requests, logouts, loading, page, route, history>>

\* What the user does, and what goes wrong in the browser.
UserActs ==
  \/ \E r \in Requests : \/ Register(r) \/ Login(r) \/ ForgotPassword(r) \/ ResetPassword(r)
                         \/ ResendVerification(r) \/ ApiRequest(r)
  \/ \E target \in {"register", "login", "forgot", "home"} : Navigate(target)
  \/ \E target \in Pages : Loads(target)
  \/ OAuthLogin \/ ClosePopup
  \/ \E m \in Messages : HandleError(m)
  \/ \E i \in 1 .. MaxToasts : CloseToast(i) /\ Unsaid

LinkActs ==
  \/ \E i \in Ids : Connect(i) \/ Drops(i) \/ ConnectFails(i)
  \/ Disconnect
  \/ \E s \in Subscriptions : Subscribe(s) \/ Unsubscribe(s)

\* What follows by itself.
SessionGoes ==
  \/ \E r \in Requests :
       \/ VerifyFromQueryToken(r) \/ ProcessCallback(r)
       \/ SignsIn(r) \/ Succeeds(r) \/ RefreshSucceeds(r)
       \/ \E m \in Messages :
            \/ Waits(r, m) \/ GivesUp(r, m) \/ StartsRefresh(r, m)
            \/ \E code \in {401, 500} : Fails(r, code, m) \/ RefreshFails(r, code, m)
  \/ LogoutAnswered \/ GuestGuard \/ AuthGuard \/ SilentSucceeds
  \/ \E code \in {401, 500} : SilentFails(code)
  \/ \E i \in 1 .. MaxToasts : (ToastTimer(i) \/ RemoveToast(i)) /\ Unsaid

Next ==
  \/ UserActs /\ events < MaxEvents /\ events' = events + 1 /\ UNCHANGED linkVars
  \/ LinkActs /\ events < MaxEvents /\ events' = events + 1 /\ UNCHANGED sessionVars
  \/ SessionGoes /\ UNCHANGED <<linkVars, events>>
  \/ (\E i \in Ids : Opens(i)) /\ UNCHANGED <<sessionVars, events>>

Spec == Init /\ [][Next]_vars

\* Types, and the spinner of the session.
TypeOK == SessionTypeOK /\ LinkTypeOK /\ events \in 0 .. MaxEvents

===============================================================================
