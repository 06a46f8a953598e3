----------------------------- MODULE ClientProofs -----------------------------
(***************************************************************************)
(* Proofs about Client for any number of requests, messages, toasts,       *)
(* sockets and subscriptions: waiting requests have a refresh to wait for, *)
(* a token has a user, the connection that is shown is the live one,       *)
(* toasts go away, and the spinner counts the requests in progress.        *)
(***************************************************************************)
EXTENDS Client, FiniteSetTheorems, TLAPS

-----------------------------------------------------------------------------
(* The session *)

RequestType == [kind : Kinds, pc : {"idle", "sent", "waiting", "refreshing", "again", "last"}]

SessionTypes ==
  /\ token \in BOOLEAN /\ user \in BOOLEAN /\ refreshing \in BOOLEAN /\ guarding \in BOOLEAN
  /\ abandoned \in BOOLEAN /\ overtaken \in BOOLEAN
  /\ requests \in [Requests -> RequestType]

\* A refresh, of a request or of a guard, was started for a user; a logout
\* while it is under way is remembered, or ends the guard.
SessionInv ==
  /\ SessionTypes
  /\ WaitersAreReleased
  /\ NoHalfSession
  /\ guarding => user
  /\ \A r \in Requests : requests[r].pc = "refreshing" => user \/ overtaken

\* The part of a step that says which requests wait and who refreshes.
Refreshes ==
  /\ requests' \in [Requests -> RequestType]
  /\ refreshing' \in BOOLEAN /\ abandoned' \in BOOLEAN
  /\ WaitersAreReleased'

\* The part that says whose session it is.
Owned ==
  /\ token' \in BOOLEAN /\ user' \in BOOLEAN /\ guarding' \in BOOLEAN /\ overtaken' \in BOOLEAN
  /\ NoHalfSession' /\ (guarding' => user')
  /\ \A r \in Requests : requests'[r].pc = "refreshing" => user' \/ overtaken'

LEMMA TogetherAgain == ASSUME Refreshes, Owned PROVE SessionInv'
BY DEF Refreshes, Owned, SessionInv, SessionTypes

LEMMA IdleRequest == Idle \in RequestType /\ Idle.pc = "idle"
BY DEF Idle, RequestType, Kinds, Forms

LEMMA FinishMeans ==
  ASSUME SessionTypes, NEW rs, Finish(rs)
  PROVE  /\ requests' \in [Requests -> RequestType]
         /\ \A r \in Requests : requests'[r].pc = IF r \in rs THEN "idle" ELSE requests[r].pc
BY IdleRequest DEF SessionTypes, Finish

\* Requests that end are not missed: the refresh of one of them is over, or it
\* is remembered as abandoned.
LEMMA FinishRefreshes ==
  ASSUME SessionInv, NEW rs, Finish(rs), UNCHANGED refreshing, abandoned' \in BOOLEAN,
         abandoned => abandoned',
         abandoned' \/ \A r \in Requests : r \in rs => requests[r].pc # "refreshing"
  PROVE  Refreshes
<1>1. /\ requests' \in [Requests -> RequestType]
      /\ \A r \in Requests : requests'[r].pc = IF r \in rs THEN "idle" ELSE requests[r].pc
  BY FinishMeans DEF SessionInv
<1> QED
  BY <1>1 DEF Refreshes, SessionInv, SessionTypes, WaitersAreReleased, With, Waiters

\* rejectRefresh leaves nobody waiting.
LEMMA RejectRefreshes ==
  ASSUME SessionInv, NEW rs, Rejects(rs), UNCHANGED abandoned
  PROVE  Refreshes
<1>1. /\ requests' \in [Requests -> RequestType] /\ refreshing' = FALSE
      /\ \A r \in Requests : requests'[r].pc = IF r \in rs \cup Waiters THEN "idle" ELSE requests[r].pc
  BY FinishMeans DEF Rejects, SessionInv
<1>2. \A r \in Requests : requests'[r].pc # "waiting"
  BY <1>1 DEF Waiters, With
<1> QED
  BY <1>1, <1>2 DEF Refreshes, SessionInv, SessionTypes, WaitersAreReleased, With, Waiters

LEMMA SameRefreshes ==
  ASSUME SessionInv, UNCHANGED <<requests, refreshing, abandoned>>
  PROVE  Refreshes
BY DEF Refreshes, SessionInv, SessionTypes, WaitersAreReleased, With, Waiters

\* A logout leaves no token and no user; what is refreshing is overtaken.
LEMMA LogoutOwns ==
  ASSUME SessionInv, NEW n, NEW own, LogsOut(n, own),
         \A r \in Requests : requests'[r].pc = "refreshing" => requests[r].pc = "refreshing" /\ r \notin own
  PROVE  Owned
BY DEF LogsOut, GoesTo, Owned, NoHalfSession, SessionInv, SessionTypes, With

\* The session stays as it is, or its guard ends.
LEMMA SameOwner ==
  ASSUME SessionInv, UNCHANGED <<token, user, overtaken>>, guarding' \in {guarding, FALSE},
         \A r \in Requests : requests'[r].pc = "refreshing" => requests[r].pc = "refreshing"
  PROVE  Owned
<1>1. /\ token' \in BOOLEAN /\ user' \in BOOLEAN /\ overtaken' \in BOOLEAN
      /\ NoHalfSession'
      /\ \A r \in Requests : requests'[r].pc = "refreshing" => user' \/ overtaken'
  BY DEF NoHalfSession, SessionInv, SessionTypes
<1>2. CASE guarding' = guarding
  BY <1>1, <1>2 DEF Owned, SessionInv, SessionTypes
<1>3. CASE guarding' = FALSE
  BY <1>1, <1>3 DEF Owned
<1> QED
  BY <1>2, <1>3

\* A request is sent.
LEMMA SendsKeeps ==
  ASSUME SessionInv, NEW r \in Requests, NEW kind \in Kinds, Sends(r, kind),
         UNCHANGED <<refreshing, abandoned, token, user, overtaken>>, guarding' \in {guarding, FALSE}
  PROVE  SessionInv'
<1>1. /\ requests' \in [Requests -> RequestType] /\ requests[r].pc = "idle"
      /\ \A q \in Requests : requests'[q].pc = IF q = r THEN "sent" ELSE requests[q].pc
  BY DEF Sends, SessionInv, SessionTypes, RequestType
<1>2. Refreshes
  BY <1>1 DEF Refreshes, SessionInv, SessionTypes, WaitersAreReleased, With, Waiters
<1>3. Owned
  BY <1>1, SameOwner
<1> QED
  BY <1>2, <1>3, TogetherAgain

\* A request fails for good.
LEMMA UnansweredKeeps ==
  ASSUME SessionInv, NEW r \in Requests, NEW code, NEW m, Unanswered(r, code, m), requests[r].pc # "refreshing"
  PROVE  SessionInv'
<1>1. Finish({r}) /\ UNCHANGED <<refreshing, abandoned>>
  BY DEF Unanswered
<1>2. Refreshes
  BY <1>1, FinishRefreshes DEF SessionInv, SessionTypes
<1>3. \A q \in Requests : requests'[q].pc = IF q \in {r} THEN "idle" ELSE requests[q].pc
  BY <1>1, FinishMeans DEF SessionInv
<1>4. CASE LogsOut(1, {r})
  BY <1>2, <1>3, <1>4, LogoutOwns, TogetherAgain
<1>5. CASE UNCHANGED <<token, user, overtaken>> /\ (GoesTo("login") \/ UNCHANGED route)
  BY <1>2, <1>3, <1>5, SameOwner, TogetherAgain DEF GoesTo, route
<1> QED
  BY <1>4, <1>5 DEF Unanswered

\* A page is shown, and another one left.
LEMMA ShowsRefreshes ==
  ASSUME SessionInv, NEW target, Shows(target), UNCHANGED refreshing
  PROVE  Refreshes /\ guarding' = FALSE
         /\ \A r \in Requests : requests'[r].pc = "refreshing" => requests[r].pc = "refreshing"
<1>1. /\ Finish(Left(target)) /\ guarding' = FALSE
      /\ abandoned' = (abandoned \/ \E r \in Left(target) : requests[r].pc = "refreshing")
  BY DEF Shows, Arrives
<1>2. Refreshes
  BY <1>1, FinishRefreshes DEF SessionInv, SessionTypes
<1>3. \A r \in Requests : requests'[r].pc = IF r \in Left(target) THEN "idle" ELSE requests[r].pc
  BY <1>1, FinishMeans DEF SessionInv
<1> QED
  BY <1>1, <1>2, <1>3

LEMMA SameSession ==
  ASSUME SessionInv, UNCHANGED <<token, user, refreshing, requests, abandoned, overtaken>>,
         guarding' \in {guarding, FALSE}
  PROVE  SessionInv'
BY SameRefreshes, SameOwner, TogetherAgain

LEMMA UserKeepsSession ==
  ASSUME SessionInv, UserActs
  PROVE  SessionInv'
<1>1. ASSUME NEW r \in Requests, Register(r) \/ Login(r) \/ ForgotPassword(r) \/ ResetPassword(r)
                                \/ ResendVerification(r) \/ ApiRequest(r)
      PROVE  SessionInv'
  <2>1. \E kind \in Kinds : Sends(r, kind)
    BY <1>1 DEF Register, Login, ForgotPassword, ResetPassword, ResendVerification, ApiRequest, Submits,
       Kinds, Forms
  <2>2. UNCHANGED <<refreshing, abandoned, token, user, overtaken, guarding>>
    BY <1>1 DEF Register, Login, ForgotPassword, ResetPassword, ResendVerification, ApiRequest, Submits,
       memory, history, route
  <2> QED
    BY <2>1, <2>2, SendsKeeps
<1>2. CASE (\E target \in {"register", "login", "forgot", "home"} : Navigate(target)) \/ ClosePopup
  <2>1. /\ UNCHANGED <<token, user, refreshing, requests, abandoned, overtaken>>
        /\ guarding' \in {guarding, FALSE}
    BY <1>2 DEF Navigate, ClosePopup, GoesTo, memory, history, route
  <2> QED
    BY <2>1, SameSession
<1>3. ASSUME NEW target, Loads(target)
      PROVE  SessionInv'
  <2>1. /\ token' = FALSE /\ refreshing' = FALSE /\ guarding' = FALSE
        /\ UNCHANGED <<user, abandoned, overtaken>> /\ requests' = [r \in Requests |-> Idle]
    BY <1>3 DEF Loads, GoesTo, history
  <2>2. requests' \in [Requests -> RequestType] /\ \A r \in Requests : requests'[r].pc = "idle"
    BY <2>1, IdleRequest
  <2>3. Refreshes
    BY <2>1, <2>2 DEF Refreshes, SessionInv, SessionTypes, WaitersAreReleased, With, Waiters
  <2>4. Owned
    BY <2>1, <2>2 DEF Owned, NoHalfSession, SessionInv, SessionTypes
  <2> QED
    BY <2>3, <2>4, TogetherAgain
<1>4. CASE (\E m \in Messages : HandleError(m)) \/ \E i \in 1 .. MaxToasts : CloseToast(i) /\ Unsaid
  <2>1. UNCHANGED <<token, user, refreshing, requests, abandoned, overtaken, guarding>>
    BY <1>4 DEF HandleError, Unsaid, memory, history, route
  <2> QED
    BY <2>1, SameSession
<1> QED
  BY <1>1, <1>2, <1>3, <1>4 DEF UserActs, OAuthLogin

LEMMA AnswersKeepSession ==
  ASSUME SessionInv, NEW r \in Requests,
         \/ VerifyFromQueryToken(r) \/ ProcessCallback(r)
         \/ SignsIn(r) \/ Succeeds(r) \/ RefreshSucceeds(r)
         \/ \E m \in Messages :
              \/ Waits(r, m) \/ GivesUp(r, m) \/ StartsRefresh(r, m)
              \/ \E code \in {401, 500} : Fails(r, code, m) \/ RefreshFails(r, code, m)
  PROVE  SessionInv'
<1>0. SessionTypes
  BY DEF SessionInv
<1>1. CASE VerifyFromQueryToken(r) \/ ProcessCallback(r)
  <2>1. /\ UNCHANGED <<token, user, refreshing, abandoned, overtaken>> /\ guarding' \in {guarding, FALSE}
        /\ (\E kind \in Kinds : Sends(r, kind)) \/ UNCHANGED requests
    BY <1>1 DEF VerifyFromQueryToken, ProcessCallback, GoesTo, memory, history, route, Kinds
  <2> QED
    BY <2>1, SendsKeeps, SameSession
<1>2. CASE SignsIn(r)
  <2>1. /\ Finish({r}) /\ requests[r].pc # "refreshing" /\ UNCHANGED <<refreshing, abandoned>>
        /\ token' = TRUE /\ user' = TRUE /\ guarding' = FALSE /\ UNCHANGED overtaken
    BY <1>2 DEF SignsIn, Answered, With, GoesTo, history
  <2>2. Refreshes
    BY <1>0, <2>1, FinishRefreshes DEF SessionTypes
  <2>3. Owned
    BY <1>0, <2>1 DEF Owned, NoHalfSession, SessionTypes
  <2> QED
    BY <2>2, <2>3, TogetherAgain
<1>3. CASE Succeeds(r)
  <2>1. /\ Finish({r}) /\ requests[r].pc # "refreshing" /\ UNCHANGED <<refreshing, abandoned>>
        /\ UNCHANGED <<token, user, overtaken, guarding>>
    BY <1>3 DEF Succeeds, Answered, With, memory, history, route
  <2>2. Refreshes
    BY <1>0, <2>1, FinishRefreshes DEF SessionTypes
  <2>3. \A q \in Requests : requests'[q].pc = IF q \in {r} THEN "idle" ELSE requests[q].pc
    BY <1>0, <2>1, FinishMeans
  <2>4. Owned
    BY <2>1, <2>3, SameOwner
  <2> QED
    BY <2>2, <2>4, TogetherAgain
<1>4. CASE RefreshSucceeds(r)
  <2>1. /\ requests[r].pc = "refreshing" /\ refreshing' = FALSE /\ token' = TRUE
        /\ UNCHANGED <<user, abandoned, overtaken, guarding>>
        /\ requests' = [q \in Requests |-> IF q = r THEN [requests[q] EXCEPT !.pc = "last"]
                                            ELSE IF q \in Waiters THEN [requests[q] EXCEPT !.pc = "again"]
                                            ELSE requests[q]]
    BY <1>4 DEF RefreshSucceeds, history, route
  <2>2. requests' \in [Requests -> RequestType]
    BY <1>0, <2>1 DEF SessionTypes, RequestType
  <2>3. \A q \in Requests : requests'[q].pc = IF q = r THEN "last" ELSE IF q \in Waiters THEN "again" ELSE requests[q].pc
    BY <1>0, <2>1 DEF SessionTypes, RequestType
  <2>4. \A q \in Requests : requests'[q].pc # "waiting" /\ (requests'[q].pc = "refreshing" => requests[q].pc = "refreshing")
    BY <2>3 DEF Waiters, With
  <2>5. Refreshes
    <3>1. refreshing' = FALSE /\ abandoned' = abandoned /\ abandoned \in BOOLEAN
      BY <1>0, <2>1 DEF SessionTypes
    <3>2. WaitersAreReleased'
      BY <2>4, <3>1 DEF WaitersAreReleased, With, Waiters
    <3> QED
      BY <2>2, <3>1, <3>2 DEF Refreshes
  <2>6. Owned
    BY <1>0, <2>1, <2>4 DEF Owned, NoHalfSession, SessionInv, SessionTypes
  <2> QED
    BY <2>5, <2>6, TogetherAgain
<1>5. ASSUME NEW m \in Messages, Waits(r, m)
      PROVE  SessionInv'
  <2>1. requests' = [requests EXCEPT ![r].pc = "waiting"] /\ refreshing /\ UNCHANGED <<refreshing, abandoned>>
        /\ requests[r].pc = "sent"
    BY <1>5 DEF Waits, Goto
  <2>2. /\ requests' \in [Requests -> RequestType]
        /\ \A q \in Requests : requests'[q].pc = IF q = r THEN "waiting" ELSE requests[q].pc
    BY <1>0, <2>1 DEF SessionTypes, RequestType
  <2>3. Refreshes
    BY <1>0, <2>1, <2>2 DEF Refreshes, SessionInv, SessionTypes, WaitersAreReleased, With, Waiters
  <2>4. CASE LogsOut(1, {})
    BY <2>2, <2>3, <2>4, LogoutOwns, TogetherAgain
  <2>5. CASE UNCHANGED <<token, user, route, overtaken>>
    BY <2>2, <2>3, <2>5, SameOwner, TogetherAgain DEF route
  <2> QED
    BY <1>5, <2>4, <2>5 DEF Waits
<1>6. ASSUME NEW m \in Messages, GivesUp(r, m)
      PROVE  SessionInv'
  BY <1>6, UnansweredKeeps DEF GivesUp
<1>7. ASSUME NEW m \in Messages, StartsRefresh(r, m)
      PROVE  SessionInv'
  <2>1. requests' = [requests EXCEPT ![r].pc = "refreshing"] /\ refreshing' = TRUE /\ user
        /\ UNCHANGED <<token, user, abandoned, overtaken, guarding>>
    BY <1>7 DEF StartsRefresh, Goto, history, route
  <2>2. /\ requests' \in [Requests -> RequestType]
        /\ \A q \in Requests : requests'[q].pc = IF q = r THEN "refreshing" ELSE requests[q].pc
    BY <1>0, <2>1 DEF SessionTypes, RequestType
  <2>3. Refreshes
    BY <1>0, <2>1, <2>2 DEF Refreshes, SessionTypes, WaitersAreReleased, With, Waiters
  <2>4. Owned
    BY <1>0, <2>1, <2>2 DEF Owned, NoHalfSession, SessionInv, SessionTypes
  <2> QED
    BY <2>3, <2>4, TogetherAgain
<1>8. ASSUME NEW m \in Messages, NEW code \in {401, 500}, Fails(r, code, m)
      PROVE  SessionInv'
  BY <1>8, UnansweredKeeps DEF Fails, Answered, With
<1>9. ASSUME NEW m \in Messages, NEW code \in {401, 500}, RefreshFails(r, code, m)
      PROVE  SessionInv'
  <2>1. Rejects({r}) /\ UNCHANGED abandoned /\ LogsOut(IF Refused(code) THEN 2 ELSE 1, {r})
    BY <1>9 DEF RefreshFails
  <2>2. Refreshes
    BY <2>1, RejectRefreshes
  <2>3. \A q \in Requests : requests'[q].pc = IF q \in {r} \cup Waiters THEN "idle" ELSE requests[q].pc
    BY <1>0, <2>1, FinishMeans DEF Rejects
  <2>4. Owned
    BY <2>1, <2>3, LogoutOwns
  <2> QED
    BY <2>2, <2>4, TogetherAgain
<1> QED
  BY <1>1, <1>2, <1>3, <1>4, <1>5, <1>6, <1>7, <1>8, <1>9

LEMMA RoutesKeepSession ==
  ASSUME SessionInv,
         \/ LogoutAnswered \/ GuestGuard \/ AuthGuard \/ SilentSucceeds
         \/ \E code \in {401, 500} : SilentFails(code)
         \/ \E i \in 1 .. MaxToasts : (ToastTimer(i) \/ RemoveToast(i)) /\ Unsaid
  PROVE  SessionInv'
<1>0. SessionTypes
  BY DEF SessionInv
<1>1. CASE LogoutAnswered \/ \E i \in 1 .. MaxToasts : (ToastTimer(i) \/ RemoveToast(i)) /\ Unsaid
  <2>1. UNCHANGED <<token, user, refreshing, requests, abandoned, overtaken, guarding>>
    BY <1>1 DEF LogoutAnswered, Unsaid, memory, history, route
  <2> QED
    BY <2>1, SameSession
<1>2. CASE GuestGuard
  <2>1. UNCHANGED <<token, user, refreshing, overtaken>>
    BY <1>2 DEF GuestGuard, memory
  <2>2. CASE GoesTo("home") /\ UNCHANGED <<page, requests, loading, abandoned>>
    BY <2>1, <2>2, SameSession DEF GoesTo
  <2>3. CASE Shows(nav)
    BY <2>1, <2>3, ShowsRefreshes, SameOwner, TogetherAgain
  <2> QED
    BY <1>2, <2>2, <2>3 DEF GuestGuard
<1>3. CASE AuthGuard
  <2>1. UNCHANGED <<token, user, refreshing, overtaken>>
    BY <1>3 DEF AuthGuard, memory
  <2>2. CASE Shows("home")
    BY <2>1, <2>2, ShowsRefreshes, SameOwner, TogetherAgain
  <2>3. CASE user /\ guarding' = TRUE /\ UNCHANGED <<requests, abandoned>>
    <3>1. Refreshes
      BY <2>1, <2>3, SameRefreshes
    <3>2. Owned
      BY <1>0, <2>1, <2>3 DEF Owned, NoHalfSession, SessionInv, SessionTypes
    <3> QED
      BY <3>1, <3>2, TogetherAgain
  <2>4. CASE GoesTo("login") /\ UNCHANGED <<requests, abandoned>>
    BY <2>1, <2>4, SameSession DEF GoesTo
  <2> QED
    BY <1>3, <2>2, <2>3, <2>4 DEF AuthGuard
<1>4. CASE SilentSucceeds
  <2>1. /\ user /\ token' = TRUE /\ Shows("home") /\ UNCHANGED <<user, refreshing, overtaken>>
    BY <1>4 DEF SilentSucceeds, SessionInv
  <2>2. /\ Refreshes /\ guarding' = FALSE
        /\ \A r \in Requests : requests'[r].pc = "refreshing" => requests[r].pc = "refreshing"
    BY <2>1, ShowsRefreshes
  <2>3. Owned
    BY <1>0, <2>1, <2>2 DEF Owned, NoHalfSession, SessionTypes
  <2> QED
    BY <2>2, <2>3, TogetherAgain
<1>5. ASSUME NEW code \in {401, 500}, SilentFails(code)
      PROVE  SessionInv'
  <2>1. LogsOut(1, {}) /\ UNCHANGED abandoned
    BY <1>5 DEF SilentFails
  <2>2. CASE UNCHANGED <<refreshing, requests>>
    BY <2>1, <2>2, SameRefreshes, LogoutOwns, TogetherAgain
  <2>3. CASE Rejects({})
    <3>1. \A q \in Requests : requests'[q].pc = IF q \in Waiters THEN "idle" ELSE requests[q].pc
      BY <1>0, <2>3, FinishMeans DEF Rejects
    <3> QED
      BY <2>1, <2>3, <3>1, RejectRefreshes, LogoutOwns, TogetherAgain
  <2> QED
    BY <1>5, <2>2, <2>3 DEF SilentFails
<1> QED
  BY <1>1, <1>2, <1>3, <1>4, <1>5

LEMMA SessionStarts == ASSUME SessionInit PROVE SessionInv
<1>1. /\ token = FALSE /\ user \in BOOLEAN /\ refreshing = FALSE /\ guarding = FALSE
      /\ abandoned = FALSE /\ overtaken = FALSE
      /\ requests = [r \in Requests |-> Idle]
  BY DEF SessionInit
<1>2. requests \in [Requests -> RequestType] /\ \A r \in Requests : requests[r].pc = "idle"
  BY <1>1, IdleRequest
<1> QED
  BY <1>1, <1>2 DEF SessionInv, SessionTypes, WaitersAreReleased, NoHalfSession, With, Waiters

LEMMA SessionStep == ASSUME SessionInv, [Next]_vars PROVE SessionInv'
<1>1. CASE UserActs
  BY <1>1, UserKeepsSession
<1>2. CASE SessionGoes
  BY <1>2, AnswersKeepSession, RoutesKeepSession DEF SessionGoes
<1>3. CASE UNCHANGED sessionVars
  <2>1. UNCHANGED <<token, user, refreshing, requests, abandoned, overtaken, guarding>>
    BY <1>3 DEF sessionVars, memory, history, route
  <2> QED
    BY <2>1, SameSession
<1> QED
  BY <1>1, <1>2, <1>3 DEF Next, vars

\* For any number of requests at once: who waits for a token has a refresh to
\* wait for, or its page was left.
THEOREM WaitersReleased == Spec => []WaitersAreReleased
<1>1. Init => SessionInv
  BY SessionStarts DEF Init
<1>2. SessionInv /\ [Next]_vars => SessionInv'
  BY SessionStep
<1>3. SessionInv => WaitersAreReleased
  BY DEF SessionInv
<1> QED
  BY <1>1, <1>2, <1>3, PTL DEF Spec

\* For any number of requests at once: a token belongs to a user, or a logout
\* overtook a refresh.
THEOREM TokensHaveUsers == Spec => []NoHalfSession
<1>1. Init => SessionInv
  BY SessionStarts DEF Init
<1>2. SessionInv /\ [Next]_vars => SessionInv'
  BY SessionStep
<1>3. SessionInv => NoHalfSession
  BY DEF SessionInv
<1> QED
  BY <1>1, <1>2, <1>3, PTL DEF Spec

-----------------------------------------------------------------------------
(* The connection *)

\* The current socket was made, and so was each socket somebody listens to.
LinkInv ==
  /\ LinkTypeOK
  /\ SocketIsCurrent
  /\ socket # NoSocket => sockets[socket] # "none"
  /\ \A s \in Subscriptions : subs[s].pc = "attached" => subs[s].at # NoSocket

LEMMA NoSocketIsNone == NoSocket \notin Ids
BY SocketLinkAssumption DEF Ids

LEMMA LinkStarts == ASSUME LinkInit PROVE LinkInv
BY NoSocketIsNone DEF LinkInit, LinkInv, LinkTypeOK, SocketIsCurrent, Live, Is, IsConnected

LEMMA LinkStep ==
  ASSUME LinkInv, LinkActs \/ (\E i \in Ids : Opens(i)) \/ UNCHANGED linkVars
  PROVE  LinkInv'
<1> USE NoSocketIsNone
<1>0. LinkTypeOK
  BY DEF LinkInv
<1>1. ASSUME NEW i \in Ids, Connect(i)
      PROVE  LinkInv'
  <2>1. LinkTypeOK'
    BY <1>0, <1>1 DEF Connect, LinkTypeOK
  <2>2. /\ socket' = i /\ \A j \in Ids : sockets'[j] = IF j = i THEN "connecting" ELSE sockets[j]
        /\ \A s \in Subscriptions : subs'[s] = IF subs[s].pc = "pending" THEN [pc |-> "attached", at |-> i] ELSE subs[s]
        /\ status' = "connecting" /\ UNCHANGED socketId /\ ~IsConnected /\ sockets[i] = "none"
        /\ replaced' = (replaced \/ socket \in Live)
    BY <1>0, <1>1 DEF Connect, LinkTypeOK
  <2>3. ASSUME ~replaced'
        PROVE  SocketIsCurrent'
    <3>1. ~replaced /\ Live \subseteq {socket} /\ socket \notin Live /\ socketId = NoSocket
      BY <1>0, <2>2, <2>3 DEF LinkInv, LinkTypeOK, SocketIsCurrent
    <3>2. \A j \in Ids : sockets[j] \in {"none", "closed"}
      BY <1>0, <3>1 DEF LinkTypeOK, Live, Is
    <3>3. Live' \subseteq {i} /\ ~IsConnected'
      BY <2>2, <3>2 DEF Live, Is, IsConnected
    <3>4. ASSUME NEW s \in Subscriptions
          PROVE  /\ subs'[s].pc = "attached" => subs'[s].at = i \/ subs'[s].at \in Is("closed")'
                 /\ subs'[s].pc # "pending"
      <4>1. CASE subs[s].pc = "pending"
        BY <2>2, <4>1
      <4>2. CASE subs[s].pc = "attached"
        <5>1. subs[s].at \in Ids /\ sockets[subs[s].at] = "closed"
          BY <1>0, <3>1, <3>2, <4>2 DEF LinkInv, LinkTypeOK, SocketIsCurrent, Is
        <5>2. subs[s].at # i
          BY <2>2, <5>1
        <5> QED
          BY <2>2, <4>2, <5>1, <5>2 DEF Is
      <4>3. CASE subs[s].pc \notin {"pending", "attached"}
        BY <2>2, <4>3
      <4> QED
        BY <4>1, <4>2, <4>3
    <3> QED
      BY <2>2, <3>1, <3>3, <3>4 DEF SocketIsCurrent
  <2> QED
    BY <1>0, <2>1, <2>2, <2>3 DEF LinkInv, SocketIsCurrent
<1>2. CASE Disconnect
  <2>1. LinkTypeOK'
    BY <1>0, <1>2 DEF Disconnect, LinkTypeOK
  <2>2. SocketIsCurrent'
    BY <1>0, <1>2, <2>1 DEF Disconnect, LinkInv, LinkTypeOK, SocketIsCurrent, Live, Is, IsConnected
  <2> QED
    BY <1>0, <1>2, <2>1, <2>2 DEF Disconnect, LinkInv, LinkTypeOK
<1>3. ASSUME NEW s \in Subscriptions, Subscribe(s) \/ Unsubscribe(s)
      PROVE  LinkInv'
  <2>1. LinkTypeOK'
    BY <1>0, <1>3 DEF Subscribe, Unsubscribe, LinkTypeOK
  <2>2. SocketIsCurrent'
    BY <1>0, <1>3, <2>1 DEF Subscribe, Unsubscribe, LinkInv, LinkTypeOK, SocketIsCurrent, Live, Is, IsConnected
  <2> QED
    BY <1>0, <1>3, <2>1, <2>2 DEF Subscribe, Unsubscribe, LinkInv, LinkTypeOK
<1>4. ASSUME NEW i \in Ids, Opens(i) \/ Drops(i) \/ ConnectFails(i)
      PROVE  LinkInv'
  <2>1. LinkTypeOK'
    BY <1>0, <1>4 DEF Opens, Drops, ConnectFails, LinkTypeOK, Is
  <2>2. SocketIsCurrent'
    BY <1>0, <1>4, <2>1 DEF Opens, Drops, ConnectFails, LinkInv, LinkTypeOK, SocketIsCurrent, Live, Is, IsConnected
  <2> QED
    BY <1>0, <1>4, <2>1, <2>2 DEF Opens, Drops, ConnectFails, LinkInv, LinkTypeOK
<1>5. CASE UNCHANGED linkVars
  BY <1>5 DEF linkVars, LinkInv, LinkTypeOK, SocketIsCurrent, Live, Is, IsConnected
<1> QED
  BY <1>1, <1>2, <1>3, <1>4, <1>5 DEF LinkActs

\* For any number of sockets and subscriptions: what is shown and listened to
\* is the one live socket, unless connect() was called too early.
THEOREM LinkIsCurrent == Spec => []SocketIsCurrent
<1>1. Init => LinkInv
  BY LinkStarts DEF Init
<1>2. LinkInv /\ [Next]_vars => LinkInv'
  BY LinkStep DEF Next, vars
<1>3. LinkInv => SocketIsCurrent
  BY DEF LinkInv
<1> QED
  BY <1>1, <1>2, <1>3, PTL DEF Spec

-----------------------------------------------------------------------------
(* The toasts *)

ToastType == [msg : Messages, leaving : BOOLEAN, timer : BOOLEAN, removal : BOOLEAN]

\* One toast is on its way out, given the messages that were closed twice.
OnItsWay(toast, closed) ==
  /\ toast \in ToastType
  /\ toast.timer \/ toast.removal \/ toast.msg \in closed
  /\ toast.timer => ~toast.leaving

Distinct(list) == \A i, j \in 1 .. Len(list) : list[i].msg = list[j].msg => i = j

GoodToasts(list, closed) ==
  /\ list \in Seq(ToastType) /\ Len(list) <= MaxToasts
  /\ \A i \in 1 .. Len(list) : OnItsWay(list[i], closed)
  /\ Distinct(list)

LEMMA NewToast ==
  ASSUME NEW m \in Messages, NEW closed
  PROVE  OnItsWay(Toast(m), closed) /\ Toast(m).msg = m
BY DEF OnItsWay, Toast, ToastType

\* A message is pushed: the toast that has it is renewed, or it is a new one
\* and the oldest makes room.
LEMMA PushKeepsToasts ==
  ASSUME NEW list, NEW closed, GoodToasts(list, closed), NEW m \in Messages
  PROVE  GoodToasts(Pushed(list, m), closed)
<1> DEFINE same == {i \in DOMAIN list : list[i].msg = m}
           n == Len(list)
<1>0. /\ list \in Seq(ToastType) /\ n \in Nat /\ n <= MaxToasts /\ DOMAIN list = 1 .. n
      /\ \A i \in 1 .. n : OnItsWay(list[i], closed) /\ list[i] \in ToastType
      /\ Distinct(list) /\ MaxToasts \in Nat \ {0}
  BY ToastsAssumption DEF GoodToasts
<1>1. CASE same = {}
  <2> DEFINE all == Append(list, Toast(m))
  <2>0. Toast(m) \in ToastType
    BY NewToast DEF OnItsWay
  <2>1. /\ all \in Seq(ToastType) /\ Len(all) = n + 1 /\ all[n + 1] = Toast(m)
        /\ \A i \in 1 .. n : all[i] = list[i]
    BY <1>0, <2>0
  <2>2. \A i \in 1 .. n : list[i].msg # m
    BY <1>0, <1>1
  <2>3. \A i \in 1 .. n + 1 : OnItsWay(all[i], closed)
    BY <1>0, <2>1, NewToast
  <2>4. Distinct(all)
    BY <1>0, <2>1, <2>2, NewToast DEF Distinct
  <2>5. Pushed(list, m) = Newest(all)
    BY <1>1 DEF Pushed
  <2> HIDE DEF all
  <2>6. CASE n + 1 <= MaxToasts
    <3>1. Newest(all) = all
      BY <1>0, <2>1, <2>6 DEF Newest
    <3> QED
      BY <2>1, <2>3, <2>4, <2>5, <2>6, <3>1 DEF GoodToasts
  <2>7. CASE n = MaxToasts
    <3> DEFINE q == SubSeq(all, 2, n + 1)
    <3>1. Newest(all) = q
      BY <1>0, <2>1, <2>7 DEF Newest
    <3>2. /\ q \in Seq(ToastType) /\ Len(q) = n
          /\ \A i \in 1 .. n : q[i] = all[i + 1]
      BY <1>0, <2>1
    <3> HIDE DEF q
    <3>3. \A i \in 1 .. n : OnItsWay(q[i], closed)
      BY <1>0, <2>3, <3>2
    <3>4. ASSUME NEW i \in 1 .. n, NEW j \in 1 .. n, q[i].msg = q[j].msg
          PROVE  i = j
      <4>1. /\ i + 1 \in 1 .. Len(all) /\ j + 1 \in 1 .. Len(all)
            /\ all[i + 1].msg = all[j + 1].msg
        BY <1>0, <2>1, <3>2, <3>4
      <4>2. i + 1 = j + 1
        BY <2>4, <4>1 DEF Distinct
      <4> QED
        BY <1>0, <4>2
    <3>5. Distinct(q)
      BY <3>2, <3>4 DEF Distinct
    <3>6. GoodToasts(q, closed)
      BY <1>0, <3>2, <3>3, <3>5 DEF GoodToasts
    <3> QED
      BY <2>5, <3>1, <3>6
  <2>8. n + 1 <= MaxToasts \/ n = MaxToasts
    <3>1. n \in Nat /\ MaxToasts \in Nat /\ n <= MaxToasts
      BY <1>0
    <3> HIDE DEF n
    <3> QED
      BY <3>1
  <2> QED
    BY <2>6, <2>7, <2>8
<1>2. CASE same # {}
  <2> DEFINE q == [i \in 1 .. n |-> IF i \in same THEN Toast(m) ELSE list[i]]
  <2>1. Pushed(list, m) = q
    BY <1>0, <1>2 DEF Pushed
  <2>2. \A i \in 1 .. n : q[i] \in ToastType /\ OnItsWay(q[i], closed) /\ q[i].msg = list[i].msg
    BY <1>0, NewToast DEF OnItsWay
  <2>3. q \in Seq(ToastType) /\ Len(q) = n
    BY <1>0, <2>2
  <2> HIDE DEF q
  <2>4. Distinct(q)
    BY <1>0, <2>2, <2>3 DEF Distinct
  <2> QED
    BY <1>0, <2>1, <2>2, <2>3, <2>4 DEF GoodToasts
<1> QED
  BY <1>1, <1>2

\* A toast is dismissed, by its timer or by a click; a second time is remembered.
LEMMA DismissKeepsToasts ==
  ASSUME NEW list, NEW closed, NEW more, GoodToasts(list, closed), closed \subseteq more,
         NEW i \in DOMAIN list, list[i].leaving => list[i].msg \in more
  PROVE  GoodToasts([list EXCEPT ![i] = Dismissed(@)], more)
<1> DEFINE q == [list EXCEPT ![i] = Dismissed(@)]
           n == Len(list)
<1>0. /\ list \in Seq(ToastType) /\ n \in Nat /\ n <= MaxToasts /\ DOMAIN list = 1 .. n
      /\ \A j \in 1 .. n : OnItsWay(list[j], closed) /\ list[j] \in ToastType
      /\ Distinct(list)
  BY DEF GoodToasts
<1>1. OnItsWay(Dismissed(list[i]), more) /\ Dismissed(list[i]).msg = list[i].msg
  BY <1>0 DEF OnItsWay, Dismissed, ToastType
<1>2. Dismissed(list[i]) \in ToastType
  BY <1>1 DEF OnItsWay
<1>3. /\ q \in Seq(ToastType) /\ Len(q) = n
      /\ \A j \in 1 .. n : q[j] = IF j = i THEN Dismissed(list[i]) ELSE list[j]
  BY <1>0, <1>2
<1> HIDE DEF q
<1>4. \A j \in 1 .. n : OnItsWay(q[j], more) /\ q[j].msg = list[j].msg
  BY <1>0, <1>1, <1>3 DEF OnItsWay
<1>5. Distinct(q)
  BY <1>0, <1>3, <1>4 DEF Distinct
<1>6. GoodToasts(q, more)
  BY <1>0, <1>3, <1>4, <1>5 DEF GoodToasts
<1> QED
  BY <1>6 DEF q

\* What stands where in a concatenation.
LEMMA ConcatenationAt ==
  ASSUME NEW s \in Seq(ToastType), NEW t \in Seq(ToastType), NEW j \in 1 .. Len(s) + Len(t)
  PROVE  (s \o t)[j] = IF j <= Len(s) THEN s[j] ELSE t[j - Len(s)]
  OBVIOUS

LEMMA RemoveKeepsToasts ==
  ASSUME NEW list, NEW closed, GoodToasts(list, closed), NEW i \in DOMAIN list
  PROVE  GoodToasts(SubSeq(list, 1, i - 1) \o SubSeq(list, i + 1, Len(list)), closed)
<1> DEFINE n == Len(list)
           left == SubSeq(list, 1, i - 1)
           right == SubSeq(list, i + 1, n)
           q == left \o right
<1>0. /\ list \in Seq(ToastType) /\ n \in Nat /\ n <= MaxToasts /\ i \in 1 .. n
      /\ \A j \in 1 .. n : OnItsWay(list[j], closed)
      /\ Distinct(list) /\ MaxToasts \in Nat
  BY ToastsAssumption DEF GoodToasts
<1>1. left \in Seq(ToastType) /\ Len(left) = i - 1 /\ \A j \in 1 .. i - 1 : left[j] = list[j]
  BY <1>0
<1>2. right \in Seq(ToastType) /\ Len(right) = n - i /\ \A j \in 1 .. n - i : right[j] = list[i + j]
  BY <1>0
<1> HIDE DEF left, right
<1>3. q \in Seq(ToastType) /\ Len(q) = n - 1
  BY <1>0, <1>1, <1>2
<1>4. \A j \in 1 .. n - 1 : q[j] = IF j < i THEN list[j] ELSE list[j + 1]
  <2> SUFFICES ASSUME NEW j \in 1 .. n - 1
               PROVE  q[j] = IF j < i THEN list[j] ELSE list[j + 1]
    OBVIOUS
  <2>1. q[j] = IF j <= Len(left) THEN left[j] ELSE right[j - Len(left)]
    <3>1. j \in 1 .. Len(left) + Len(right)
      BY <1>0, <1>1, <1>2
    <3> QED
      BY <1>1, <1>2, <3>1, ConcatenationAt
  <2>2. CASE j < i
    <3>1. j \in 1 .. i - 1 /\ j <= Len(left)
      BY <1>0, <1>1, <2>2
    <3> QED
      BY <1>1, <2>1, <2>2, <3>1
  <2>3. CASE ~(j < i)
    <3>1. /\ ~(j <= Len(left)) /\ j - Len(left) \in 1 .. n - i
          /\ i + (j - Len(left)) = j + 1
      BY <1>0, <1>1, <2>3
    <3>2. right[j - Len(left)] = list[i + (j - Len(left))]
      BY <1>2, <3>1
    <3> QED
      BY <2>1, <2>3, <3>1, <3>2
  <2> QED
    BY <2>2, <2>3
<1> HIDE DEF q
<1>5. \A j \in 1 .. n - 1 : OnItsWay(q[j], closed)
  BY <1>0, <1>4
<1>6. Distinct(q)
  <2> SUFFICES ASSUME NEW j \in 1 .. n - 1, NEW k \in 1 .. n - 1, q[j].msg = q[k].msg
               PROVE  j = k
    BY <1>3 DEF Distinct
  <2> DEFINE from(x) == IF x < i THEN x ELSE x + 1
  <2>1. from(j) \in 1 .. n /\ from(k) \in 1 .. n
    BY <1>0
  <2>2. list[from(j)].msg = list[from(k)].msg
    BY <1>4
  <2>3. from(j) = from(k)
    BY <1>0, <2>1, <2>2 DEF Distinct
  <2> QED
    BY <1>0, <2>3
<1>7. GoodToasts(q, closed)
  BY <1>0, <1>3, <1>5, <1>6 DEF GoodToasts
<1> QED
  BY <1>7 DEF q, left, right

\* What one step may do to the toasts.
ToastStep ==
  \/ \E m \in Messages : toasts' = Pushed(toasts, m) /\ UNCHANGED reclosed
  \/ \E m, n \in Messages : toasts' = Pushed(Pushed(toasts, m), n) /\ UNCHANGED reclosed
  \/ \E i \in 1 .. MaxToasts : CloseToast(i) \/ ToastTimer(i) \/ RemoveToast(i)
  \/ toasts' = <<>>
  \/ UNCHANGED toastVars

LEMMA EveryStepOfToasts == ASSUME [Next]_vars PROVE ToastStep
<1>1. ASSUME NEW rs, TellsOf(rs, toasts)
      PROVE  ToastStep
  <2>1. PICK n \in Messages : toasts' = IF rs \cap Kind(Forms) # {} THEN Pushed(toasts, n) ELSE toasts
    BY <1>1 DEF TellsOf
  <2>2. UNCHANGED reclosed
    BY <1>1 DEF TellsOf
  <2> QED
    BY <2>1, <2>2 DEF ToastStep, toastVars
<1>2. ASSUME NEW rs, NEW m \in Messages, TellsOf(rs, Pushed(toasts, m))
      PROVE  ToastStep
  <2>1. PICK n \in Messages : toasts' = IF rs \cap Kind(Forms) # {} THEN Pushed(Pushed(toasts, m), n)
                                                                 ELSE Pushed(toasts, m)
    BY <1>2 DEF TellsOf
  <2>2. UNCHANGED reclosed
    BY <1>2 DEF TellsOf
  <2> QED
    BY <2>1, <2>2 DEF ToastStep
<1>3. \A m \in Messages : Tells(m) => ToastStep
  BY DEF Tells, ToastStep
<1>4. CASE UNCHANGED toastVars
  BY <1>4 DEF ToastStep
<1>5. CASE UserActs
  <2>1. CASE \E target \in Pages : Loads(target)
    BY <2>1 DEF Loads, ToastStep
  <2>2. CASE OAuthLogin
    BY <2>2 DEF OAuthLogin, Loads, ToastStep
  <2>3. CASE \E m \in Messages : HandleError(m)
    BY <1>3, <2>3 DEF HandleError
  <2>4. CASE \E i \in 1 .. MaxToasts : CloseToast(i) /\ Unsaid
    BY <2>4 DEF ToastStep
  <2>5. CASE \/ \E r \in Requests : \/ Register(r) \/ Login(r) \/ ForgotPassword(r) \/ ResetPassword(r)
                                    \/ ResendVerification(r) \/ ApiRequest(r)
             \/ \E target \in {"register", "login", "forgot", "home"} : Navigate(target)
             \/ ClosePopup
    BY <1>4, <2>5 DEF Register, Login, ForgotPassword, ResetPassword, ResendVerification, ApiRequest,
       Submits, Navigate, ClosePopup
  <2> QED
    BY <1>5, <2>1, <2>2, <2>3, <2>4, <2>5 DEF UserActs
<1>6. ASSUME NEW r \in Requests,
             \/ VerifyFromQueryToken(r) \/ ProcessCallback(r)
             \/ SignsIn(r) \/ Succeeds(r) \/ RefreshSucceeds(r)
      PROVE  ToastStep
  BY <1>3, <1>4, <1>6 DEF VerifyFromQueryToken, ProcessCallback, SignsIn, Succeeds, RefreshSucceeds
<1>7. ASSUME NEW r \in Requests, NEW m \in Messages,
             \/ Waits(r, m) \/ GivesUp(r, m) \/ StartsRefresh(r, m)
             \/ \E code \in {401, 500} : Fails(r, code, m) \/ RefreshFails(r, code, m)
      PROVE  ToastStep
  BY <1>1, <1>2, <1>3, <1>7 DEF Waits, GivesUp, StartsRefresh, Fails, RefreshFails, Unanswered
<1>8. CASE \/ LogoutAnswered \/ GuestGuard \/ AuthGuard \/ SilentSucceeds
           \/ \E code \in {401, 500} : SilentFails(code)
  BY <1>1, <1>3, <1>4, <1>8 DEF LogoutAnswered, GuestGuard, AuthGuard, SilentSucceeds, SilentFails
<1>9. CASE \E i \in 1 .. MaxToasts : (ToastTimer(i) \/ RemoveToast(i)) /\ Unsaid
  BY <1>9 DEF ToastStep
<1>10. CASE SessionGoes
  BY <1>6, <1>7, <1>8, <1>9, <1>10 DEF SessionGoes
<1> QED
  BY <1>4, <1>5, <1>10 DEF Next, vars, sessionVars

LEMMA StepKeepsToasts ==
  ASSUME GoodToasts(toasts, reclosed), ToastStep
  PROVE  GoodToasts(toasts, reclosed)'
<1>1. ASSUME NEW list, GoodToasts(list, reclosed), toasts' = list, reclosed' = reclosed
      PROVE  GoodToasts(toasts, reclosed)'
  BY <1>1
<1>2. ASSUME NEW m \in Messages, toasts' = Pushed(toasts, m), UNCHANGED reclosed
      PROVE  GoodToasts(toasts, reclosed)'
  BY <1>1, <1>2, PushKeepsToasts
<1>3. ASSUME NEW m \in Messages, NEW n \in Messages, toasts' = Pushed(Pushed(toasts, m), n), UNCHANGED reclosed
      PROVE  GoodToasts(toasts, reclosed)'
  BY <1>1, <1>3, PushKeepsToasts
<1>4. ASSUME NEW i, CloseToast(i) \/ ToastTimer(i)
      PROVE  GoodToasts(toasts, reclosed)'
  <2>1. i \in DOMAIN toasts /\ toasts' = [toasts EXCEPT ![i] = Dismissed(@)] /\ reclosed \subseteq reclosed'
    BY <1>4 DEF CloseToast, ToastTimer
  <2>2. toasts[i].leaving => toasts[i].msg \in reclosed'
    <3>1. CASE CloseToast(i)
      BY <3>1 DEF CloseToast
    <3>2. CASE ToastTimer(i)
      BY <2>1, <3>2 DEF ToastTimer, GoodToasts, OnItsWay
    <3> QED
      BY <1>4, <3>1, <3>2
  <2>3. GoodToasts([toasts EXCEPT ![i] = Dismissed(@)], reclosed')
    BY <2>1, <2>2, DismissKeepsToasts
  <2> QED
    BY <2>1, <2>3
<1>5. ASSUME NEW i, RemoveToast(i)
      PROVE  GoodToasts(toasts, reclosed)'
  BY <1>1, <1>5, RemoveKeepsToasts DEF RemoveToast
<1>6. CASE toasts' = <<>>
  BY <1>6, ToastsAssumption DEF GoodToasts, Distinct
<1>7. CASE UNCHANGED toastVars
  BY <1>1, <1>7 DEF toastVars
<1> QED
  BY <1>2, <1>3, <1>4, <1>5, <1>6, <1>7 DEF ToastStep

\* For any number of messages and toasts: no toast is stuck unless it was closed
\* a second time while it was leaving, and none is shown twice.
THEOREM ToastsLeave == Spec => []ToastsGoAway
<1> DEFINE Inv == GoodToasts(toasts, reclosed)
<1>1. Init => Inv
  BY ToastsAssumption DEF Init, SessionInit, ToastsInit, GoodToasts, Distinct
<1>2. Inv /\ [Next]_vars => Inv'
  BY EveryStepOfToasts, StepKeepsToasts
<1>3. Inv => ToastsGoAway
  BY DEF GoodToasts, OnItsWay, Distinct, ToastsGoAway
<1> QED
  BY <1>1, <1>2, <1>3, PTL DEF Spec

-----------------------------------------------------------------------------
(* The spinner *)

InProgress == {r \in Requests : requests[r].pc # "idle"}

\* What the spinner counts; and a request that is over has no kind.
Spinner ==
  /\ requests \in [Requests -> RequestType]
  /\ \A r \in Requests : requests[r].pc = "idle" => requests[r].kind = Null
  /\ logouts \in 0 .. MaxLogouts
  /\ loading = logouts + Cardinality(InProgress)

\* The other types of the pages.
PageTypes ==
  /\ place \in Pages \cup {Null} /\ fresh \in BOOLEAN /\ popup \in {"login", "stay", Null}
  /\ nav \in Pages \cup {Null}

LEMMA IdleHasNoKind == Idle \in RequestType /\ Idle.pc = "idle" /\ Idle.kind = Null
BY DEF Idle, RequestType, Kinds, Forms

LEMMA FewInProgress == IsFiniteSet(InProgress) /\ Cardinality(InProgress) \in Nat
BY SessionAssumption, FS_Subset, FS_CardinalityType DEF InProgress

\* Requests that end.
LEMMA EndingSpins ==
  ASSUME Spinner, NEW rs \in SUBSET InProgress, Finish(rs),
         logouts' \in 0 .. MaxLogouts,
         loading' = loading - Cardinality(rs) + (logouts' - logouts)
  PROVE  Spinner'
<1>1. /\ requests' \in [Requests -> RequestType]
      /\ \A r \in Requests : requests'[r] = IF r \in rs THEN Idle ELSE requests[r]
  BY IdleHasNoKind DEF Spinner, Finish
<1>2. InProgress' = InProgress \ rs
  BY <1>1, IdleHasNoKind DEF InProgress
<1>3. \A r \in Requests : requests'[r].pc = "idle" => requests'[r].kind = Null
  BY <1>1, IdleHasNoKind DEF Spinner
<1>4. /\ Cardinality(InProgress') = Cardinality(InProgress) - Cardinality(rs)
      /\ Cardinality(rs) \in Nat /\ Cardinality(InProgress) \in Nat
  <2>1. InProgress \cap rs = rs
    OBVIOUS
  <2>2. Cardinality(InProgress \ rs) = Cardinality(InProgress) - Cardinality(InProgress \cap rs)
    BY FewInProgress, FS_Difference
  <2>3. IsFiniteSet(rs)
    BY FewInProgress, FS_Subset
  <2> QED
    BY <1>2, <2>1, <2>2, <2>3, FewInProgress, FS_CardinalityType
<1>5. loading' = logouts' + Cardinality(InProgress')
  BY <1>4, SessionAssumption DEF Spinner
<1> QED
  BY <1>1, <1>3, <1>5 DEF Spinner

\* One request that ends, with the logouts it causes.
LEMMA OneEnds ==
  ASSUME Spinner, NEW r \in InProgress, Finish({r}), logouts' \in 0 .. MaxLogouts,
         loading' = loading - 1 + (logouts' - logouts)
  PROVE  Spinner'
<1>1. Cardinality({r}) = 1
  BY FS_Singleton
<1> QED
  BY <1>1, EndingSpins

\* A request that begins.
LEMMA BeginningSpins ==
  ASSUME Spinner, NEW r \in Requests, NEW kind \in Kinds, Sends(r, kind), UNCHANGED logouts
  PROVE  Spinner'
<1> DEFINE sent == [kind |-> kind, pc |-> "sent"]
<1>1. sent \in RequestType /\ sent.pc = "sent"
  BY DEF RequestType
<1>2. requests[r].pc = "idle" /\ requests' = [requests EXCEPT ![r] = sent] /\ loading' = loading + 1
  BY DEF Sends
<1> HIDE DEF sent
<1>3. /\ requests' \in [Requests -> RequestType]
      /\ \A q \in Requests : requests'[q] = IF q = r THEN sent ELSE requests[q]
  BY <1>1, <1>2 DEF Spinner
<1>4. InProgress' = InProgress \cup {r} /\ r \notin InProgress
  BY <1>1, <1>2, <1>3 DEF InProgress
<1>5. Cardinality(InProgress') = Cardinality(InProgress) + 1
  BY <1>4, FewInProgress, FS_AddElement
<1>6. \A q \in Requests : requests'[q].pc = "idle" => requests'[q].kind = Null
  BY <1>1, <1>3 DEF Spinner
<1>7. loading' = logouts' + Cardinality(InProgress')
  BY <1>2, <1>5, FewInProgress DEF Spinner
<1> QED
  BY <1>3, <1>6, <1>7 DEF Spinner

\* Requests that go on, or wait.
LEMMA GoingOnSpins ==
  ASSUME Spinner, requests' \in [Requests -> RequestType],
         \A r \in Requests : /\ requests'[r].pc = "idle" <=> requests[r].pc = "idle"
                             /\ requests'[r].kind = requests[r].kind,
         logouts' \in 0 .. MaxLogouts, loading' = loading + (logouts' - logouts)
  PROVE  Spinner'
<1>1. InProgress' = InProgress
  BY DEF InProgress
<1>2. loading' = logouts' + Cardinality(InProgress')
  BY <1>1, FewInProgress DEF Spinner
<1> QED
  BY <1>2 DEF Spinner

LEMMA OthersSpin ==
  ASSUME Spinner, UNCHANGED <<requests, logouts, loading>>
  PROVE  Spinner'
BY DEF Spinner, InProgress

LEMMA LogoutsAreFew ==
  ASSUME Spinner, NEW times \in {1, 2}, NEW own, LogsOut(times, own)
  PROVE  logouts' = logouts + times /\ logouts' \in 0 .. MaxLogouts
BY SessionAssumption DEF Spinner, LogsOut

\* The requests that end with a page are in progress.
LEMMA LeftAreInProgress ==
  ASSUME Spinner, NEW target
  PROVE  Left(target) \in SUBSET InProgress
<1>1. \A r \in Requests : requests[r].kind \in Forms \cup {"verify"} => r \in InProgress
  BY SessionAssumption DEF Spinner, InProgress, Forms
<1>2. Left(target) \subseteq {r \in Requests : requests[r].kind \in Forms \cup {"verify"}}
  BY DEF Left, Kind, Forms
<1> QED
  BY <1>1, <1>2

LEMMA ShowingSpins ==
  ASSUME Spinner, NEW target, Shows(target), UNCHANGED logouts
  PROVE  Spinner'
<1>1. Finish(Left(target)) /\ loading' = loading - Cardinality(Left(target))
  BY DEF Shows, Arrives
<1>2. Cardinality(Left(target)) \in Nat /\ loading \in Int /\ logouts \in Nat
  <2>1. IsFiniteSet(Left(target))
    BY FewInProgress, LeftAreInProgress, FS_Subset
  <2> QED
    BY <2>1, FewInProgress, FS_CardinalityType DEF Spinner
<1>3. loading' = loading - Cardinality(Left(target)) + (logouts' - logouts) /\ logouts' \in 0 .. MaxLogouts
  BY <1>1, <1>2 DEF Spinner
<1> QED
  BY <1>1, <1>3, EndingSpins, LeftAreInProgress

LEMMA UserSpins ==
  ASSUME Spinner, UserActs
  PROVE  Spinner'
<1>1. ASSUME NEW r \in Requests, Register(r) \/ Login(r) \/ ForgotPassword(r) \/ ResetPassword(r)
                                \/ ResendVerification(r) \/ ApiRequest(r)
      PROVE  Spinner'
  <2>1. /\ \E kind \in Kinds : Sends(r, kind)
        /\ UNCHANGED logouts
    BY <1>1 DEF Register, Login, ForgotPassword, ResetPassword, ResendVerification, ApiRequest, Submits,
       Kinds, Forms
  <2> QED
    BY <2>1, BeginningSpins
<1>2. ASSUME NEW target, Loads(target)
      PROVE  Spinner'
  <2>1. requests' = [r \in Requests |-> Idle] /\ logouts' = 0 /\ loading' = 0
    BY <1>2 DEF Loads
  <2>2. InProgress' = {}
    BY <2>1, IdleHasNoKind DEF InProgress
  <2>3. Cardinality(InProgress') = 0
    BY <2>2, FS_EmptySet
  <2> QED
    BY <2>1, <2>3, IdleHasNoKind, SessionAssumption DEF Spinner
<1>3. CASE \/ \E target \in {"register", "login", "forgot", "home"} : Navigate(target)
           \/ ClosePopup \/ \E m \in Messages : HandleError(m)
           \/ \E i \in 1 .. MaxToasts : CloseToast(i) /\ Unsaid
  BY <1>3, OthersSpin DEF Navigate, ClosePopup, HandleError, Unsaid
<1> QED
  BY <1>1, <1>2, <1>3 DEF UserActs, OAuthLogin

LEMMA AnswersSpin ==
  ASSUME Spinner, NEW r \in Requests,
         \/ VerifyFromQueryToken(r) \/ ProcessCallback(r)
         \/ SignsIn(r) \/ Succeeds(r) \/ RefreshSucceeds(r)
         \/ \E m \in Messages :
              \/ Waits(r, m) \/ GivesUp(r, m) \/ StartsRefresh(r, m)
              \/ \E code \in {401, 500} : Fails(r, code, m) \/ RefreshFails(r, code, m)
  PROVE  Spinner'
<1>0. /\ loading \in Int /\ logouts \in Nat /\ logouts \in 0 .. MaxLogouts
      /\ requests \in [Requests -> RequestType] /\ requests[r] \in RequestType
  BY FewInProgress DEF Spinner
<1>a. ASSUME NEW pc \in {"waiting", "refreshing"}, requests[r].pc = "sent", Goto(r, pc)
      PROVE  /\ requests' \in [Requests -> RequestType]
             /\ \A q \in Requests : /\ requests'[q].pc = "idle" <=> requests[q].pc = "idle"
                                    /\ requests'[q].kind = requests[q].kind
  BY <1>0, <1>a DEF Goto, RequestType
<1>1. CASE VerifyFromQueryToken(r) \/ ProcessCallback(r)
  <2>1. /\ UNCHANGED logouts
        /\ (\E kind \in Kinds : Sends(r, kind)) \/ UNCHANGED <<requests, loading>>
    BY <1>1 DEF VerifyFromQueryToken, ProcessCallback, Kinds
  <2> QED
    BY <2>1, BeginningSpins, OthersSpin
<1>2. CASE SignsIn(r) \/ Succeeds(r)
  <2>1. Finish({r}) /\ loading' = loading - 1 /\ logouts' = logouts /\ r \in InProgress
    BY <1>2 DEF SignsIn, Succeeds, Answered, With, InProgress
  <2>2. loading' = loading - 1 + (logouts' - logouts)
    BY <1>0, <2>1
  <2> QED
    BY <1>0, <2>1, <2>2, OneEnds
<1>3. CASE RefreshSucceeds(r)
  <2>1. /\ requests' = [q \in Requests |-> IF q = r THEN [requests[q] EXCEPT !.pc = "last"]
                                           ELSE IF q \in Waiters THEN [requests[q] EXCEPT !.pc = "again"]
                                           ELSE requests[q]]
        /\ requests[r].pc = "refreshing" /\ UNCHANGED <<logouts, loading>>
    BY <1>3 DEF RefreshSucceeds
  <2>2. \A q \in Requests : q \in Waiters => requests[q].pc = "waiting"
    BY DEF Waiters, With
  <2>3. \A q \in Requests, pc \in {"last", "again"} :
          LET next == [requests[q] EXCEPT !.pc = pc]
          IN  next \in RequestType /\ next.pc = pc /\ next.kind = requests[q].kind
    BY <1>0 DEF RequestType
  <2>4. requests' \in [Requests -> RequestType]
    BY <1>0, <2>1, <2>3
  <2>5. \A q \in Requests : /\ requests'[q].pc = "idle" <=> requests[q].pc = "idle"
                            /\ requests'[q].kind = requests[q].kind
    BY <1>0, <2>1, <2>2, <2>3
  <2>6. loading' = loading + (logouts' - logouts)
    BY <1>0, <2>1
  <2> QED
    BY <1>0, <2>1, <2>4, <2>5, <2>6, GoingOnSpins
<1>4. ASSUME NEW m \in Messages, Waits(r, m) \/ StartsRefresh(r, m)
      PROVE  Spinner'
  <2>1. /\ requests[r].pc = "sent" /\ \E pc \in {"waiting", "refreshing"} : Goto(r, pc)
        /\ \/ LogsOut(1, {}) /\ loading' = loading + 1
           \/ UNCHANGED <<loading, logouts>>
    BY <1>4 DEF Waits, StartsRefresh
  <2>2. loading' = loading + (logouts' - logouts) /\ logouts' \in 0 .. MaxLogouts
    BY <1>0, <2>1, LogoutsAreFew
  <2> QED
    BY <1>a, <2>1, <2>2, GoingOnSpins
<1>5. ASSUME NEW m \in Messages, NEW code, Unanswered(r, code, m), requests[r].pc # "idle"
      PROVE  Spinner'
  <2>1. /\ Finish({r}) /\ r \in InProgress
        /\ \/ LogsOut(1, {r}) /\ loading' = loading
           \/ loading' = loading - 1 /\ UNCHANGED logouts
    BY <1>5 DEF Unanswered, InProgress
  <2>2. loading' = loading - 1 + (logouts' - logouts) /\ logouts' \in 0 .. MaxLogouts
    BY <1>0, <2>1, LogoutsAreFew
  <2> QED
    BY <2>1, <2>2, OneEnds
<1>6. ASSUME NEW m \in Messages, GivesUp(r, m) \/ \E code \in {401, 500} : Fails(r, code, m)
      PROVE  Spinner'
  BY <1>5, <1>6 DEF GivesUp, Fails, Answered, With
<1>7. ASSUME NEW m \in Messages, NEW code \in {401, 500}, RefreshFails(r, code, m)
      PROVE  Spinner'
  <2>1. /\ requests[r].pc \in {"refreshing", "last"} /\ Rejects({r})
        /\ \E times \in {1, 2} : LogsOut(times, {r})
    BY <1>7 DEF RefreshFails
  <2>2. {r} \cup Waiters \in SUBSET InProgress
    BY <2>1 DEF Waiters, With, InProgress
  <2> QED
    BY <2>1, <2>2, EndingSpins, LogoutsAreFew DEF Rejects
<1> QED
  BY <1>1, <1>2, <1>3, <1>4, <1>6, <1>7

LEMMA RoutesSpin ==
  ASSUME Spinner,
         \/ LogoutAnswered \/ GuestGuard \/ AuthGuard \/ SilentSucceeds
         \/ \E code \in {401, 500} : SilentFails(code)
         \/ \E i \in 1 .. MaxToasts : (ToastTimer(i) \/ RemoveToast(i)) /\ Unsaid
  PROVE  Spinner'
<1>0. loading \in Int /\ logouts \in Nat /\ logouts \in 0 .. MaxLogouts
  BY FewInProgress DEF Spinner
<1>1. CASE LogoutAnswered
  <2>1. logouts' = logouts - 1 /\ loading' = loading - 1 /\ requests' = requests /\ logouts > 0
    BY <1>1 DEF LogoutAnswered
  <2>2. loading' = loading + (logouts' - logouts) /\ logouts' \in 0 .. MaxLogouts
    BY <1>0, <2>1, SessionAssumption
  <2> QED
    BY <2>1, <2>2, GoingOnSpins DEF Spinner
<1>2. CASE GuestGuard \/ AuthGuard \/ SilentSucceeds
  <2>1. (\E target : Shows(target)) \/ UNCHANGED <<requests, loading>>
    BY <1>2 DEF GuestGuard, AuthGuard, SilentSucceeds
  <2>2. UNCHANGED logouts
    BY <1>2 DEF GuestGuard, AuthGuard, SilentSucceeds
  <2> QED
    BY <2>1, <2>2, ShowingSpins, OthersSpin
<1>3. ASSUME NEW code \in {401, 500}, SilentFails(code)
      PROVE  Spinner'
  <2>1. logouts' = logouts + 1 /\ logouts' \in 0 .. MaxLogouts
    BY <1>3, LogoutsAreFew DEF SilentFails
  <2>2. CASE loading' = loading + 1 /\ UNCHANGED requests
    <3>1. loading' = loading + (logouts' - logouts)
      BY <1>0, <2>1, <2>2
    <3> QED
      BY <2>1, <2>2, <3>1, GoingOnSpins DEF Spinner
  <2>3. CASE Rejects({})
    <3>1. {} \cup Waiters \in SUBSET InProgress
      BY DEF Waiters, With, InProgress
    <3> QED
      BY <2>1, <2>3, <3>1, EndingSpins DEF Rejects
  <2> QED
    BY <1>3, <2>2, <2>3 DEF SilentFails
<1>4. CASE \E i \in 1 .. MaxToasts : (ToastTimer(i) \/ RemoveToast(i)) /\ Unsaid
  BY <1>4, OthersSpin DEF Unsaid
<1> QED
  BY <1>1, <1>2, <1>3, <1>4

LEMMA SpinnerStep == ASSUME Spinner, [Next]_vars PROVE Spinner'
<1>1. CASE UserActs
  BY <1>1, UserSpins
<1>2. CASE SessionGoes
  BY <1>2, AnswersSpin, RoutesSpin DEF SessionGoes
<1>3. CASE UNCHANGED sessionVars
  BY <1>3, OthersSpin DEF sessionVars
<1> QED
  BY <1>1, <1>2, <1>3 DEF Next, vars

LEMMA PagesStep == ASSUME PageTypes, [Next]_vars PROVE PageTypes'
<1>0. ASSUME UNCHANGED <<page, nav>> PROVE PageTypes'
  BY <1>0 DEF PageTypes, page
<1>p. {"register", "login", "forgot", "home", "callback"} \subseteq Pages
  BY DEF Pages
<1>g. ASSUME NEW target \in Pages, GoesTo(target) PROVE nav' \in Pages
  BY <1>g DEF GoesTo
<1>l. ASSUME NEW times, NEW own, LogsOut(times, own) PROVE nav' \in Pages
  BY <1>p, <1>g, <1>l DEF LogsOut
<1>s. ASSUME NEW target \in Pages, Shows(target) PROVE PageTypes'
  <2>1. /\ place' = target /\ nav' = Null /\ popup' = popup
        /\ fresh' = IF target = place THEN fresh ELSE target \in {"verify", "callback"}
    BY <1>s DEF Shows, Arrives
  <2>2. fresh' \in BOOLEAN
    <3>1. CASE target = place
      BY <2>1, <3>1 DEF PageTypes
    <3>2. CASE target # place
      BY <2>1, <3>2
    <3> QED
      BY <3>1, <3>2
  <2> QED
    BY <2>1, <2>2 DEF PageTypes
<1>n. ASSUME UNCHANGED page, nav' \in Pages \cup {Null} PROVE PageTypes'
  BY <1>n DEF PageTypes, page
<1>1. CASE UserActs
  <2>1. ASSUME NEW r \in Requests, Register(r) \/ Login(r) \/ ForgotPassword(r) \/ ResetPassword(r)
                                  \/ ResendVerification(r) \/ ApiRequest(r)
        PROVE  PageTypes'
    BY <1>0, <2>1 DEF Register, Login, ForgotPassword, ResetPassword, ResendVerification, ApiRequest,
       Submits, route
  <2>2. ASSUME NEW target \in {"register", "login", "forgot", "home"}, Navigate(target)
        PROVE  PageTypes'
    BY <1>p, <1>g, <1>n, <2>2 DEF Navigate
  <2>3. ASSUME NEW target \in Pages, Loads(target)
        PROVE  PageTypes'
    BY <1>g, <2>3 DEF Loads, PageTypes
  <2>4. CASE ClosePopup
    BY <1>g, <1>p, <2>4 DEF ClosePopup, PageTypes, route
  <2>5. CASE (\E m \in Messages : HandleError(m)) \/ \E i \in 1 .. MaxToasts : CloseToast(i) /\ Unsaid
    BY <1>0, <2>5 DEF HandleError, Unsaid, route
  <2> QED
    BY <1>1, <1>p, <2>1, <2>2, <2>3, <2>4, <2>5 DEF UserActs, OAuthLogin
<1>2. CASE SessionGoes
  <2>1. ASSUME NEW r \in Requests, VerifyFromQueryToken(r) \/ ProcessCallback(r)
        PROVE  PageTypes'
    BY <1>g, <1>p, <2>1 DEF VerifyFromQueryToken, ProcessCallback, PageTypes, route
  <2>2. ASSUME NEW r \in Requests, SignsIn(r) \/ Succeeds(r)
        PROVE  PageTypes'
    BY <1>g, <1>p, <2>2 DEF SignsIn, Succeeds, PageTypes, route, page
  <2>3. ASSUME NEW r \in Requests, NEW m \in Messages, NEW code \in {401, 500},
               \/ RefreshSucceeds(r) \/ Waits(r, m) \/ GivesUp(r, m) \/ StartsRefresh(r, m)
               \/ Fails(r, code, m) \/ RefreshFails(r, code, m)
        PROVE  PageTypes'
    <3>1. UNCHANGED page
      BY <2>3 DEF RefreshSucceeds, Waits, GivesUp, StartsRefresh, Fails, RefreshFails, Unanswered
    <3>2. nav' \in Pages \/ UNCHANGED nav
      BY <1>g, <1>l, <1>p, <2>3 DEF RefreshSucceeds, Waits, GivesUp, StartsRefresh, Fails, RefreshFails,
         Unanswered, route
    <3> QED
      BY <1>n, <3>1, <3>2 DEF PageTypes
  <2>4. CASE LogoutAnswered \/ \E i \in 1 .. MaxToasts : (ToastTimer(i) \/ RemoveToast(i)) /\ Unsaid
    BY <1>0, <2>4 DEF LogoutAnswered, Unsaid, route
  <2>5. CASE GuestGuard \/ AuthGuard \/ SilentSucceeds
    <3>1. \/ \E target \in Pages : Shows(target)
          \/ UNCHANGED page /\ (nav' \in Pages \/ UNCHANGED nav)
      BY <1>g, <1>p, <2>5 DEF GuestGuard, AuthGuard, SilentSucceeds
    <3> QED
      BY <1>n, <1>s, <3>1 DEF PageTypes
  <2>6. CASE \E code \in {401, 500} : SilentFails(code)
    BY <1>l, <1>n, <2>6 DEF SilentFails
  <2>7. ASSUME NEW r \in Requests, RefreshSucceeds(r)
        PROVE  PageTypes'
    BY <1>0, <2>7 DEF RefreshSucceeds, route
  <2> QED
    BY <1>2, <2>1, <2>2, <2>3, <2>4, <2>5, <2>6, <2>7 DEF SessionGoes
<1>3. CASE UNCHANGED sessionVars
  BY <1>0, <1>3 DEF sessionVars, route
<1> QED
  BY <1>1, <1>2, <1>3 DEF Next, vars

LEMMA EventsStep == ASSUME events \in 0 .. MaxEvents, [Next]_vars PROVE events' \in 0 .. MaxEvents
BY ClientAssumption DEF Next, vars

\* The client keeps its types, and the spinner counts the requests that are in
\* progress, for any number of them: whether they are answered, wait for a
\* token, are sent again, or are dropped with their page.
THEOREM TypeCorrect == Spec => []TypeOK
<1> DEFINE Inv == SessionInv /\ Spinner /\ PageTypes /\ LinkInv /\ events \in 0 .. MaxEvents
<1>1. Init => Inv
  <2> SUFFICES ASSUME Init PROVE Inv
    OBVIOUS
  <2>1. /\ requests = [r \in Requests |-> Idle] /\ logouts = 0 /\ loading = 0
        /\ PageTypes /\ SessionInv /\ LinkInv
    BY SessionStarts, LinkStarts DEF Init, SessionInit, PageTypes
  <2>2. InProgress = {}
    BY <2>1, IdleHasNoKind DEF InProgress
  <2>3. Spinner
    BY <2>1, <2>2, FS_EmptySet, IdleHasNoKind, SessionAssumption DEF Spinner
  <2> QED
    BY <2>1, <2>3, ClientAssumption DEF Init
<1>2. Inv /\ [Next]_vars => Inv'
  <2> SUFFICES ASSUME Inv, [Next]_vars PROVE Inv'
    OBVIOUS
  <2>1. LinkInv'
    BY LinkStep DEF Next, vars
  <2> QED
    BY <2>1, SessionStep, SpinnerStep, PagesStep, EventsStep
<1>3. Inv => TypeOK
  BY DEF SessionInv, SessionTypes, Spinner, PageTypes, LinkInv, TypeOK, SessionTypeOK, InProgress,
     RequestType
<1> HIDE DEF Inv
<1> QED
  BY <1>1, <1>2, <1>3, PTL DEF Spec

===============================================================================
