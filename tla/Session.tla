------------------------------- MODULE Session -------------------------------
(***************************************************************************)
(* The session of the client: AuthService and TokenService, the chain of   *)
(* HTTP interceptors (loading, auth, refresh, error: the last is the first *)
(* to see an answer), the route guards, and the pages that send requests.  *)
(*                                                                         *)
(* A request in progress is a record of requests.  Answers are handled in  *)
(* one piece: an action is the handling of one answer by all interceptors, *)
(* the token queue and the page.  The server may answer anything.  A       *)
(* navigation takes effect later; it destroys the page that is left, which *)
(* unsubscribes from the requests of its forms, and it ends the navigation *)
(* that was in progress, with the silent refresh of its guard.             *)
(*                                                                         *)
(* Validation only keeps a form from being submitted.  Neither refresh     *)
(* request shows a spinner or a toast: refresh.interceptor sets those      *)
(* flags on the context object that both share.                            *)
(***************************************************************************)
EXTENDS Toasts, FiniteSets

CONSTANTS Requests,    (* bound: requests in progress at once               *)
          MaxLogouts,  (* bound: unanswered logout requests                 *)
          Null

\* Null is no kind of request, and no page.
ASSUME SessionAssumption ==
  /\ IsFiniteSet(Requests) /\ MaxLogouts \in Nat
  /\ Null \notin {"register", "login", "forgot", "reset", "resend", "verify", "callback", "exchange",
                  "api", "home", "stay"}

VARIABLES token,       (* an access token is in memory                      *)
          user,        (* a user is stored, in memory and in localStorage   *)
          refreshing,  (* TokenService._isRefreshing                        *)
          requests,
          logouts,     (* unanswered POST /auth/logout                      *)
          loading,     (* LoadingService._activeRequests                    *)
          place,       (* the page that is shown                            *)
          fresh,       (* it has still to do what follows its first render  *)
          popup,       (* the pop-up, by what follows when it is closed     *)
          nav,         (* the navigation in progress                        *)
          guarding,    (* the silent refresh of its guard is under way      *)
          abandoned,   (* history: a page left while its request refreshed  *)
          overtaken    (* history: a logout while a refresh was under way   *)

memory == <<token, user, refreshing>>
page == <<place, fresh, popup>>
route == <<nav, guarding>>
history == <<abandoned, overtaken>>
sessionVars == <<memory, requests, logouts, loading, page, route, history, toastVars>>

Forms == {"register", "login", "forgot", "reset", "resend"}
Pages == {"register", "login", "forgot", "reset", "verify", "callback", "home"}

Idle == [kind |-> Null, pc |-> "idle"]

\* A page load, perhaps by somebody who was here before.
SessionInit ==
  /\ token = FALSE /\ user \in BOOLEAN /\ refreshing = FALSE
  /\ requests = [r \in Requests |-> Idle] /\ logouts = 0 /\ loading = 0
  /\ place = Null /\ fresh = FALSE /\ popup = Null
  /\ nav \in Pages /\ guarding = FALSE
  /\ abandoned = FALSE /\ overtaken = FALSE
  /\ ToastsInit

With(pcs) == {r \in Requests : requests[r].pc \in pcs}
Kind(kinds) == {r \in Requests : requests[r].kind \in kinds}
Waiters == With({"waiting"})

Finish(rs) == requests' = [r \in Requests |-> IF r \in rs THEN Idle ELSE requests[r]]

Goto(r, pc) == requests' = [requests EXCEPT ![r].pc = pc]

GoesTo(target) == nav' = target /\ guarding' = FALSE

\* What the error interceptor tells the user (m), and the page of a form (n).
Tells(m) == toasts' = Pushed(toasts, m) /\ UNCHANGED reclosed
TellsOf(rs, list) ==
  /\ \E n \in Messages :
       toasts' = IF rs \cap Kind(Forms) # {} THEN Pushed(list, n) ELSE list
  /\ UNCHANGED reclosed

\* Mutated form: the token stays in memory.
LogsOutKeepingToken(times, own) ==
  /\ logouts + times <= MaxLogouts /\ logouts' = logouts + times
  /\ user' = FALSE /\ UNCHANGED token /\ GoesTo("login")
  /\ overtaken' = (overtaken \/ With({"refreshing"}) \ own # {})

\* logout(): the local session is gone at once; POST /auth/logout follows.
\* own are the requests that end in the same step.
LogsOut(times, own) ==
  /\ logouts + times <= MaxLogouts /\ logouts' = logouts + times
  /\ token' = FALSE /\ user' = FALSE /\ GoesTo("login")
  /\ overtaken' = (overtaken \/ With({"refreshing"}) \ own # {})

\* The error interceptor logs out on a 401 that meets a token.
Refused(status) == status = 401 /\ token

-----------------------------------------------------------------------------
(* Requests *)

Sends(r, kind) ==
  /\ requests[r].pc = "idle"
  /\ requests' = [requests EXCEPT ![r] = [kind |-> kind, pc |-> "sent"]]
  /\ loading' = loading + 1

\* A form is not sent again while its request is in progress.
Submits(r, form, shown) ==
  /\ place = shown /\ Kind({form}) = {}
  /\ Sends(r, form)
  /\ UNCHANGED <<memory, logouts, page, route, history, toastVars>>

Register(r) == Submits(r, "register", "register")
Login(r) == Submits(r, "login", "login")
ForgotPassword(r) == Submits(r, "forgot", "forgot")
ResetPassword(r) == Submits(r, "reset", "reset")
ResendVerification(r) == Submits(r, "resend", "verify")

\* Once, when the page has been rendered; only with a token in the link.
VerifyFromQueryToken(r) ==
  /\ place = "verify" /\ fresh /\ fresh' = FALSE
  /\ Sends(r, "verify") \/ UNCHANGED <<requests, loading>>
  /\ UNCHANGED <<memory, logouts, place, popup, route, history, toastVars>>

\* The code is exchanged for a session, and leaving the page does not stop
\* that; without a code, or with an error, it goes to the login page.
ProcessCallback(r) ==
  /\ place = "callback" /\ fresh /\ fresh' = FALSE
  /\ \/ Sends(r, "exchange") /\ UNCHANGED <<route, toastVars>>
     \/ /\ GoesTo("login")
        /\ (\E m \in Messages : Tells(m)) \/ UNCHANGED toastVars
        /\ UNCHANGED <<requests, loading>>
  /\ UNCHANGED <<memory, logouts, place, popup, history>>

\* A request of a page behind authGuard, through ApiService.
ApiRequest(r) ==
  /\ place = "home"
  /\ Sends(r, "api")
  /\ UNCHANGED <<memory, logouts, page, route, history, toastVars>>

Answered == With({"sent", "again", "last"})

\* login and exchangeCode: setSession, and home.
SignsIn(r) ==
  /\ r \in Answered \cap Kind({"login", "exchange"})
  /\ Finish({r}) /\ loading' = loading - 1
  /\ token' = TRUE /\ user' = TRUE /\ GoesTo("home")
  /\ UNCHANGED <<refreshing, logouts, page, history, toastVars>>

\* A pop-up replaces the one that is open.
Succeeds(r) ==
  /\ r \in Answered \ Kind({"login", "exchange"})
  /\ Finish({r}) /\ loading' = loading - 1
  /\ popup' = CASE requests[r].kind \in {"register", "reset"} -> "login"
                [] requests[r].kind \in {"forgot", "resend"} -> "stay"
                [] OTHER -> popup
  /\ UNCHANGED <<memory, logouts, place, fresh, route, history, toastVars>>

\* Its page tells the user; the callback page goes to the login page.
Unanswered(r, status, m) ==
  /\ Finish({r})
  /\ TellsOf({r}, Pushed(toasts, m))
  /\ \/ Refused(status) /\ LogsOut(1, {r}) /\ loading' = loading
     \/ /\ ~Refused(status) /\ loading' = loading - 1
        /\ IF r \in Kind({"exchange"}) THEN GoesTo("login") ELSE UNCHANGED route
        /\ UNCHANGED <<token, user, logouts, overtaken>>
  /\ UNCHANGED <<refreshing, page, abandoned>>

\* An error of another status, or of a request that was retried after waiting.
Fails(r, status, m) ==
  /\ r \in Answered /\ requests[r].pc # "last"
  /\ requests[r].pc = "again" \/ status # 401
  /\ Unanswered(r, status, m)

\* 401 and no refresh under way: a token in memory is thrown away with the
\* user, and then there is nobody to refresh for.
GivesUp(r, m) ==
  /\ requests[r].pc = "sent" /\ ~refreshing /\ (token \/ ~user)
  /\ Unanswered(r, 401, m)

\* 401 while a refresh is under way: the request waits for its token.
Waits(r, m) ==
  /\ requests[r].pc = "sent" /\ refreshing
  /\ Goto(r, "waiting") /\ Tells(m)
  /\ \/ token /\ LogsOut(1, {}) /\ loading' = loading + 1
     \/ ~token /\ UNCHANGED <<loading, token, user, route, logouts, overtaken>>
  /\ UNCHANGED <<refreshing, page, abandoned>>

\* Only a user without a token gets a refresh.
StartsRefresh(r, m) ==
  /\ requests[r].pc = "sent" /\ ~refreshing /\ ~token /\ user
  /\ refreshing' = TRUE
  /\ Goto(r, "refreshing") /\ Tells(m)
  /\ UNCHANGED <<token, user, logouts, loading, page, route, history>>

\* resolveRefresh: the waiting requests and r are sent again with the token.
RefreshSucceeds(r) ==
  /\ requests[r].pc = "refreshing"
  /\ refreshing' = FALSE /\ token' = TRUE
  /\ requests' = [q \in Requests |-> IF q = r THEN [requests[q] EXCEPT !.pc = "last"]
                                     ELSE IF q \in Waiters THEN [requests[q] EXCEPT !.pc = "again"]
                                     ELSE requests[q]]
  /\ UNCHANGED <<user, logouts, loading, page, route, history, toastVars>>

\* Mutated form: the waiting requests are not told.
RejectsSilently(rs) ==
  /\ refreshing' = FALSE
  /\ Finish(rs)
  /\ loading' = loading - Cardinality(rs) + (logouts' - logouts)

\* rejectRefresh: the waiting requests fail with rs.
Rejects(rs) ==
  /\ refreshing' = FALSE
  /\ Finish(rs \cup Waiters)
  /\ loading' = loading - Cardinality(rs \cup Waiters) + (logouts' - logouts)

\* The refresh of r fails, or what it was for fails once more: either logs out,
\* a second time if the error interceptor has done so.
RefreshFails(r, status, m) ==
  /\ \/ requests[r].pc = "refreshing" /\ TellsOf({r} \cup Waiters, toasts)
     \/ requests[r].pc = "last" /\ TellsOf({r} \cup Waiters, Pushed(toasts, m))
  /\ LogsOut(IF Refused(status) THEN 2 ELSE 1, {r})
  /\ Rejects({r})
  /\ UNCHANGED <<page, abandoned>>

\* The error of a logout request is shown all the same.
LogoutAnswered ==
  /\ logouts > 0
  /\ logouts' = logouts - 1 /\ loading' = loading - 1
  /\ (\E m \in Messages : Tells(m)) \/ UNCHANGED toastVars
  /\ UNCHANGED <<memory, requests, page, route, history>>

\* handleError: something else went wrong in the browser.
HandleError(m) ==
  /\ Tells(m)
  /\ UNCHANGED <<memory, requests, logouts, loading, page, route, history>>

-----------------------------------------------------------------------------
(* Navigation *)

\* A link of the application.
Navigate(target) ==
  /\ place # Null /\ GoesTo(target)
  /\ UNCHANGED <<memory, requests, logouts, loading, page, history, toastVars>>

ClosePopup ==
  /\ popup # Null /\ popup' = Null
  /\ IF popup = "login" THEN GoesTo("login") ELSE UNCHANGED route
  /\ UNCHANGED <<memory, requests, logouts, loading, place, fresh, history, toastVars>>

\* The requests that end with a page.
Left(target) ==
  IF target = place THEN {}
  ELSE Kind(IF place = "verify" THEN {"verify", "resend"} ELSE {place} \cap Forms)

Arrives(target) ==
  /\ place' = target /\ nav' = Null /\ guarding' = FALSE
  /\ fresh' = IF target = place THEN fresh ELSE target \in {"verify", "callback"}
  /\ abandoned' = (abandoned \/ \E r \in Left(target) : requests[r].pc = "refreshing")
  /\ Finish(Left(target))

\* Mutated form: the spinner is not told of the requests that were dropped.
ShowsKeepingLoading(target) == Arrives(target) /\ UNCHANGED <<loading, popup>>

Shows(target) ==
  /\ Arrives(target)
  /\ loading' = loading - Cardinality(Left(target)) /\ UNCHANGED popup

\* It guards the way to the auth pages, not the ways between them.
GuestGuard ==
  /\ nav \in Pages \ {"home"}
  /\ \/ token /\ place \in {"home", Null} /\ GoesTo("home") /\ UNCHANGED <<page, requests, loading, abandoned>>
     \/ (~token \/ place \notin {"home", Null}) /\ Shows(nav)
  /\ UNCHANGED <<memory, logouts, overtaken, toastVars>>

AuthGuard ==
  /\ nav = "home" /\ ~guarding
  /\ \/ token /\ Shows("home")
     \/ /\ ~token
        /\ IF user THEN guarding' = TRUE /\ UNCHANGED nav ELSE GoesTo("login")
        /\ UNCHANGED <<page, requests, loading, abandoned>>
  /\ UNCHANGED <<memory, logouts, overtaken, toastVars>>

SilentSucceeds ==
  /\ guarding /\ token' = TRUE
  /\ Shows("home")
  /\ UNCHANGED <<user, refreshing, logouts, overtaken, toastVars>>

\* It also rejects a refresh of the interceptor that is under way; but the
\* logout of the error interceptor ends the navigation, and its guard with it.
SilentFails(status) ==
  /\ guarding
  /\ LogsOut(1, {})
  /\ \/ Refused(status) /\ loading' = loading + 1 /\ UNCHANGED <<refreshing, requests, toastVars>>
     \/ ~Refused(status) /\ Rejects({}) /\ TellsOf(Waiters, toasts)
  /\ UNCHANGED <<page, abandoned>>

\* Memory is gone; the user is in localStorage.
Loads(target) ==
  /\ token' = FALSE /\ refreshing' = FALSE /\ UNCHANGED user
  /\ requests' = [r \in Requests |-> Idle] /\ logouts' = 0 /\ loading' = 0
  /\ place' = Null /\ fresh' = FALSE /\ popup' = Null /\ GoesTo(target)
  /\ toasts' = <<>> /\ reclosed' = {}
  /\ UNCHANGED history

\* The user leaves for the provider, which answers with the callback page.
OAuthLogin == place = "login" /\ Loads("callback")

-----------------------------------------------------------------------------
(* Properties *)

Kinds == Forms \cup {"verify", "exchange", "api", Null}

\* Types; and the spinner counts the requests that are in progress, whatever
\* became of them: answered, waiting, retried, or dropped with their page.
SessionTypeOK ==
  /\ token \in BOOLEAN /\ user \in BOOLEAN /\ refreshing \in BOOLEAN
  /\ requests \in [Requests -> [kind : Kinds,
                                pc : {"idle", "sent", "waiting", "refreshing", "again", "last"}]]
  /\ logouts \in 0 .. MaxLogouts
  /\ place \in Pages \cup {Null} /\ fresh \in BOOLEAN /\ popup \in {"login", "stay", Null}
  /\ nav \in Pages \cup {Null} /\ guarding \in BOOLEAN
  /\ abandoned \in BOOLEAN /\ overtaken \in BOOLEAN
  /\ loading = logouts + Cardinality({r \in Requests : requests[r].pc # "idle"})

\* Nobody waits for a token that nobody asks for: a waiting request has a
\* refresh under way, unless the page whose request had started it was left.
WaitersAreReleased ==
  /\ Waiters # {} => refreshing
  /\ refreshing => abandoned \/ With({"refreshing"}) # {}

\* There is no token without a user, unless a logout came while a refresh was
\* under way, whose answer then set a token again.
NoHalfSession == token => user \/ overtaken

===============================================================================
