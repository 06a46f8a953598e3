------------------------------- MODULE Accounts -------------------------------
(***************************************************************************)
(* One account and its sessions: AuthService, UsersTokenService,           *)
(* UsersService, UserPreferencesService, the mail queue and the avatar     *)
(* files.  The rows of the user, of user_tokens and of user_preferences    *)
(* are in MySQL, the exchange codes in Redis.                              *)
(*                                                                         *)
(* A request in progress is a record of calls, one action per await that   *)
(* touches shared state; the first action of a request is its first read.  *)
(* Any step may throw once in a run (CallFails): the request is answered   *)
(* with an error and what it has done stays.                               *)
(*                                                                         *)
(* UserRepository.save writes back every column the entity was read with   *)
(* (not the password, which is not selected), deletedAt included.  The     *)
(* database rounds passwordChangedAt to a second, a token's iat is cut     *)
(* off: the clock counts half seconds.                                     *)
(***************************************************************************)
EXTENDS Naturals, Sequences, FiniteSets

CONSTANTS Calls,      (* bound: requests in progress at once                *)
          MaxRequests,(* bound: requests                                    *)
          MaxTime,    (* bound: the clock, in half seconds                  *)
          MaxTokens,  (* bound: rows of user_tokens                         *)
          Passwords, Files, Null,
          Photo       (* the address of a photo that a provider keeps       *)

ASSUME AccountsAssumption ==
  /\ Null \notin Passwords /\ Null \notin Files /\ Null \notin Nat /\ Null \notin {"on", "off"}
  /\ Photo \notin Files /\ Photo # Null
  /\ MaxRequests \in Nat /\ MaxTime \in Nat /\ MaxTokens \in Nat

VARIABLES clock, user,
          social,    (* a social account is linked to the user              *)
          tokens,    (* user_tokens                                         *)
          access,    (* the access tokens that were signed                  *)
          codes,     (* Redis: exchange codes, by the session they carry    *)
          letters,   (* the mail that carries a link                        *)
          files,     (* avatar files                                        *)
          preferences, (* of user_preferences no row, or notifyOnAuctionEnd *)
          calls, requests,
          over,      (* history: tokens that were used up or revoked        *)
          changes,   (* history: the times the password was set             *)
          closed,    (* history: the account was deleted                    *)
          lost,      (* history: a save wrote back a row changed meanwhile  *)
          failed,    (* history: a step threw or a file was not deleted     *)
          asked,     (* history: what the last update of the preferences set *)
          mixed,     (* history: a row was created twice                    *)
          unwanted   (* history: a notice to a user who had declined them   *)

stores == <<social, codes, letters, files>>
history == <<over, changes, closed, lost, failed>>
settings == <<preferences, asked, mixed, unwanted>>
vars == <<clock, user, tokens, access, stores, calls, requests, history, settings>>

TokenIds == 1 .. MaxTokens
Links == {"verification", "reset"}

NoUser == [state |-> "none", password |-> Null, changedAt |-> Null, verified |-> FALSE, avatar |-> Null]
NoToken == [type |-> Null, state |-> "none"]
Idle == [op |-> Null, pc |-> "idle", token |-> Null, password |-> Null, copy |-> NoUser, file |-> Null,
         row |-> Null, wish |-> Null]

Second(t) == t \div 2
Rounded(t) == (t + 1) \div 2

\* A registered user with one session, as register, verify-email and login
\* leave it, and with preferences unless older than these; or nobody yet.
Init ==
  /\ clock = 0
  /\ \/ user = NoUser /\ tokens = [t \in TokenIds |-> NoToken] /\ access = {} /\ preferences = Null
     \/ /\ \E p \in Passwords : user = [NoUser EXCEPT !.state = "there", !.password = p, !.verified = TRUE]
        /\ tokens = [t \in TokenIds |-> IF t = 1 THEN [type |-> "refresh", state |-> "live"] ELSE NoToken]
        /\ access = {[iat |-> 0]} /\ preferences \in {Null, "on"}
  /\ social = FALSE /\ codes = {} /\ files = {}
  /\ letters = [t \in TokenIds |-> "none"]
  /\ calls = [c \in Calls |-> Idle] /\ requests = 0
  /\ over = {} /\ changes = <<>> /\ closed = FALSE /\ lost = FALSE /\ failed = FALSE
  /\ asked = Null /\ mixed = FALSE /\ unwanted = FALSE

There == user.state = "there"

\* validateJwtUser.
JwtAccepted(token) == There /\ (user.changedAt = Null \/ token.iat >= user.changedAt)
Authenticated == {token \in access : JwtAccepted(token)} # {}

Signed == [iat |-> Second(clock)]

-----------------------------------------------------------------------------
(* Control of a request *)

Starts(c, op, pc) ==
  /\ calls[c].pc = "idle" /\ requests < MaxRequests
  /\ requests' = requests + 1
  /\ calls' = [calls EXCEPT ![c] = [Idle EXCEPT !.op = op, !.pc = pc]]

StartsWith(c, call) ==
  /\ calls[c].pc = "idle" /\ requests < MaxRequests
  /\ requests' = requests + 1
  /\ calls' = [calls EXCEPT ![c] = call]

At(c, pc) == calls[c].pc = pc
Goto(c, pc) == calls' = [calls EXCEPT ![c].pc = pc]
Return(c) == calls' = [calls EXCEPT ![c] = Idle]

\* A step throws: an error response, and no more steps.  The deletion of a file
\* does not throw (DeletesFile).
CallFails(c) ==
  /\ calls[c].pc \notin {"idle", "delete_old", "delete_file"} /\ ~failed
  /\ failed' = TRUE
  /\ Return(c)
  /\ UNCHANGED <<clock, user, tokens, access, stores, requests, over, changes, closed, lost, settings>>

\* The database allocates the next id.
Fresh(t) == t \in TokenIds /\ tokens[t] = NoToken /\ \A u \in 1 .. t - 1 : tokens[u] # NoToken
Inserted(t, type) == [tokens EXCEPT ![t] = [type |-> type, state |-> "live"]]
Live(type) == {t \in TokenIds : tokens[t] = [type |-> type, state |-> "live"]}
Rows(type) == {t \in TokenIds : tokens[t].type = type /\ tokens[t].state \notin {"none", "gone", "swept"}}
WithState(ids, state) == [t \in TokenIds |-> IF t \in ids THEN [tokens[t] EXCEPT !.state = state] ELSE tokens[t]]

\* createDefaultPreferences: save() updates the row when there is one.
SavesDefaults(c) ==
  /\ preferences' = "on" /\ mixed' = (mixed \/ (calls[c].row = Null /\ preferences # Null))
  /\ UNCHANGED <<asked, unwanted>>

-----------------------------------------------------------------------------
(* register, resend-verification, forgot-password: a link by mail *)

\* findOneBy sees no deleted user, the unique index on email does.
RegisterReads(c) == 
  /\ ~There /\ Starts(c, "register", "register_save")
  /\ UNCHANGED <<clock, user, tokens, access, stores, history, settings>>

RegisterSaves(c) ==
  /\ At(c, "register_save")
  /\ \/ /\ user.state = "none" /\ Goto(c, "register_preferences")
        /\ \E p \in Passwords : user' = [NoUser EXCEPT !.state = "there", !.password = p]
     \/ user.state # "none" /\ Return(c) /\ UNCHANGED user
  /\ UNCHANGED <<clock, tokens, access, stores, requests, history, settings>>

RegisterCreatesPreferences(c) ==
  /\ At(c, "register_preferences") /\ Goto(c, "verification")
  /\ SavesDefaults(c)
  /\ UNCHANGED <<clock, user, tokens, access, stores, requests, history>>

ResendReads(c) ==
  /\ There /\ ~user.verified /\ Starts(c, "resend", "drop_verification")
  /\ UNCHANGED <<clock, user, tokens, access, stores, history, settings>>

ForgotReads(c) ==
  /\ There /\ user.password # Null /\ Starts(c, "forgot", "drop_reset")
  /\ UNCHANGED <<clock, user, tokens, access, stores, history, settings>>

\* Mutated form: links of every type are deleted.
DropsTokens(c, type) ==
  /\ At(c, IF type = "reset" THEN "drop_reset" ELSE "drop_verification") /\ Goto(c, type)
  /\ tokens' = WithState(UNION {Rows(any) : any \in Links}, "gone")
  /\ UNCHANGED <<clock, user, access, stores, requests, history, settings>>

\* deleteUserTokensByType: the earlier links are dead.
DropsLinks(c, type) ==
  /\ At(c, IF type = "reset" THEN "drop_reset" ELSE "drop_verification") /\ Goto(c, type)
  /\ tokens' = WithState(Rows(type), "gone")
  /\ over' = over \cup Rows(type)
  /\ UNCHANGED <<clock, user, access, stores, requests, changes, closed, lost, failed, settings>>

GeneratesLink(c, type, t) ==
  /\ At(c, type) /\ Fresh(t)
  /\ tokens' = Inserted(t, type)
  /\ calls' = [calls EXCEPT ![c].pc = "mail", ![c].token = t]
  /\ UNCHANGED <<clock, user, access, stores, requests, history, settings>>

\* sendCriticalEmail.
MailsLink(c) ==
  /\ At(c, "mail") /\ Return(c)
  /\ letters' = [letters EXCEPT ![calls[c].token] = "queued"]
  /\ UNCHANGED <<clock, user, tokens, access, social, codes, files, requests, history, settings>>

-----------------------------------------------------------------------------
(* verify-email and reset-password: a link is used *)

\* verifyToken: unused and not expired, of a user who is there.
UsesLink(c, t, op, pc) ==
  /\ There /\ t \in Live(IF op = "reset" THEN "reset" ELSE "verification")
  /\ StartsWith(c, [Idle EXCEPT !.op = op, !.pc = pc, !.token = t])

VerifyReads(c, t) ==
  /\ UsesLink(c, t, "verify", "verify_update") /\ ~user.verified
  /\ UNCHANGED <<clock, user, tokens, access, stores, history, settings>>

VerifyUpdates(c) ==
  /\ At(c, "verify_update") /\ Goto(c, "mark")
  /\ user' = [user EXCEPT !.verified = TRUE]
  /\ UNCHANGED <<clock, tokens, access, stores, requests, history, settings>>

ResetReads(c, t) ==
  /\ UsesLink(c, t, "reset", "reset_read")
  /\ UNCHANGED <<clock, user, tokens, access, stores, history, settings>>

ResetReadsUser(c) ==
  /\ At(c, "reset_read")
  /\ \/ There /\ user.password # Null /\ Goto(c, "set_password")
     \/ ~(There /\ user.password # Null) /\ Return(c)
  /\ UNCHANGED <<clock, user, tokens, access, stores, requests, history, settings>>

\* Mutated form: the time of the change is not set.
SetsPasswordOnly(c) ==
  /\ At(c, "set_password") /\ Goto(c, IF calls[c].op = "reset" THEN "mark" ELSE "revoke")
  /\ \E p \in Passwords : user' = [user EXCEPT !.password = p]
  /\ changes' = Append(changes, clock)
  /\ UNCHANGED <<clock, tokens, access, stores, requests, over, closed, lost, failed, settings>>

\* updateBy of resetPassword and of changePassword.
SetsPassword(c) ==
  /\ At(c, "set_password") /\ Goto(c, IF calls[c].op = "reset" THEN "mark" ELSE "revoke")
  /\ \E p \in Passwords : user' = [user EXCEPT !.password = p, !.changedAt = Rounded(clock)]
  /\ changes' = Append(changes, clock)
  /\ UNCHANGED <<clock, tokens, access, stores, requests, over, closed, lost, failed, settings>>

\* Mutated form: the row is saved as it was read.
MarksOnlyTime(c) ==
  /\ At(c, "mark") /\ Return(c)
  /\ over' = over \cup {calls[c].token}
  /\ UNCHANGED <<clock, user, tokens, access, stores, requests, changes, closed, lost, failed, settings>>

\* markTokenAsUsed saves the row, and inserts it when it is gone; a refresh
\* then signs an access token.  The refresh token is not replaced.
MarksUsed(c) ==
  /\ At(c, "mark") /\ Return(c)
  /\ tokens' = WithState({calls[c].token}, "used")
  /\ over' = over \cup {calls[c].token}
  /\ access' = IF calls[c].op = "refresh" THEN access \cup {Signed} ELSE access
  /\ UNCHANGED <<clock, user, stores, requests, changes, closed, lost, failed, settings>>

-----------------------------------------------------------------------------
(* login, refresh, logout, change-password *)

LoginReads(c, p) ==
  /\ There /\ user.password = p /\ user.verified /\ Starts(c, "login", "session")
  /\ UNCHANGED <<clock, user, tokens, access, stores, history, settings>>

\* generateAuthTokens, for a login and for OAuth.
OpensSession(c, t) ==
  /\ At(c, "session") /\ Fresh(t)
  /\ tokens' = Inserted(t, "refresh")
  /\ access' = access \cup {Signed}
  /\ calls' = [calls EXCEPT ![c] = IF @.op = "oauth" THEN [@ EXCEPT !.pc = "code", !.token = t] ELSE Idle]
  /\ UNCHANGED <<clock, user, stores, requests, history, settings>>

\* The cookie holds the refresh token of any session that was opened.
RefreshReads(c, t) ==
  /\ There /\ tokens[t].type = "refresh"
  /\ StartsWith(c, [Idle EXCEPT !.op = "refresh", !.pc = "find", !.token = t])
  /\ UNCHANGED <<clock, user, tokens, access, stores, history, settings>>

\* findActiveRefreshToken.
RefreshFinds(c) ==
  /\ At(c, "find")
  /\ IF calls[c].token \in Live("refresh") THEN Goto(c, "mark") ELSE Return(c)
  /\ UNCHANGED <<clock, user, tokens, access, stores, requests, history, settings>>

LogoutFinds(c, t) ==
  /\ t \in Live("refresh")
  /\ StartsWith(c, [Idle EXCEPT !.op = "logout", !.pc = "mark", !.token = t])
  /\ UNCHANGED <<clock, user, tokens, access, stores, history, settings>>

ChangeReads(c, p) ==
  /\ Authenticated /\ user.password = p /\ Starts(c, "change", "set_password")
  /\ UNCHANGED <<clock, user, tokens, access, stores, history, settings>>

RevokesSessions(c) ==
  /\ At(c, "revoke") /\ Return(c)
  /\ tokens' = WithState(Live("refresh"), "used")
  /\ over' = over \cup Live("refresh")
  /\ UNCHANGED <<clock, user, access, stores, requests, changes, closed, lost, failed, settings>>

-----------------------------------------------------------------------------
(* OAuth: validateOAuthLogin for a profile with a verified email *)

OAuthFindsAccount(c) ==
  /\ social => There
  /\ Starts(c, "oauth", IF social THEN "session" ELSE "oauth_user")
  /\ UNCHANGED <<clock, user, tokens, access, stores, history, settings>>

OAuthFindsUser(c) ==
  /\ At(c, "oauth_user")
  /\ Goto(c, IF There THEN "oauth_link" ELSE "oauth_create")
  /\ UNCHANGED <<clock, user, tokens, access, stores, requests, history, settings>>

OAuthLinks(c) ==
  /\ At(c, "oauth_link")
  /\ social' = TRUE /\ IF social THEN Return(c) ELSE Goto(c, "session")
  /\ UNCHANGED <<clock, user, tokens, access, codes, letters, files, requests, history, settings>>

\* One transaction; the unique index on email refuses a second user.  The avatar
\* is the photo of the profile, which stays at the provider, if there is one.
OAuthCreates(c) ==
  /\ At(c, "oauth_create")
  /\ IF user.state = "none"
     THEN /\ \E photo \in {Null, Photo} :
               user' = [NoUser EXCEPT !.state = "there", !.verified = TRUE, !.avatar = photo]
          /\ social' = TRUE /\ Goto(c, "session") /\ SavesDefaults(c)
     ELSE Return(c) /\ UNCHANGED <<user, social, settings>>
  /\ UNCHANGED <<clock, tokens, access, codes, letters, files, requests, history>>

CreatesCode(c) ==
  /\ At(c, "code") /\ Return(c)
  /\ codes' = codes \cup {calls[c].token}
  /\ UNCHANGED <<clock, user, tokens, access, social, letters, files, requests, history, settings>>

ExchangeReads(c, t) ==
  /\ t \in codes
  /\ StartsWith(c, [Idle EXCEPT !.op = "exchange", !.pc = "delete_code", !.token = t])
  /\ UNCHANGED <<clock, user, tokens, access, stores, history, settings>>

ExchangeDeletes(c) ==
  /\ At(c, "delete_code") /\ Return(c)
  /\ codes' = codes \ {calls[c].token}
  /\ UNCHANGED <<clock, user, tokens, access, social, letters, files, requests, history, settings>>

-----------------------------------------------------------------------------
(* Profile, avatar and account of an authenticated user *)

ReadsUser(c, op, pc) ==
  /\ Authenticated
  /\ StartsWith(c, [Idle EXCEPT !.op = op, !.pc = pc, !.copy = [user EXCEPT !.password = Null]])

\* save(): the columns that were read, with the change; not the password.
Saves(c, avatar) ==
  /\ user' = [calls[c].copy EXCEPT !.password = user.password, !.avatar = avatar]
  /\ lost' = (lost \/ calls[c].copy # [user EXCEPT !.password = Null])

ProfileReads(c) ==
  /\ ReadsUser(c, "profile", "save_profile")
  /\ UNCHANGED <<clock, user, tokens, access, stores, history, settings>>

ProfileSaves(c) ==
  /\ At(c, "save_profile") /\ Return(c)
  /\ Saves(c, calls[c].copy.avatar)
  /\ UNCHANGED <<clock, tokens, access, stores, requests, over, changes, closed, failed, settings>>

AvatarReads(c) ==
  /\ ReadsUser(c, "avatar", "upload")
  /\ UNCHANGED <<clock, user, tokens, access, stores, history, settings>>

\* A file gets a name of its own.
AvatarUploads(c, f) ==
  /\ At(c, "upload") /\ f \notin files /\ user.avatar # f
  /\ \A d \in Calls : calls[d].file # f /\ calls[d].copy.avatar # f
  /\ files' = files \cup {f}
  /\ calls' = [calls EXCEPT ![c].pc = "save_avatar", ![c].file = f]
  /\ UNCHANGED <<clock, user, tokens, access, social, codes, letters, requests, history, settings>>

AvatarSaves(c) ==
  /\ At(c, "save_avatar")
  /\ Saves(c, calls[c].file)
  /\ IF calls[c].copy.avatar = Null THEN Return(c) ELSE Goto(c, "delete_old")
  /\ UNCHANGED <<clock, tokens, access, stores, requests, over, changes, closed, failed, settings>>

\* FileUploadService.deleteFile: an error is logged, and the handler goes on.
\* For a photo no file is found.
DeletesFile(avatar) ==
  /\ \/ files' = files \ {avatar} /\ UNCHANGED failed
     \/ ~failed /\ failed' = TRUE /\ UNCHANGED files
  /\ UNCHANGED <<social, codes, letters, over, changes, closed, lost>>

\* Mutated form: the file that was just uploaded is deleted.
AvatarDeletesNew(c) ==
  /\ At(c, "delete_old") /\ Return(c)
  /\ DeletesFile(calls[c].file)
  /\ UNCHANGED <<clock, user, tokens, access, requests, settings>>

AvatarDeletesOld(c) ==
  /\ At(c, "delete_old") /\ Return(c)
  /\ DeletesFile(calls[c].copy.avatar)
  /\ UNCHANGED <<clock, user, tokens, access, requests, settings>>

RemovalReads(c) ==
  /\ user.avatar # Null /\ ReadsUser(c, "remove", "delete_file")
  /\ UNCHANGED <<clock, user, tokens, access, stores, history, settings>>

\* The file goes first, the row after it.
RemovalDeletesFile(c) ==
  /\ At(c, "delete_file") /\ Goto(c, "clear_avatar")
  /\ DeletesFile(calls[c].copy.avatar)
  /\ UNCHANGED <<clock, user, tokens, access, requests, settings>>

RemovalSaves(c) ==
  /\ At(c, "clear_avatar") /\ Return(c)
  /\ Saves(c, Null)
  /\ UNCHANGED <<clock, tokens, access, stores, requests, over, changes, closed, failed, settings>>

\* deleteAccount: one transaction over the user and the tokens.
AccountDeleted ==
  /\ Authenticated /\ requests < MaxRequests /\ requests' = requests + 1
  /\ user' = [user EXCEPT !.state = "deleted"]
  /\ tokens' = [t \in TokenIds |-> IF tokens[t] = NoToken THEN NoToken ELSE [tokens[t] EXCEPT !.state = "gone"]]
  /\ over' = over \cup {t \in TokenIds : tokens[t] # NoToken}
  /\ closed' = TRUE
  /\ UNCHANGED <<clock, access, stores, calls, changes, lost, failed, settings>>

-----------------------------------------------------------------------------
(* The preferences, read and changed by the user, and read for the mail about
   an auction that ended *)

\* Mutated form: the row is created whether or not it is there.
FindsPreferencesNever(c, op) ==
  StartsWith(c, [Idle EXCEPT !.op = op, !.pc = "create", !.row = preferences, !.wish = asked])

\* findOrCreateByUserId.
FindsPreferences(c, op) ==
  StartsWith(c, [Idle EXCEPT !.op = op, !.pc = IF preferences = Null THEN "create" ELSE "have",
                             !.row = preferences, !.wish = asked])

PreferencesRead(c) ==
  /\ Authenticated /\ FindsPreferences(c, "preferences")
  /\ UNCHANGED <<clock, user, tokens, access, stores, history, settings>>

NoticeReads(c) ==
  /\ There /\ FindsPreferences(c, "notice")
  /\ UNCHANGED <<clock, user, tokens, access, stores, history, settings>>

PreferencesCreated(c) ==
  /\ At(c, "create") /\ Goto(c, "have")
  /\ SavesDefaults(c)
  /\ UNCHANGED <<clock, user, tokens, access, stores, requests, history>>

PreferencesReturned(c) ==
  /\ At(c, "have") /\ calls[c].op = "preferences" /\ Return(c)
  /\ UNCHANGED <<clock, user, tokens, access, stores, requests, history, settings>>

PreferencesSaved(c) ==
  /\ At(c, "have") /\ calls[c].op = "preferences" /\ Return(c)
  /\ \E choice \in {"on", "off"} : preferences' = choice /\ asked' = choice
  /\ UNCHANGED <<clock, user, tokens, access, stores, requests, history, mixed, unwanted>>

\* notifyOnAuctionEnd, as it was read or created.
Wanted(c) == calls[c].row # "off"

\* The mail to the owner or the winner joins the queue, if it is wanted.
NoticeQueued(c) ==
  /\ At(c, "have") /\ calls[c].op = "notice" /\ Return(c)
  /\ unwanted' = (unwanted \/ (Wanted(c) /\ calls[c].wish = "off"))
  /\ UNCHANGED <<clock, user, tokens, access, stores, requests, history, preferences, asked, mixed>>

-----------------------------------------------------------------------------
(* Time, the nightly clean-up, and the mail worker *)

Tick ==
  /\ clock < MaxTime /\ clock' = clock + 1
  /\ UNCHANGED <<user, tokens, access, stores, calls, requests, history, settings>>

TokenExpires(t) ==
  /\ tokens[t].state = "live"
  /\ tokens' = WithState({t}, "expired")
  /\ UNCHANGED <<clock, user, access, stores, calls, requests, history, settings>>

CodeExpires(t) ==
  /\ t \in codes /\ codes' = codes \ {t}
  /\ UNCHANGED <<clock, user, tokens, access, social, letters, files, calls, requests, history, settings>>

Cleanup(t) ==
  /\ tokens[t].state = "expired"
  /\ tokens' = WithState({t}, "swept")
  /\ UNCHANGED <<clock, user, access, stores, calls, requests, history, settings>>

LetterSent(t) ==
  /\ letters[t] = "queued"
  /\ letters' = [letters EXCEPT ![t] = "sent"]
  /\ UNCHANGED <<clock, user, tokens, access, social, codes, files, calls, requests, history, settings>>

\* sendMail threw: tried again with a backoff, then kept as failed.
LetterFails(t) ==
  /\ letters[t] = "queued"
  /\ letters' \in {letters, [letters EXCEPT ![t] = "dead"]}
  /\ UNCHANGED <<clock, user, tokens, access, social, codes, files, calls, requests, history, settings>>

-----------------------------------------------------------------------------

Request(c) ==
  \/ RegisterReads(c) \/ ResendReads(c) \/ ForgotReads(c) \/ OAuthFindsAccount(c)
  \/ ProfileReads(c) \/ AvatarReads(c) \/ RemovalReads(c) \/ PreferencesRead(c) \/ NoticeReads(c)
  \/ \E p \in Passwords : LoginReads(c, p) \/ ChangeReads(c, p)
  \/ \E t \in TokenIds : VerifyReads(c, t) \/ ResetReads(c, t) \/ RefreshReads(c, t)
                         \/ LogoutFinds(c, t) \/ ExchangeReads(c, t)

Step(c) ==
  \/ RegisterSaves(c) \/ RegisterCreatesPreferences(c) \/ MailsLink(c)
  \/ \E type \in Links : DropsLinks(c, type) \/ \E t \in TokenIds : GeneratesLink(c, type, t)
  \/ VerifyUpdates(c) \/ ResetReadsUser(c) \/ SetsPassword(c) \/ MarksUsed(c)
  \/ \E t \in TokenIds : OpensSession(c, t)
  \/ RefreshFinds(c) \/ RevokesSessions(c)
  \/ OAuthFindsUser(c) \/ OAuthLinks(c) \/ OAuthCreates(c) \/ CreatesCode(c) \/ ExchangeDeletes(c)
  \/ ProfileSaves(c) \/ AvatarSaves(c) \/ AvatarDeletesOld(c)
  \/ RemovalDeletesFile(c) \/ RemovalSaves(c) \/ CallFails(c)
  \/ PreferencesCreated(c) \/ PreferencesReturned(c) \/ PreferencesSaved(c) \/ NoticeQueued(c)
  \/ \E f \in Files : AvatarUploads(c, f)

Next ==
  \/ \E c \in Calls : Request(c) \/ Step(c)
  \/ AccountDeleted \/ Tick
  \/ \E t \in TokenIds : TokenExpires(t) \/ CodeExpires(t) \/ Cleanup(t) \/ LetterSent(t) \/ LetterFails(t)

Spec == Init /\ [][Next]_vars

-----------------------------------------------------------------------------
(* Properties *)

Quiet == \A c \in Calls : At(c, "idle")

UserType ==
  [state : {"none", "there", "deleted"}, password : Passwords \cup {Null},
   changedAt : Nat \cup {Null}, verified : BOOLEAN, avatar : Files \cup {Null, Photo}]

\* Types; a link has a mail and a session none.
TypeOK ==
  /\ clock \in 0 .. MaxTime /\ requests \in 0 .. MaxRequests
  /\ user \in UserType /\ social \in BOOLEAN
  /\ tokens \in [TokenIds -> [type : Links \cup {"refresh", Null},
                              state : {"none", "live", "used", "expired", "gone", "swept"}]]
  /\ access \subseteq [iat : Nat]
  /\ codes \subseteq TokenIds /\ files \subseteq Files /\ over \subseteq TokenIds
  /\ letters \in [TokenIds -> {"none", "queued", "sent", "dead"}]
  /\ changes \in Seq(Nat)
  /\ closed \in BOOLEAN /\ lost \in BOOLEAN /\ failed \in BOOLEAN
  /\ preferences \in {"on", "off", Null} /\ asked \in {"on", "off", Null}
  /\ mixed \in BOOLEAN /\ unwanted \in BOOLEAN

\* A session or a link that was used, replaced or revoked is never accepted
\* again, also when another request still holds the row it read before.
OverIsOver == over \cap {t \in TokenIds : tokens[t].state = "live"} = {}

\* A password change and a deletion stay: access tokens signed in a second
\* before the last change are refused, those signed in a second after it are
\* accepted, and a deleted account does not come back.  Only a save of the
\* profile that overlapped writes an older passwordChangedAt or deletedAt back.
RevocationSticks ==
  ~lost =>
    /\ closed => user.state = "deleted"
    /\ changes # <<>> /\ There =>
         LET changed == Second(changes[Len(changes)]) IN
         \A token \in access : /\ token.iat < changed => ~JwtAccepted(token)
                               /\ token.iat > changed => JwtAccepted(token)

\* When no request is in progress the avatar of the user is a file that is
\* there, or a photo at its provider, and there are no other files.
AvatarIsKept == Quiet /\ ~failed /\ ~lost => files = {user.avatar} \ {Null, Photo}

\* When no request is in progress one of the links that were mailed works, or
\* was used, or expired: requests that replace each other's links at the same
\* time do not leave the user with dead mail only.
MailedLinkWorks ==
  Quiet /\ ~failed /\ ~closed =>
    \A type \in Links :
      LET mailed == {t \in TokenIds : tokens[t].type = type /\ letters[t] # "none"} IN
      mailed # {} => \E t \in mailed : tokens[t].state \in {"live", "used", "expired", "swept"}

\* What a user asked for stays: the row says what the last update set, and no
\* mail about an auction that ended is queued for a user who had declined
\* before the job looked.  Only defaults saved by a request that had found no
\* row, after another had created one, take it back.
OptOutSticks == ~mixed => ~unwanted /\ (asked # Null => preferences = asked)

=============================================================================
