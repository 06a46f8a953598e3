---------------------------- MODULE AccountProofs ----------------------------
(***************************************************************************)
(* Proofs that what is over in Accounts stays over: used and revoked       *)
(* tokens, passwords that were changed, accounts that were deleted, mails  *)
(* that were declined; that one of the links that were mailed works, and   *)
(* that the avatar has its file; for any number of requests at once, of    *)
(* tokens and of moments, and with any step throwing.                      *)
(***************************************************************************)
EXTENDS Accounts, TLAPS

-----------------------------------------------------------------------------
(* Types of the locals *)

Ops == {"register", "resend", "forgot", "verify", "reset", "login", "refresh", "logout", "change",
        "oauth", "exchange", "profile", "avatar", "remove", "preferences", "notice", Null}

Pcs == {"idle", "register_save", "register_preferences", "drop_verification", "drop_reset",
        "verification", "reset", "mail", "verify_update", "mark", "reset_read", "set_password",
        "revoke", "session", "find", "oauth_user", "oauth_link", "oauth_create", "code",
        "delete_code", "save_profile", "upload", "save_avatar", "delete_old", "delete_file",
        "clear_avatar", "create", "have"}

CallRecord ==
  [op : Ops, pc : Pcs, token : TokenIds \cup {Null}, password : Passwords \cup {Null},
   copy : UserType, file : Files \cup {Null}, row : {"on", "off", Null}, wish : {"on", "off", Null}]

Holding == {"verify_update", "reset_read", "mark", "find", "code", "delete_code"}

\* A call that is to use up a token has one; only one that has found the row of
\* the preferences remembers it.
Sound(call) ==
  /\ call \in CallRecord
  /\ call.pc \in Holding \/ (call.pc = "set_password" /\ call.op = "reset") => call.token \in TokenIds
  /\ call.row # Null => call.pc = "have"

CallsInv == calls \in [Calls -> CallRecord] /\ \A c \in Calls : Sound(calls[c])

LEMMA IdleIsSound == Sound(Idle) /\ Idle \in CallRecord /\ NoUser \in UserType
  BY DEF Sound, Idle, CallRecord, UserType, NoUser, Ops, Pcs, Holding

LEMMA ReplaceCall ==
  ASSUME CallsInv, NEW c \in Calls, NEW call, Sound(call), calls' = [calls EXCEPT ![c] = call]
  PROVE  CallsInv'
  BY DEF CallsInv, Sound

LEMMA GotoIsSound ==
  ASSUME NEW call, Sound(call), NEW pc \in Pcs, call.pc # "have",
         pc \in Holding \/ (pc = "set_password" /\ call.op = "reset") => call.token \in TokenIds
  PROVE  Sound([call EXCEPT !.pc = pc])
  BY DEF Sound, CallRecord

LEMMA StartIsSound ==
  ASSUME NEW op \in Ops \ {"reset"}, NEW pc \in Pcs \ Holding
  PROVE  Sound([Idle EXCEPT !.op = op, !.pc = pc])
  BY IdleIsSound DEF Sound, CallRecord, Holding, Idle

LEMMA StartWithTokenIsSound ==
  ASSUME NEW op \in Ops, NEW pc \in Pcs, NEW t \in TokenIds
  PROVE  Sound([Idle EXCEPT !.op = op, !.pc = pc, !.token = t])
  BY IdleIsSound DEF Sound, CallRecord, Holding, Idle

LEMMA StartWithCopyIsSound ==
  ASSUME NEW op \in Ops \ {"reset"}, NEW pc \in Pcs \ Holding, user \in UserType
  PROVE  Sound([Idle EXCEPT !.op = op, !.pc = pc, !.copy = [user EXCEPT !.password = Null]])
<1>1. [user EXCEPT !.password = Null] \in UserType
  BY DEF UserType
<1> QED
  BY <1>1, IdleIsSound DEF Sound, CallRecord, Holding, Idle

LEMMA FoundIsSound ==
  ASSUME NEW op \in {"preferences", "notice"}, NEW pc \in {"create", "have"},
         NEW row \in {"on", "off", Null}, NEW wish \in {"on", "off", Null}, row # Null => pc = "have"
  PROVE  Sound([Idle EXCEPT !.op = op, !.pc = pc, !.row = row, !.wish = wish])
<1> DEFINE call == [Idle EXCEPT !.op = op, !.pc = pc, !.row = row, !.wish = wish]
<1>1. call.pc = pc /\ call.row = row
  BY DEF Idle
<1>2. op \in Ops /\ pc \in Pcs \ Holding /\ pc # "set_password"
  BY DEF Ops, Pcs, Holding
<1>3. call \in CallRecord
  BY <1>2, IdleIsSound DEF CallRecord, Idle
<1> QED
  BY <1>1, <1>2, <1>3 DEF Sound

-----------------------------------------------------------------------------
(* Types of the rows and of the locals *)

Row == [type : Links \cup {"refresh", Null},
        state : {"none", "live", "used", "expired", "gone", "swept"}]
Letter == {"none", "queued", "sent", "dead"}

TypeInv == TypeOK /\ CallsInv

LEMMA InitTypes == Init => TypeInv
<1> SUFFICES ASSUME Init PROVE TypeInv
  OBVIOUS
<1>1. user \in UserType
  <2>1. \A p \in Passwords : [NoUser EXCEPT !.state = "there", !.password = p, !.verified = TRUE] \in UserType
    BY DEF UserType, NoUser
  <2> QED
    BY <2>1, IdleIsSound DEF Init
<1>2. CallsInv
  BY IdleIsSound DEF Init, CallsInv, Sound
<1>3. tokens \in [TokenIds -> Row]
  <2>1. \/ tokens = [t \in TokenIds |-> NoToken]
        \/ tokens = [t \in TokenIds |-> IF t = 1 THEN [type |-> "refresh", state |-> "live"] ELSE NoToken]
    BY DEF Init
  <2> QED
    BY <2>1 DEF NoToken, Row
<1>4. letters \in [TokenIds -> Letter]
  BY DEF Init, Letter
<1>5. access \subseteq [iat : Nat]
  <2>1. access = {} \/ access = {[iat |-> 0]}
    BY DEF Init
  <2> QED
    BY <2>1
<1>6. clock \in 0 .. MaxTime /\ requests \in 0 .. MaxRequests /\ changes \in Seq(Nat)
  <2>1. clock = 0 /\ requests = 0 /\ changes = <<>>
    BY DEF Init
  <2> QED
    BY <2>1, AccountsAssumption
<1>7. /\ social \in BOOLEAN /\ codes \subseteq TokenIds /\ files \subseteq Files /\ over \subseteq TokenIds
      /\ closed \in BOOLEAN /\ lost \in BOOLEAN /\ failed \in BOOLEAN
      /\ preferences \in {"on", "off", Null} /\ asked \in {"on", "off", Null}
      /\ mixed \in BOOLEAN /\ unwanted \in BOOLEAN
  BY DEF Init
<1> QED
  BY <1>1, <1>2, <1>3, <1>4, <1>5, <1>6, <1>7 DEF TypeInv, TypeOK, Row, Letter

\* The first step of a request only replaces the record of its call.
LEMMA RequestKeepsTypes ==
  ASSUME TypeInv, NEW c \in Calls, Request(c)
  PROVE  TypeInv'
<1>1. PICK call : Sound(call) /\ calls' = [calls EXCEPT ![c] = call]
  <2>1. CASE RegisterReads(c) \/ ResendReads(c) \/ ForgotReads(c)
    BY <2>1, StartIsSound
    DEF RegisterReads, ResendReads, ForgotReads, Starts, Ops, Pcs, Holding
  <2>2. CASE OAuthFindsAccount(c)
    <3>1. CASE social
      BY <2>2, <3>1, StartIsSound DEF OAuthFindsAccount, Starts, Ops, Pcs, Holding
    <3>2. CASE ~social
      BY <2>2, <3>2, StartIsSound DEF OAuthFindsAccount, Starts, Ops, Pcs, Holding
    <3> QED
      BY <3>1, <3>2
  <2>3. CASE \E p \in Passwords : LoginReads(c, p) \/ ChangeReads(c, p)
    BY <2>3, StartIsSound DEF LoginReads, ChangeReads, Starts, Ops, Pcs, Holding
  <2>4. CASE ProfileReads(c) \/ AvatarReads(c) \/ RemovalReads(c)
    BY <2>4, StartWithCopyIsSound
    DEF ProfileReads, AvatarReads, RemovalReads, ReadsUser, StartsWith, TypeInv, TypeOK,
        Ops, Pcs, Holding
  <2>5. CASE \E t \in TokenIds : \/ VerifyReads(c, t) \/ ResetReads(c, t) \/ RefreshReads(c, t)
                                 \/ LogoutFinds(c, t) \/ ExchangeReads(c, t)
    <3>1. PICK t \in TokenIds : \/ VerifyReads(c, t) \/ ResetReads(c, t) \/ RefreshReads(c, t)
                                \/ LogoutFinds(c, t) \/ ExchangeReads(c, t)
      BY <2>5
    <3>2. \E op \in Ops, pc \in Pcs :
            calls' = [calls EXCEPT ![c] = [Idle EXCEPT !.op = op, !.pc = pc, !.token = t]]
      BY <3>1
      DEF VerifyReads, ResetReads, RefreshReads, LogoutFinds, ExchangeReads, UsesLink, StartsWith,
          Ops, Pcs
    <3> QED
      BY <3>2, StartWithTokenIsSound
  <2>6. CASE PreferencesRead(c) \/ NoticeReads(c)
    <3>1. PICK op \in {"preferences", "notice"} : FindsPreferences(c, op)
      BY <2>6 DEF PreferencesRead, NoticeReads
    <3>2. preferences \in {"on", "off", Null} /\ asked \in {"on", "off", Null}
      BY DEF TypeInv, TypeOK
    <3> DEFINE pc == IF preferences = Null THEN "create" ELSE "have"
    <3>3. Sound([Idle EXCEPT !.op = op, !.pc = pc, !.row = preferences, !.wish = asked])
      BY <3>2, FoundIsSound
    <3> QED
      BY <3>1, <3>3 DEF FindsPreferences, StartsWith
  <2> QED
    BY <2>1, <2>2, <2>3, <2>4, <2>5, <2>6 DEF Request
<1>2. CallsInv'
  BY <1>1, ReplaceCall DEF TypeInv
<1>3. /\ UNCHANGED <<clock, user, tokens, access, stores, history, settings>>
      /\ requests' = requests + 1 /\ requests < MaxRequests
  BY DEF Request, RegisterReads, ResendReads, ForgotReads, OAuthFindsAccount, LoginReads, ChangeReads,
         ProfileReads, AvatarReads, RemovalReads, ReadsUser, VerifyReads, ResetReads, RefreshReads,
         LogoutFinds, ExchangeReads, UsesLink, PreferencesRead, NoticeReads, FindsPreferences,
         Starts, StartsWith
<1> QED
  BY <1>2, <1>3, AccountsAssumption DEF TypeInv, TypeOK, stores, history, settings

\* So does each later step.
LEMMA StepKeepsCalls ==
  ASSUME TypeInv, NEW c \in Calls, Step(c)
  PROVE  CallsInv'
<1>0. calls[c] \in CallRecord /\ Sound(calls[c]) /\ calls \in [Calls -> CallRecord]
  BY DEF TypeInv, CallsInv
<1> DEFINE Replaced == \E call : Sound(call) /\ calls' = [calls EXCEPT ![c] = call]
<1>1. ASSUME Return(c) PROVE Replaced
  BY <1>1, IdleIsSound DEF Return
<1>2. ASSUME NEW pc \in Pcs, Goto(c, pc), calls[c].pc # "have",
             pc \in Holding \/ (pc = "set_password" /\ calls[c].op = "reset") => calls[c].token \in TokenIds
      PROVE  Replaced
  <2>1. calls' = [calls EXCEPT ![c] = [calls[c] EXCEPT !.pc = pc]]
    BY <1>0, <1>2 DEF Goto
  <2> QED
    BY <1>0, <1>2, <2>1, GotoIsSound
<1> HIDE DEF Replaced
<1>3. ASSUME \/ RegisterSaves(c) \/ RegisterCreatesPreferences(c) \/ MailsLink(c)
             \/ \E type \in Links : DropsLinks(c, type)
      PROVE  Replaced
  BY <1>0, <1>1, <1>2, <1>3
  DEF RegisterSaves, RegisterCreatesPreferences, MailsLink, DropsLinks, Links, At, Pcs, Holding
<1>4. ASSUME VerifyUpdates(c) \/ ResetReadsUser(c) \/ SetsPassword(c) \/ MarksUsed(c)
      PROVE  Replaced
  BY <1>0, <1>1, <1>2, <1>4
  DEF VerifyUpdates, ResetReadsUser, SetsPassword, MarksUsed, At, Pcs, Holding, Sound
<1>5. ASSUME RefreshFinds(c) \/ RevokesSessions(c) \/ ExchangeDeletes(c) \/ CreatesCode(c)
      PROVE  Replaced
  BY <1>0, <1>1, <1>2, <1>5
  DEF RefreshFinds, RevokesSessions, ExchangeDeletes, CreatesCode, At, Pcs, Holding, Sound
<1>6. ASSUME OAuthFindsUser(c)
      PROVE  Replaced
  <2>1. CASE There
    BY <1>0, <1>2, <1>6, <2>1 DEF OAuthFindsUser, At, Pcs, Holding
  <2>2. CASE ~There
    BY <1>0, <1>2, <1>6, <2>2 DEF OAuthFindsUser, At, Pcs, Holding
  <2> QED
    BY <2>1, <2>2
<1>7. ASSUME OAuthLinks(c) \/ OAuthCreates(c)
      PROVE  Replaced
  BY <1>0, <1>1, <1>2, <1>7 DEF OAuthLinks, OAuthCreates, At, Pcs, Holding
<1>8. ASSUME ProfileSaves(c) \/ AvatarSaves(c) \/ AvatarDeletesOld(c)
           \/ RemovalDeletesFile(c) \/ RemovalSaves(c) \/ CallFails(c)
      PROVE  Replaced
  BY <1>0, <1>1, <1>2, <1>8
  DEF ProfileSaves, AvatarSaves, AvatarDeletesOld, RemovalDeletesFile, RemovalSaves, CallFails,
      At, Pcs, Holding
<1>9. ASSUME PreferencesCreated(c) \/ PreferencesReturned(c) \/ PreferencesSaved(c) \/ NoticeQueued(c)
      PROVE  Replaced
  BY <1>0, <1>1, <1>2, <1>9
  DEF PreferencesCreated, PreferencesReturned, PreferencesSaved, NoticeQueued, At, Pcs, Holding
<1>10. ASSUME \E type \in Links, t \in TokenIds : GeneratesLink(c, type, t)
      PROVE  Replaced
  <2>1. PICK type \in Links, t \in TokenIds : GeneratesLink(c, type, t)
    BY <1>10
  <2>2. calls' = [calls EXCEPT ![c] = [calls[c] EXCEPT !.pc = "mail", !.token = t]]
    BY <1>0, <2>1 DEF GeneratesLink, CallRecord
  <2>3. Sound([calls[c] EXCEPT !.pc = "mail", !.token = t])
    BY <1>0, <2>1 DEF GeneratesLink, At, Links, Sound, CallRecord, Pcs, Holding
  <2> QED
    BY <2>2, <2>3 DEF Replaced
<1>11. ASSUME \E t \in TokenIds : OpensSession(c, t)
      PROVE  Replaced
  <2>1. PICK t \in TokenIds : OpensSession(c, t)
    BY <1>11
  <2>2. Sound([calls[c] EXCEPT !.pc = "code", !.token = t])
    BY <1>0, <2>1 DEF OpensSession, At, Sound, CallRecord, Pcs, Holding
  <2>3. \/ calls' = [calls EXCEPT ![c] = [calls[c] EXCEPT !.pc = "code", !.token = t]]
        \/ calls' = [calls EXCEPT ![c] = Idle]
    BY <2>1 DEF OpensSession
  <2> QED
    BY <2>2, <2>3, IdleIsSound DEF Replaced
<1>12. ASSUME \E f \in Files : AvatarUploads(c, f)
      PROVE  Replaced
  <2>1. PICK f \in Files : AvatarUploads(c, f)
    BY <1>12
  <2>2. calls' = [calls EXCEPT ![c] = [calls[c] EXCEPT !.pc = "save_avatar", !.file = f]]
    BY <1>0, <2>1 DEF AvatarUploads, CallRecord
  <2>3. Sound([calls[c] EXCEPT !.pc = "save_avatar", !.file = f])
    BY <1>0, <2>1 DEF AvatarUploads, At, Sound, CallRecord, Pcs, Holding
  <2> QED
    BY <2>2, <2>3 DEF Replaced
<1>13. Replaced
  BY <1>3, <1>4, <1>5, <1>6, <1>7, <1>8, <1>9, <1>10, <1>11, <1>12 DEF Step
<1> QED
  BY <1>13, ReplaceCall DEF Replaced, TypeInv

LEMMA UserStaysTyped ==
  ASSUME TypeInv, NEW c \in Calls, Step(c)
  PROVE  user' \in UserType
<1>0. user \in UserType /\ calls[c] \in CallRecord /\ clock \in Nat
  BY AccountsAssumption DEF TypeInv, TypeOK, CallsInv
<1>1. Rounded(clock) \in Nat
  BY <1>0 DEF Rounded
<1>2. CASE RegisterSaves(c)
  <2>1. \A p \in Passwords : [NoUser EXCEPT !.state = "there", !.password = p] \in UserType
    BY DEF NoUser, UserType
  <2> QED
    BY <1>0, <1>2, <2>1 DEF RegisterSaves
<1>3. CASE VerifyUpdates(c)
  BY <1>0, <1>3 DEF VerifyUpdates, UserType
<1>4. CASE SetsPassword(c)
  BY <1>0, <1>1, <1>4 DEF SetsPassword, UserType
<1>5. CASE OAuthCreates(c)
  <2>1. \A photo \in {Null, Photo} :
          [NoUser EXCEPT !.state = "there", !.verified = TRUE, !.avatar = photo] \in UserType
    BY DEF NoUser, UserType
  <2> QED
    BY <1>0, <1>5, <2>1 DEF OAuthCreates
<1>6. CASE ProfileSaves(c) \/ AvatarSaves(c) \/ RemovalSaves(c)
  <2>1. \A a \in Files \cup {Null, Photo} :
          [calls[c].copy EXCEPT !.password = user.password, !.avatar = a] \in UserType
    BY <1>0 DEF CallRecord, UserType
  <2>2. calls[c].copy.avatar \in Files \cup {Null, Photo} /\ calls[c].file \in Files \cup {Null}
    BY <1>0 DEF CallRecord, UserType
  <2>3. CASE ProfileSaves(c)
    BY <2>1, <2>2, <2>3 DEF ProfileSaves, Saves
  <2>4. CASE AvatarSaves(c)
    BY <2>1, <2>2, <2>4 DEF AvatarSaves, Saves
  <2>5. CASE RemovalSaves(c)
    BY <2>1, <2>5 DEF RemovalSaves, Saves
  <2> QED
    BY <1>6, <2>3, <2>4, <2>5
<1>7. ASSUME ~(\/ RegisterSaves(c) \/ VerifyUpdates(c) \/ SetsPassword(c) \/ OAuthCreates(c)
               \/ ProfileSaves(c) \/ AvatarSaves(c) \/ RemovalSaves(c))
      PROVE  user' = user
  BY <1>7
  DEF Step, RegisterCreatesPreferences, MailsLink, DropsLinks, GeneratesLink, ResetReadsUser,
      MarksUsed, OpensSession, RefreshFinds, RevokesSessions, OAuthFindsUser, OAuthLinks, CreatesCode,
      ExchangeDeletes, AvatarDeletesOld, RemovalDeletesFile, CallFails, PreferencesCreated,
      PreferencesReturned, PreferencesSaved, NoticeQueued, AvatarUploads
<1> QED
  BY <1>0, <1>2, <1>3, <1>4, <1>5, <1>6, <1>7

LEMMA WithStateType ==
  ASSUME tokens \in [TokenIds -> Row], NEW ids, NEW state \in {"used", "expired", "gone", "swept"}
  PROVE  WithState(ids, state) \in [TokenIds -> Row]
  BY DEF WithState, Row

LEMMA TokensStayTyped ==
  ASSUME TypeInv, NEW c \in Calls, Step(c)
  PROVE  tokens' \in [TokenIds -> Row]
<1>0. tokens \in [TokenIds -> Row]
  BY DEF TypeInv, TypeOK, Row
<1>1. CASE \E type \in Links, t \in TokenIds : GeneratesLink(c, type, t)
  BY <1>0, <1>1 DEF GeneratesLink, Inserted, Row
<1>2. CASE \E t \in TokenIds : OpensSession(c, t)
  BY <1>0, <1>2 DEF OpensSession, Inserted, Row
<1>3. CASE (\E type \in Links : DropsLinks(c, type)) \/ MarksUsed(c) \/ RevokesSessions(c)
  BY <1>0, <1>3, WithStateType DEF DropsLinks, MarksUsed, RevokesSessions
<1>4. ASSUME ~(\/ \E type \in Links, t \in TokenIds : GeneratesLink(c, type, t)
               \/ \E t \in TokenIds : OpensSession(c, t)
               \/ \E type \in Links : DropsLinks(c, type)
               \/ MarksUsed(c) \/ RevokesSessions(c))
      PROVE  tokens' = tokens
  BY <1>4
  DEF Step, RegisterSaves, RegisterCreatesPreferences, MailsLink, VerifyUpdates, ResetReadsUser,
      SetsPassword, RefreshFinds, OAuthFindsUser, OAuthLinks, OAuthCreates, CreatesCode,
      ExchangeDeletes, ProfileSaves, AvatarSaves, AvatarDeletesOld, RemovalDeletesFile, RemovalSaves,
      CallFails, PreferencesCreated, PreferencesReturned, PreferencesSaved, NoticeQueued, AvatarUploads
<1> QED
  BY <1>0, <1>1, <1>2, <1>3, <1>4

LEMMA LettersStayTyped ==
  ASSUME TypeInv, NEW c \in Calls, Step(c)
  PROVE  letters' \in [TokenIds -> Letter]
<1>0. letters \in [TokenIds -> Letter]
  BY DEF TypeInv, TypeOK, Letter
<1>1. CASE MailsLink(c)
  BY <1>0, <1>1 DEF MailsLink, Letter
<1>2. ASSUME ~MailsLink(c) PROVE letters' = letters
  BY <1>2
  DEF Step, RegisterSaves, RegisterCreatesPreferences, DropsLinks, GeneratesLink,
      VerifyUpdates, ResetReadsUser, SetsPassword, MarksUsed, OpensSession, RefreshFinds,
      RevokesSessions, OAuthFindsUser, OAuthLinks, OAuthCreates, CreatesCode, ExchangeDeletes,
      ProfileSaves, AvatarSaves, AvatarDeletesOld, RemovalDeletesFile, DeletesFile, RemovalSaves, CallFails,
      PreferencesCreated, PreferencesReturned, PreferencesSaved, NoticeQueued, AvatarUploads,
      stores
<1> QED
  BY <1>0, <1>1, <1>2

\* The rest, variable by variable.
LEMMA SetsStayTyped ==
  ASSUME TypeInv, NEW c \in Calls, Step(c)
  PROVE  /\ social' \in BOOLEAN /\ codes' \subseteq TokenIds /\ files' \subseteq Files
         /\ access' \subseteq [iat : Nat] /\ over' \subseteq TokenIds
<1>0. /\ social \in BOOLEAN /\ codes \subseteq TokenIds /\ files \subseteq Files
      /\ access \subseteq [iat : Nat] /\ over \subseteq TokenIds /\ clock \in Nat
      /\ Sound(calls[c])
  BY AccountsAssumption DEF TypeInv, TypeOK, CallsInv
<1>1. Signed \in [iat : Nat]
  BY <1>0 DEF Signed, Second
<1>2. access' \subseteq [iat : Nat]
  BY <1>0, <1>1
  DEF Step, RegisterSaves, RegisterCreatesPreferences, MailsLink, DropsLinks, GeneratesLink,
      VerifyUpdates, ResetReadsUser, SetsPassword, MarksUsed, OpensSession, RefreshFinds,
      RevokesSessions, OAuthFindsUser, OAuthLinks, OAuthCreates, CreatesCode, ExchangeDeletes,
      ProfileSaves, AvatarSaves, AvatarDeletesOld, RemovalDeletesFile, RemovalSaves, CallFails,
      PreferencesCreated, PreferencesReturned, PreferencesSaved, NoticeQueued, AvatarUploads
<1>3. over' \subseteq TokenIds
  BY <1>0
  DEF Step, RegisterSaves, RegisterCreatesPreferences, MailsLink, DropsLinks, GeneratesLink,
      VerifyUpdates, ResetReadsUser, SetsPassword, MarksUsed, OpensSession, RefreshFinds,
      RevokesSessions, OAuthFindsUser, OAuthLinks, OAuthCreates, CreatesCode, ExchangeDeletes,
      ProfileSaves, AvatarSaves, AvatarDeletesOld, RemovalDeletesFile, DeletesFile, RemovalSaves, CallFails,
      PreferencesCreated, PreferencesReturned, PreferencesSaved, NoticeQueued, AvatarUploads,
      history, At, Sound, Holding, Rows, Live
<1>4. social' \in BOOLEAN /\ codes' \subseteq TokenIds /\ files' \subseteq Files
  BY <1>0
  DEF Step, RegisterSaves, RegisterCreatesPreferences, MailsLink, DropsLinks, GeneratesLink,
      VerifyUpdates, ResetReadsUser, SetsPassword, MarksUsed, OpensSession, RefreshFinds,
      RevokesSessions, OAuthFindsUser, OAuthLinks, OAuthCreates, CreatesCode, ExchangeDeletes,
      ProfileSaves, AvatarSaves, AvatarDeletesOld, RemovalDeletesFile, DeletesFile, RemovalSaves, CallFails,
      PreferencesCreated, PreferencesReturned, PreferencesSaved, NoticeQueued, AvatarUploads,
      stores, At, Sound, Holding
<1> QED
  BY <1>2, <1>3, <1>4

LEMMA FlagsStayTyped ==
  ASSUME TypeInv, NEW c \in Calls, Step(c)
  PROVE  /\ changes' \in Seq(Nat) /\ closed' \in BOOLEAN /\ lost' \in BOOLEAN /\ failed' \in BOOLEAN
         /\ preferences' \in {"on", "off", Null} /\ asked' \in {"on", "off", Null}
         /\ mixed' \in BOOLEAN /\ unwanted' \in BOOLEAN
         /\ UNCHANGED <<clock, requests>>
<1>0. /\ clock \in Nat /\ changes \in Seq(Nat)
      /\ closed \in BOOLEAN /\ lost \in BOOLEAN /\ failed \in BOOLEAN
      /\ preferences \in {"on", "off", Null} /\ asked \in {"on", "off", Null}
      /\ mixed \in BOOLEAN /\ unwanted \in BOOLEAN
  BY AccountsAssumption DEF TypeInv, TypeOK
<1>1. changes' \in Seq(Nat)
  <2>1. Append(changes, clock) \in Seq(Nat)
    BY <1>0
  <2>2. changes' = changes \/ changes' = Append(changes, clock)
    BY
    DEF Step, RegisterSaves, RegisterCreatesPreferences, MailsLink, DropsLinks, GeneratesLink,
        VerifyUpdates, ResetReadsUser, SetsPassword, MarksUsed, OpensSession, RefreshFinds,
        RevokesSessions, OAuthFindsUser, OAuthLinks, OAuthCreates, CreatesCode, ExchangeDeletes,
        ProfileSaves, AvatarSaves, AvatarDeletesOld, RemovalDeletesFile, DeletesFile, RemovalSaves, CallFails,
        PreferencesCreated, PreferencesReturned, PreferencesSaved, NoticeQueued, AvatarUploads,
        history
  <2> QED
    BY <1>0, <2>1, <2>2
<1>2. closed' \in BOOLEAN /\ lost' \in BOOLEAN /\ failed' \in BOOLEAN
  BY <1>0
  DEF Step, RegisterSaves, RegisterCreatesPreferences, MailsLink, DropsLinks, GeneratesLink,
      VerifyUpdates, ResetReadsUser, SetsPassword, MarksUsed, OpensSession, RefreshFinds,
      RevokesSessions, OAuthFindsUser, OAuthLinks, OAuthCreates, CreatesCode, ExchangeDeletes,
      ProfileSaves, AvatarSaves, AvatarDeletesOld, RemovalDeletesFile, DeletesFile, RemovalSaves, Saves, CallFails,
      PreferencesCreated, PreferencesReturned, PreferencesSaved, NoticeQueued, AvatarUploads,
      history
<1>3. preferences' \in {"on", "off", Null} /\ asked' \in {"on", "off", Null}
  BY <1>0
  DEF Step, RegisterSaves, RegisterCreatesPreferences, MailsLink, DropsLinks, GeneratesLink,
      VerifyUpdates, ResetReadsUser, SetsPassword, MarksUsed, OpensSession, RefreshFinds,
      RevokesSessions, OAuthFindsUser, OAuthLinks, OAuthCreates, CreatesCode, ExchangeDeletes,
      ProfileSaves, AvatarSaves, AvatarDeletesOld, RemovalDeletesFile, RemovalSaves, CallFails,
      PreferencesCreated, PreferencesReturned, PreferencesSaved, NoticeQueued, AvatarUploads,
      settings, SavesDefaults
<1>4. mixed' \in BOOLEAN /\ unwanted' \in BOOLEAN
  BY <1>0
  DEF Step, RegisterSaves, RegisterCreatesPreferences, MailsLink, DropsLinks, GeneratesLink,
      VerifyUpdates, ResetReadsUser, SetsPassword, MarksUsed, OpensSession, RefreshFinds,
      RevokesSessions, OAuthFindsUser, OAuthLinks, OAuthCreates, CreatesCode, ExchangeDeletes,
      ProfileSaves, AvatarSaves, AvatarDeletesOld, RemovalDeletesFile, RemovalSaves, CallFails,
      PreferencesCreated, PreferencesReturned, PreferencesSaved, NoticeQueued, AvatarUploads,
      settings, SavesDefaults
<1>5. UNCHANGED <<clock, requests>>
  BY
  DEF Step, RegisterSaves, RegisterCreatesPreferences, MailsLink, DropsLinks, GeneratesLink,
      VerifyUpdates, ResetReadsUser, SetsPassword, MarksUsed, OpensSession, RefreshFinds,
      RevokesSessions, OAuthFindsUser, OAuthLinks, OAuthCreates, CreatesCode, ExchangeDeletes,
      ProfileSaves, AvatarSaves, AvatarDeletesOld, RemovalDeletesFile, RemovalSaves, CallFails,
      PreferencesCreated, PreferencesReturned, PreferencesSaved, NoticeQueued, AvatarUploads
<1> QED
  BY <1>1, <1>2, <1>3, <1>4, <1>5

LEMMA StepKeepsTypes ==
  ASSUME TypeInv, NEW c \in Calls, Step(c)
  PROVE  TypeInv'
<1>1. /\ CallsInv' /\ user' \in UserType
      /\ tokens' \in [TokenIds -> Row] /\ letters' \in [TokenIds -> Letter]
  BY StepKeepsCalls, UserStaysTyped, TokensStayTyped, LettersStayTyped
<1> QED
  BY <1>1, SetsStayTyped, FlagsStayTyped DEF TypeInv, TypeOK, Row, Letter

\* Time, the clean-up, the mail worker, and the deletion in one transaction.
LEMMA WorldKeepsTypes ==
  ASSUME TypeInv,
         \/ AccountDeleted \/ Tick
         \/ \E t \in TokenIds : TokenExpires(t) \/ CodeExpires(t) \/ Cleanup(t) \/ LetterSent(t) \/ LetterFails(t)
  PROVE  TypeInv'
<1>0. tokens \in [TokenIds -> Row] /\ letters \in [TokenIds -> Letter]
  BY DEF TypeInv, TypeOK, Row, Letter
<1>1. CASE Tick
  BY <1>1, AccountsAssumption DEF Tick, TypeInv, TypeOK, CallsInv, stores, history, settings
<1>2. CASE AccountDeleted
  <2>1. user' \in UserType
    BY <1>2 DEF AccountDeleted, TypeInv, TypeOK, UserType
  <2>2. tokens' \in [TokenIds -> Row]
    BY <1>0, <1>2 DEF AccountDeleted, Row, NoToken
  <2>3. over' \subseteq TokenIds /\ closed' \in BOOLEAN /\ requests' \in 0 .. MaxRequests
    BY <1>2, AccountsAssumption DEF AccountDeleted, TypeInv, TypeOK
  <2> QED
    BY <1>2, <2>1, <2>2, <2>3 DEF AccountDeleted, TypeInv, TypeOK, CallsInv, stores, settings, Row
<1>3. CASE \E t \in TokenIds : TokenExpires(t) \/ Cleanup(t)
  <2>1. tokens' \in [TokenIds -> Row]
    BY <1>0, <1>3, WithStateType DEF TokenExpires, Cleanup
  <2> QED
    BY <1>3, <2>1 DEF TokenExpires, Cleanup, TypeInv, TypeOK, CallsInv, stores, history, settings, Row
<1>4. CASE \E t \in TokenIds : CodeExpires(t)
  BY <1>4 DEF CodeExpires, TypeInv, TypeOK, CallsInv, history, settings
<1>5. CASE \E t \in TokenIds : LetterSent(t) \/ LetterFails(t)
  <2>1. letters' \in [TokenIds -> Letter]
    BY <1>0, <1>5 DEF LetterSent, LetterFails, Letter
  <2> QED
    BY <1>5, <2>1 DEF LetterSent, LetterFails, TypeInv, TypeOK, CallsInv, history, settings, Letter
<1> QED
  BY <1>1, <1>2, <1>3, <1>4, <1>5

LEMMA NextKeepsTypes == TypeInv /\ [Next]_vars => TypeInv'
<1> SUFFICES ASSUME TypeInv, [Next]_vars PROVE TypeInv'
  OBVIOUS
<1>1. CASE UNCHANGED vars
  BY <1>1 DEF TypeInv, TypeOK, CallsInv, vars, stores, history, settings
<1>2. CASE Next
  BY <1>2, RequestKeepsTypes, StepKeepsTypes, WorldKeepsTypes DEF Next
<1> QED
  BY <1>1, <1>2

\* The rows, tokens, letters and files of an account keep their types.
THEOREM TypeCorrect == Spec => []TypeOK
<1>1. TypeInv => TypeOK
  BY DEF TypeInv
<1> QED
  BY <1>1, InitTypes, NextKeepsTypes, PTL DEF Spec

-----------------------------------------------------------------------------
(* What is over stays over. *)

\* Tokens that are over are there, and not live.
OverInv == \A t \in over : tokens[t].state \notin {"none", "live"}

LEMMA InitOver == Init => OverInv
  BY DEF Init, OverInv

\* A step that marks rows, and counts at most those as over.
LEMMA MarkedIsOver ==
  ASSUME TypeInv, OverInv, NEW ids, NEW state \in {"used", "expired", "gone", "swept"},
         tokens' = WithState(ids, state), over' \subseteq over \cup ids, over' \subseteq TokenIds
  PROVE  OverInv'
  BY DEF TypeInv, TypeOK, OverInv, WithState

\* A step that inserts a row: an id that was never given out is not over.
LEMMA InsertedIsNotOver ==
  ASSUME TypeInv, OverInv, NEW t \in TokenIds, NEW type \in Links \cup {"refresh"}, Fresh(t),
         tokens' = Inserted(t, type), over' = over
  PROVE  OverInv'
  BY DEF TypeInv, TypeOK, OverInv, Inserted, Fresh, NoToken

LEMMA StepKeepsOver ==
  ASSUME TypeInv, OverInv, NEW c \in Calls, Step(c)
  PROVE  OverInv'
<1>0. over' \subseteq TokenIds
  BY SetsStayTyped
<1>1. CASE \E type \in Links, t \in TokenIds : GeneratesLink(c, type, t)
  BY <1>1, InsertedIsNotOver DEF GeneratesLink, history
<1>2. CASE \E t \in TokenIds : OpensSession(c, t)
  BY <1>2, InsertedIsNotOver DEF OpensSession, history
<1>3. CASE \E type \in Links : DropsLinks(c, type)
  BY <1>0, <1>3, MarkedIsOver DEF DropsLinks
<1>4. CASE MarksUsed(c)
  BY <1>0, <1>4, MarkedIsOver DEF MarksUsed
<1>5. CASE RevokesSessions(c)
  BY <1>0, <1>5, MarkedIsOver DEF RevokesSessions
<1>6. ASSUME ~(\/ \E type \in Links, t \in TokenIds : GeneratesLink(c, type, t)
               \/ \E t \in TokenIds : OpensSession(c, t)
               \/ \E type \in Links : DropsLinks(c, type)
               \/ MarksUsed(c) \/ RevokesSessions(c))
      PROVE  UNCHANGED <<tokens, over>>
  BY <1>6
  DEF Step, RegisterSaves, RegisterCreatesPreferences, MailsLink, VerifyUpdates, ResetReadsUser,
      SetsPassword, RefreshFinds, OAuthFindsUser, OAuthLinks, OAuthCreates, CreatesCode,
      ExchangeDeletes, ProfileSaves, AvatarSaves, AvatarDeletesOld, RemovalDeletesFile, DeletesFile, RemovalSaves,
      CallFails, PreferencesCreated, PreferencesReturned, PreferencesSaved, NoticeQueued,
      AvatarUploads, history
<1> QED
  BY <1>1, <1>2, <1>3, <1>4, <1>5, <1>6 DEF OverInv

LEMMA NextKeepsOver == TypeInv /\ OverInv /\ [Next]_vars => OverInv'
<1> SUFFICES ASSUME TypeInv, OverInv, [Next]_vars PROVE OverInv'
  OBVIOUS
<1>0. over \subseteq TokenIds
  BY DEF TypeInv, TypeOK
<1>1. CASE \E c \in Calls : Request(c)
  BY <1>1
  DEF OverInv, Request, RegisterReads, ResendReads, ForgotReads, OAuthFindsAccount, LoginReads,
      ChangeReads, ProfileReads, AvatarReads, RemovalReads, VerifyReads, ResetReads, RefreshReads,
      LogoutFinds, ExchangeReads, PreferencesRead, NoticeReads, history
<1>2. CASE \E c \in Calls : Step(c)
  BY <1>2, StepKeepsOver
<1>3. CASE AccountDeleted
  BY <1>0, <1>3 DEF AccountDeleted, OverInv, TypeInv, TypeOK, NoToken
<1>4. CASE \E t \in TokenIds : TokenExpires(t) \/ Cleanup(t)
  BY <1>0, <1>4, MarkedIsOver DEF TokenExpires, Cleanup, history
<1>5. CASE \/ Tick \/ UNCHANGED vars
           \/ \E t \in TokenIds : CodeExpires(t) \/ LetterSent(t) \/ LetterFails(t)
  BY <1>5 DEF Tick, CodeExpires, LetterSent, LetterFails, OverInv, history, vars
<1> QED
  BY <1>1, <1>2, <1>3, <1>4, <1>5 DEF Next

\* No session and no link that was used, replaced or revoked is accepted again,
\* for any number of overlapping requests and of tokens.
THEOREM OverStaysOver == Spec => []OverIsOver
<1>1. OverInv => OverIsOver
  BY DEF OverInv, OverIsOver
<1> QED
  BY <1>1, InitTypes, InitOver, NextKeepsTypes, NextKeepsOver, PTL DEF Spec

-----------------------------------------------------------------------------
(* A mail that was declined stays declined. *)

\* A call that looked after the user had declined found that in the row.
OptOutInv ==
  ~mixed =>
    /\ ~unwanted /\ (asked # Null => preferences = asked)
    /\ \A c \in Calls : calls[c].wish = "off" => calls[c].row = "off"

LEMMA InitOptOut == Init => OptOutInv
<1> SUFFICES ASSUME Init PROVE OptOutInv
  OBVIOUS
<1>1. asked = Null /\ unwanted = FALSE /\ calls = [c \in Calls |-> Idle]
  BY DEF Init
<1> QED
  BY <1>1 DEF OptOutInv, Idle

\* Defaults that are saved by the first to do so find nothing that was asked for.
LEMMA DefaultsKeepOptOut ==
  ASSUME TypeInv, OptOutInv, NEW c \in Calls, SavesDefaults(c), calls[c].pc # "have",
         \A d \in Calls : calls'[d].wish = "off" => calls[d].wish = "off" /\ calls'[d].row = calls[d].row
  PROVE  OptOutInv'
<1>1. calls[c].row = Null
  BY DEF TypeInv, CallsInv, Sound
<1> QED
  BY <1>1 DEF OptOutInv, SavesDefaults, TypeInv, TypeOK

\* A step replaces the record of its call; the replacement has declined only
\* what the call had.
Follows(c) ==
  \A d \in Calls : calls'[d].wish = "off" => calls[d].wish = "off" /\ calls'[d].row = calls[d].row

LEMMA StepFollows ==
  ASSUME TypeInv, NEW c \in Calls, Step(c)
  PROVE  Follows(c)
<1>0. calls \in [Calls -> CallRecord]
  BY DEF TypeInv, CallsInv
<1>1. ASSUME Return(c) PROVE Follows(c)
  BY <1>0, <1>1, AccountsAssumption DEF Return, Idle, Follows
<1>2. ASSUME NEW pc, Goto(c, pc) PROVE Follows(c)
  BY <1>0, <1>2 DEF Goto, CallRecord, Follows
<1>3. ASSUME NEW t \in TokenIds, NEW type \in Links, GeneratesLink(c, type, t) PROVE Follows(c)
  BY <1>0, <1>3 DEF GeneratesLink, CallRecord, Follows
<1>4. ASSUME NEW t \in TokenIds, OpensSession(c, t) PROVE Follows(c)
  <2>1. \/ calls' = [calls EXCEPT ![c] = [calls[c] EXCEPT !.pc = "code", !.token = t]]
        \/ calls' = [calls EXCEPT ![c] = Idle]
    BY <1>4 DEF OpensSession
  <2>2. CASE calls' = [calls EXCEPT ![c] = Idle]
    BY <1>1, <2>2 DEF Return
  <2>3. CASE calls' = [calls EXCEPT ![c] = [calls[c] EXCEPT !.pc = "code", !.token = t]]
    BY <1>0, <2>3 DEF CallRecord, Follows
  <2> QED
    BY <2>1, <2>2, <2>3
<1>5. ASSUME NEW f \in Files, AvatarUploads(c, f) PROVE Follows(c)
  BY <1>0, <1>5 DEF AvatarUploads, CallRecord, Follows
<1>6. ASSUME ~Return(c), \A pc : ~Goto(c, pc)
      PROVE  \/ \E type \in Links, t \in TokenIds : GeneratesLink(c, type, t)
             \/ \E t \in TokenIds : OpensSession(c, t)
             \/ \E f \in Files : AvatarUploads(c, f)
  BY <1>6
  DEF Step, RegisterSaves, RegisterCreatesPreferences, MailsLink, DropsLinks, VerifyUpdates,
      ResetReadsUser, SetsPassword, MarksUsed, RefreshFinds, RevokesSessions, OAuthFindsUser,
      OAuthLinks, OAuthCreates, CreatesCode, ExchangeDeletes, ProfileSaves, AvatarSaves,
      AvatarDeletesOld, RemovalDeletesFile, RemovalSaves, CallFails, PreferencesCreated,
      PreferencesReturned, PreferencesSaved, NoticeQueued
<1> QED
  BY <1>1, <1>2, <1>3, <1>4, <1>5, <1>6

LEMMA StepKeepsOptOut ==
  ASSUME TypeInv, OptOutInv, NEW c \in Calls, Step(c)
  PROVE  OptOutInv'
<1>0. Follows(c)
  BY StepFollows
<1>1. CASE RegisterCreatesPreferences(c) \/ PreferencesCreated(c)
  BY <1>0, <1>1, DefaultsKeepOptOut
  DEF RegisterCreatesPreferences, PreferencesCreated, At, Follows
<1>2. CASE OAuthCreates(c)
  <2>1. CASE SavesDefaults(c)
    BY <1>0, <1>2, <2>1, DefaultsKeepOptOut DEF OAuthCreates, At, Follows
  <2>2. CASE ~SavesDefaults(c)
    BY <1>0, <1>2, <2>2 DEF OAuthCreates, OptOutInv, Follows, settings
  <2> QED
    BY <2>1, <2>2
<1>3. CASE PreferencesSaved(c)
  BY <1>0, <1>3 DEF PreferencesSaved, OptOutInv, Follows
<1>4. CASE NoticeQueued(c)
  BY <1>0, <1>4 DEF NoticeQueued, Wanted, OptOutInv, Follows
<1>5. ASSUME ~(\/ RegisterCreatesPreferences(c) \/ PreferencesCreated(c) \/ OAuthCreates(c)
               \/ PreferencesSaved(c) \/ NoticeQueued(c))
      PROVE  UNCHANGED settings
  BY <1>5
  DEF Step, RegisterSaves, MailsLink, DropsLinks, GeneratesLink, VerifyUpdates, ResetReadsUser,
      SetsPassword, MarksUsed, OpensSession, RefreshFinds, RevokesSessions, OAuthFindsUser, OAuthLinks,
      CreatesCode, ExchangeDeletes, ProfileSaves, AvatarSaves, AvatarDeletesOld, RemovalDeletesFile,
      RemovalSaves, CallFails, PreferencesReturned, AvatarUploads, settings
<1> QED
  BY <1>0, <1>1, <1>2, <1>3, <1>4, <1>5 DEF OptOutInv, Follows, settings

LEMMA RequestKeepsOptOut ==
  ASSUME TypeInv, OptOutInv, NEW c \in Calls, Request(c)
  PROVE  OptOutInv'
<1>0. calls \in [Calls -> CallRecord] /\ UNCHANGED settings
  BY DEF TypeInv, CallsInv, Request, RegisterReads, ResendReads, ForgotReads, OAuthFindsAccount,
         LoginReads, ChangeReads, ProfileReads, AvatarReads, RemovalReads, VerifyReads, ResetReads,
         RefreshReads, LogoutFinds, ExchangeReads, PreferencesRead, NoticeReads, settings
<1>1. CASE PreferencesRead(c) \/ NoticeReads(c)
  <2>1. PICK op, pc : calls' = [calls EXCEPT ![c] =
                        [Idle EXCEPT !.op = op, !.pc = pc, !.row = preferences, !.wish = asked]]
    BY <1>1 DEF PreferencesRead, NoticeReads, FindsPreferences, StartsWith
  <2>2. calls'[c].wish = asked /\ calls'[c].row = preferences
    BY <1>0, <2>1 DEF Idle
  <2>3. \A d \in Calls \ {c} : calls'[d] = calls[d]
    BY <1>0, <2>1
  <2> QED
    BY <1>0, <2>2, <2>3, AccountsAssumption DEF OptOutInv, settings
<1>2. CASE ~(PreferencesRead(c) \/ NoticeReads(c))
  <2>1. \/ \E op, pc : Starts(c, op, pc)
        \/ \E op, pc, t : StartsWith(c, [Idle EXCEPT !.op = op, !.pc = pc, !.token = t])
        \/ \E op, pc, copy : StartsWith(c, [Idle EXCEPT !.op = op, !.pc = pc, !.copy = copy])
    BY <1>2
    DEF Request, RegisterReads, ResendReads, ForgotReads, OAuthFindsAccount, LoginReads, ChangeReads,
        ProfileReads, AvatarReads, RemovalReads, ReadsUser, VerifyReads, ResetReads, RefreshReads,
        LogoutFinds, ExchangeReads, UsesLink
  <2>2. calls'[c].wish # "off" /\ \A d \in Calls \ {c} : calls'[d] = calls[d]
    BY <1>0, <2>1, AccountsAssumption DEF Starts, StartsWith, Idle
  <2> QED
    BY <1>0, <2>2 DEF OptOutInv, settings
<1> QED
  BY <1>1, <1>2

LEMMA NextKeepsOptOut == TypeInv /\ OptOutInv /\ [Next]_vars => OptOutInv'
<1> SUFFICES ASSUME TypeInv, OptOutInv, [Next]_vars PROVE OptOutInv'
  OBVIOUS
<1>1. CASE \E c \in Calls : Request(c)
  BY <1>1, RequestKeepsOptOut
<1>2. CASE \E c \in Calls : Step(c)
  BY <1>2, StepKeepsOptOut
<1>3. CASE \/ AccountDeleted \/ Tick \/ UNCHANGED vars
           \/ \E t \in TokenIds : TokenExpires(t) \/ CodeExpires(t) \/ Cleanup(t) \/ LetterSent(t) \/ LetterFails(t)
  BY <1>3
  DEF AccountDeleted, Tick, TokenExpires, CodeExpires, Cleanup, LetterSent, LetterFails, OptOutInv,
      settings, vars
<1> QED
  BY <1>1, <1>2, <1>3 DEF Next

\* What a user asked for stays, and no mail is queued for somebody who had
\* declined, unless defaults were saved twice.
THEOREM OptOutIsKept == Spec => []OptOutSticks
<1>1. OptOutInv => OptOutSticks
  BY DEF OptOutInv, OptOutSticks
<1> QED
  BY <1>1, InitTypes, InitOptOut, NextKeepsTypes, NextKeepsOptOut, PTL DEF Spec

-----------------------------------------------------------------------------
(* A password change and a deletion stay. *)

\* While no save wrote an older row back: the row has the time of the last
\* change, and nobody can set the password of a user who is not there yet.
RevocationInv ==
  ~lost =>
    /\ closed => user.state = "deleted"
    /\ changes # <<>> => user.changedAt = Rounded(changes[Len(changes)])
    /\ user.state = "none" => changes = <<>> /\ \A c \in Calls : calls[c].pc # "set_password"

LEMMA InitRevocation == Init => RevocationInv
<1> SUFFICES ASSUME Init PROVE RevocationInv
  OBVIOUS
<1>1. changes = <<>> /\ closed = FALSE /\ calls = [c \in Calls |-> Idle]
  BY DEF Init
<1> QED
  BY <1>1 DEF RevocationInv, Idle

\* Only a call that saw the user is about to set the password.
Guarded == \A d \in Calls : calls'[d].pc = "set_password" => There \/ calls[d].pc = "set_password"

LEMMA RequestIsGuarded ==
  ASSUME TypeInv, NEW c \in Calls, Request(c)
  PROVE  Guarded /\ UNCHANGED <<user, history>>
<1>0. calls \in [Calls -> CallRecord]
  BY DEF TypeInv, CallsInv
<1>1. UNCHANGED <<user, history>>
  BY DEF Request, RegisterReads, ResendReads, ForgotReads, OAuthFindsAccount, LoginReads, ChangeReads,
         ProfileReads, AvatarReads, RemovalReads, VerifyReads, ResetReads, RefreshReads, LogoutFinds,
         ExchangeReads, PreferencesRead, NoticeReads
<1>2. \A d \in Calls \ {c} : calls'[d] = calls[d]
  BY <1>0
  DEF Request, RegisterReads, ResendReads, ForgotReads, OAuthFindsAccount, LoginReads, ChangeReads,
      ProfileReads, AvatarReads, RemovalReads, ReadsUser, VerifyReads, ResetReads, RefreshReads,
      LogoutFinds, ExchangeReads, UsesLink, PreferencesRead, NoticeReads, FindsPreferences, Starts,
      StartsWith
<1>3. CASE \E p \in Passwords : ChangeReads(c, p)
  BY <1>1, <1>2, <1>3 DEF Guarded, ChangeReads, Authenticated, JwtAccepted
<1>4. CASE ~\E p \in Passwords : ChangeReads(c, p)
  <2>1. calls'[c].pc # "set_password"
    <3>1. CASE RegisterReads(c) \/ ResendReads(c) \/ ForgotReads(c) \/ OAuthFindsAccount(c)
      BY <1>0, <3>1
      DEF RegisterReads, ResendReads, ForgotReads, OAuthFindsAccount, Starts, StartsWith, Idle
    <3>2. CASE \/ ProfileReads(c) \/ AvatarReads(c) \/ RemovalReads(c)
               \/ PreferencesRead(c) \/ NoticeReads(c)
      BY <1>0, <3>2
      DEF ProfileReads, AvatarReads, RemovalReads, ReadsUser, PreferencesRead, NoticeReads,
          FindsPreferences, Starts, StartsWith, Idle
    <3>3. CASE \E p \in Passwords : LoginReads(c, p)
      BY <1>0, <3>3 DEF LoginReads, Starts, StartsWith, Idle
    <3>4. CASE \E t \in TokenIds : VerifyReads(c, t) \/ ResetReads(c, t)
      BY <1>0, <3>4 DEF VerifyReads, ResetReads, UsesLink, StartsWith, Idle
    <3>5. CASE \E t \in TokenIds : RefreshReads(c, t) \/ LogoutFinds(c, t) \/ ExchangeReads(c, t)
      BY <1>0, <3>5 DEF RefreshReads, LogoutFinds, ExchangeReads, Starts, StartsWith, Idle
    <3> QED
      BY <1>4, <3>1, <3>2, <3>3, <3>4, <3>5 DEF Request
  <2> QED
    BY <1>1, <1>2, <2>1 DEF Guarded
<1> QED
  BY <1>3, <1>4

LEMMA StepIsGuarded ==
  ASSUME TypeInv, NEW c \in Calls, Step(c)
  PROVE  Guarded
<1>0. calls \in [Calls -> CallRecord]
  BY DEF TypeInv, CallsInv
<1>1. ASSUME Return(c) PROVE Guarded
  BY <1>0, <1>1 DEF Return, Idle, Guarded
<1>2. ASSUME NEW pc, pc # "set_password", Goto(c, pc) PROVE Guarded
  BY <1>0, <1>2 DEF Goto, CallRecord, Guarded
<1>3. CASE ResetReadsUser(c)
  <2>1. CASE There
    BY <1>0, <2>1, <1>3 DEF ResetReadsUser, Goto, Guarded, Return
  <2>2. CASE ~There
    BY <1>1, <1>3, <2>2 DEF ResetReadsUser
  <2> QED
    BY <2>1, <2>2
<1>4. ASSUME NEW t \in TokenIds, NEW type \in Links, GeneratesLink(c, type, t) PROVE Guarded
  BY <1>0, <1>4 DEF GeneratesLink, CallRecord, Guarded
<1>5. ASSUME NEW t \in TokenIds, OpensSession(c, t) PROVE Guarded
  <2>1. \/ calls' = [calls EXCEPT ![c] = [calls[c] EXCEPT !.pc = "code", !.token = t]]
        \/ calls' = [calls EXCEPT ![c] = Idle]
    BY <1>5 DEF OpensSession
  <2>2. CASE calls' = [calls EXCEPT ![c] = Idle]
    BY <1>1, <2>2 DEF Return
  <2>3. CASE calls' = [calls EXCEPT ![c] = [calls[c] EXCEPT !.pc = "code", !.token = t]]
    BY <1>0, <2>3 DEF CallRecord, Guarded
  <2> QED
    BY <2>1, <2>2, <2>3
<1>6. ASSUME NEW f \in Files, AvatarUploads(c, f) PROVE Guarded
  BY <1>0, <1>6 DEF AvatarUploads, CallRecord, Guarded
<1>7. CASE OAuthFindsUser(c)
  <2>1. Goto(c, "oauth_link") \/ Goto(c, "oauth_create")
    BY <1>7 DEF OAuthFindsUser
  <2> QED
    BY <1>2, <2>1
<1>8. ASSUME ~Return(c), \A pc : pc # "set_password" => ~Goto(c, pc),
             ~ResetReadsUser(c), ~OAuthFindsUser(c)
      PROVE  \/ \E type \in Links, t \in TokenIds : GeneratesLink(c, type, t)
             \/ \E t \in TokenIds : OpensSession(c, t)
             \/ \E f \in Files : AvatarUploads(c, f)
  BY <1>8
  DEF Step, RegisterSaves, RegisterCreatesPreferences, MailsLink, DropsLinks, VerifyUpdates,
      SetsPassword, MarksUsed, RefreshFinds, RevokesSessions, OAuthLinks, OAuthCreates, CreatesCode,
      ExchangeDeletes, ProfileSaves, AvatarSaves, AvatarDeletesOld, RemovalDeletesFile, RemovalSaves,
      CallFails, PreferencesCreated, PreferencesReturned, PreferencesSaved, NoticeQueued, Links
<1> QED
  BY <1>1, <1>2, <1>3, <1>4, <1>5, <1>6, <1>7, <1>8

LEMMA StepKeepsRevocation ==
  ASSUME TypeInv, RevocationInv, NEW c \in Calls, Step(c)
  PROVE  RevocationInv'
<1>0. /\ user \in UserType /\ changes \in Seq(Nat) /\ clock \in Nat
      /\ closed \in BOOLEAN /\ lost \in BOOLEAN
  BY AccountsAssumption DEF TypeInv, TypeOK
<1>1. Guarded
  BY StepIsGuarded
\* A step that leaves the history and what it is about.
<1>2. ASSUME UNCHANGED <<changes, closed, lost>>, user'.state = user.state,
             user'.changedAt = user.changedAt
      PROVE  RevocationInv'
  BY <1>1, <1>2 DEF RevocationInv, Guarded, There
\* The first user.
<1>3. ASSUME UNCHANGED <<changes, closed, lost>>, user.state = "none", user'.state = "there"
      PROVE  RevocationInv'
  BY <1>3 DEF RevocationInv
<1>4. CASE RegisterSaves(c)
  <2>1. \/ user.state = "none" /\ user'.state = "there"
        \/ user' = user
    BY <1>4 DEF RegisterSaves, NoUser
  <2> QED
    BY <1>2, <1>3, <1>4, <2>1 DEF RegisterSaves, history
<1>5. CASE OAuthCreates(c)
  <2>1. \/ user.state = "none" /\ user'.state = "there"
        \/ user' = user
    BY <1>5 DEF OAuthCreates, NoUser
  <2> QED
    BY <1>2, <1>3, <1>5, <2>1 DEF OAuthCreates, history
<1>6. CASE VerifyUpdates(c)
  BY <1>0, <1>2, <1>6 DEF VerifyUpdates, UserType, history
<1>7. CASE SetsPassword(c)
  <2>1. changes' # <<>> /\ changes'[Len(changes')] = clock
    BY <1>0, <1>7 DEF SetsPassword
  <2>2. user'.state = user.state /\ user'.changedAt = Rounded(clock)
    BY <1>0, <1>7 DEF SetsPassword, UserType
  <2>3. ~lost => user.state # "none"
    BY <1>7 DEF SetsPassword, At, RevocationInv
  <2> QED
    BY <1>7, <2>1, <2>2, <2>3 DEF SetsPassword, RevocationInv
<1>8. CASE ProfileSaves(c) \/ AvatarSaves(c) \/ RemovalSaves(c)
  <2>1. PICK avatar : Saves(c, avatar)
    BY <1>8 DEF ProfileSaves, AvatarSaves, RemovalSaves
  <2>2. UNCHANGED <<changes, closed>>
    BY <1>8 DEF ProfileSaves, AvatarSaves, RemovalSaves
  <2>3. CASE calls[c].copy = [user EXCEPT !.password = Null]
    <3>1. user'.state = user.state /\ user'.changedAt = user.changedAt
      BY <1>0, <2>1, <2>3 DEF Saves, UserType
    <3>2. lost' = lost
      BY <1>0, <2>1, <2>3 DEF Saves
    <3> QED
      BY <1>2, <2>2, <3>1, <3>2
  <2>4. CASE calls[c].copy # [user EXCEPT !.password = Null]
    BY <2>1, <2>4 DEF Saves, RevocationInv
  <2> QED
    BY <2>3, <2>4
<1>9. ASSUME ~(\/ RegisterSaves(c) \/ OAuthCreates(c) \/ VerifyUpdates(c) \/ SetsPassword(c)
               \/ ProfileSaves(c) \/ AvatarSaves(c) \/ RemovalSaves(c))
      PROVE  UNCHANGED <<user, changes, closed, lost>>
  BY <1>9
  DEF Step, RegisterCreatesPreferences, MailsLink, DropsLinks, GeneratesLink, ResetReadsUser,
      MarksUsed, OpensSession, RefreshFinds, RevokesSessions, OAuthFindsUser, OAuthLinks, CreatesCode,
      ExchangeDeletes, AvatarDeletesOld, RemovalDeletesFile, DeletesFile, CallFails, PreferencesCreated,
      PreferencesReturned, PreferencesSaved, NoticeQueued, AvatarUploads, history
<1> QED
  BY <1>2, <1>4, <1>5, <1>6, <1>7, <1>8, <1>9

LEMMA NextKeepsRevocation == TypeInv /\ RevocationInv /\ [Next]_vars => RevocationInv'
<1> SUFFICES ASSUME TypeInv, RevocationInv, [Next]_vars PROVE RevocationInv'
  OBVIOUS
<1>1. CASE \E c \in Calls : Request(c)
  BY <1>1, RequestIsGuarded DEF RevocationInv, Guarded, There, history
<1>2. CASE \E c \in Calls : Step(c)
  BY <1>2, StepKeepsRevocation
<1>3. CASE AccountDeleted
  <2>1. user'.state = "deleted" /\ user'.changedAt = user.changedAt
    BY <1>3 DEF AccountDeleted, TypeInv, TypeOK, UserType
  <2> QED
    BY <1>3, <2>1 DEF AccountDeleted, RevocationInv
<1>4. CASE \/ Tick \/ UNCHANGED vars
           \/ \E t \in TokenIds : TokenExpires(t) \/ CodeExpires(t) \/ Cleanup(t) \/ LetterSent(t) \/ LetterFails(t)
  BY <1>4
  DEF Tick, TokenExpires, CodeExpires, Cleanup, LetterSent, LetterFails, RevocationInv, history, vars
<1> QED
  BY <1>1, <1>2, <1>3, <1>4 DEF Next

\* The rounded time of the row lies between the second of the change and the
\* next: what was signed before that second is older, what was signed after is not.
LEMMA RoundedIsNear ==
  ASSUME NEW t \in Nat, NEW iat \in Nat
  PROVE  /\ Rounded(t) \in Nat
         /\ iat < Second(t) => ~(iat >= Rounded(t))
         /\ iat > Second(t) => iat >= Rounded(t)
  BY DEF Rounded, Second

LEMMA RevocationFollows == TypeInv /\ RevocationInv => RevocationSticks
<1> SUFFICES ASSUME TypeInv, RevocationInv, ~lost
             PROVE  /\ closed => user.state = "deleted"
                    /\ changes # <<>> /\ There =>
                         LET changed == Second(changes[Len(changes)]) IN
                         \A token \in access : /\ token.iat < changed => ~JwtAccepted(token)
                                               /\ token.iat > changed => JwtAccepted(token)
  BY DEF RevocationSticks
<1>1. closed => user.state = "deleted"
  BY DEF RevocationInv
<1>2. ASSUME changes # <<>>, There, NEW token \in access
      PROVE  /\ token.iat < Second(changes[Len(changes)]) => ~JwtAccepted(token)
             /\ token.iat > Second(changes[Len(changes)]) => JwtAccepted(token)
  <2> DEFINE last == changes[Len(changes)]
  <2>1. last \in Nat /\ token.iat \in Nat
    BY <1>2 DEF TypeInv, TypeOK
  <2>2. user.changedAt = Rounded(last)
    BY <1>2 DEF RevocationInv
  <2> HIDE DEF last
  <2>3. JwtAccepted(token) <=> token.iat >= Rounded(last)
    BY <1>2, <2>1, <2>2, RoundedIsNear, AccountsAssumption DEF JwtAccepted
  <2>4. /\ token.iat < Second(last) => ~JwtAccepted(token)
        /\ token.iat > Second(last) => JwtAccepted(token)
    BY <2>1, <2>3, RoundedIsNear
  <2> QED
    BY <2>4 DEF last
<1> QED
  BY <1>1, <1>2

\* A password change ends the sessions before it and none after it, and a
\* deletion is final, unless a save wrote an older row back.
THEOREM RevocationIsKept == Spec => []RevocationSticks
  BY InitTypes, InitRevocation, NextKeepsTypes, NextKeepsRevocation, RevocationFollows, PTL DEF Spec

-----------------------------------------------------------------------------
(* Where a call goes *)

\* The steps of a request that saves the row of the user.
Saving == {"save_profile", "upload", "save_avatar", "delete_old", "delete_file", "clear_avatar"}

OfAvatar(c) ==
  \/ AvatarSaves(c) \/ AvatarDeletesOld(c) \/ RemovalDeletesFile(c) \/ RemovalSaves(c)
  \/ \E f \in Files : AvatarUploads(c, f)

LEMMA StepGoesOn ==
  ASSUME TypeInv, NEW c \in Calls, Step(c), ~OfAvatar(c)
  PROVE  /\ \A d \in Calls \ {c} : calls'[d] = calls[d]
         /\ calls'[c].pc \notin Saving
         /\ calls'[c].pc = "mail" => \E type \in Links, t \in TokenIds : GeneratesLink(c, type, t)
         /\ calls'[c].copy \in {calls[c].copy, NoUser}
         /\ calls'[c].file \in {calls[c].file, Null}
<1>0. calls \in [Calls -> CallRecord] /\ calls[c] \in CallRecord
  BY DEF TypeInv, CallsInv
<1> DEFINE Good == /\ \A d \in Calls \ {c} : calls'[d] = calls[d]
                   /\ calls'[c].pc \notin Saving
                   /\ calls'[c].pc = "mail" => \E type \in Links, t \in TokenIds : GeneratesLink(c, type, t)
                   /\ calls'[c].copy \in {calls[c].copy, NoUser}
                   /\ calls'[c].file \in {calls[c].file, Null}
<1>1. ASSUME Return(c) PROVE Good
  <2>1. calls'[c] = Idle /\ \A d \in Calls \ {c} : calls'[d] = calls[d]
    BY <1>0, <1>1 DEF Return
  <2> QED
    BY <2>1 DEF Idle, Saving
<1>2. ASSUME NEW pc, pc \notin Saving \cup {"mail"}, Goto(c, pc) PROVE Good
  <2>1. calls'[c] = [calls[c] EXCEPT !.pc = pc] /\ \A d \in Calls \ {c} : calls'[d] = calls[d]
    BY <1>0, <1>2 DEF Goto
  <2>2. calls'[c].pc = pc /\ calls'[c].copy = calls[c].copy /\ calls'[c].file = calls[c].file
    BY <1>0, <2>1 DEF CallRecord
  <2> QED
    BY <1>2, <2>1, <2>2
<1>3. ASSUME NEW t \in TokenIds, NEW type \in Links, GeneratesLink(c, type, t) PROVE Good
  <2>1. /\ calls'[c] = [calls[c] EXCEPT !.pc = "mail", !.token = t]
        /\ \A d \in Calls \ {c} : calls'[d] = calls[d]
    BY <1>0, <1>3 DEF GeneratesLink, CallRecord
  <2>2. calls'[c].pc = "mail" /\ calls'[c].copy = calls[c].copy /\ calls'[c].file = calls[c].file
    BY <1>0, <2>1 DEF CallRecord
  <2> QED
    BY <1>3, <2>1, <2>2 DEF Saving
<1>4. ASSUME NEW t \in TokenIds, OpensSession(c, t) PROVE Good
  <2>1. \/ calls' = [calls EXCEPT ![c] = [calls[c] EXCEPT !.pc = "code", !.token = t]]
        \/ calls' = [calls EXCEPT ![c] = Idle]
    BY <1>4 DEF OpensSession
  <2>2. CASE calls' = [calls EXCEPT ![c] = Idle]
    BY <1>1, <2>2 DEF Return
  <2>3. CASE calls' = [calls EXCEPT ![c] = [calls[c] EXCEPT !.pc = "code", !.token = t]]
    <3>1. calls'[c] = [calls[c] EXCEPT !.pc = "code", !.token = t] /\ \A d \in Calls \ {c} : calls'[d] = calls[d]
      BY <1>0, <2>3
    <3>2. calls'[c].pc = "code" /\ calls'[c].copy = calls[c].copy /\ calls'[c].file = calls[c].file
      BY <1>0, <3>1 DEF CallRecord
    <3> QED
      BY <3>1, <3>2 DEF Saving
  <2> QED
    BY <2>1, <2>2, <2>3
<1>5. ASSUME OAuthFindsUser(c) PROVE Good
  <2>1. Goto(c, "oauth_link") \/ Goto(c, "oauth_create")
    BY <1>5 DEF OAuthFindsUser
  <2> QED
    BY <1>2, <2>1 DEF Saving
<1>6. ASSUME SetsPassword(c) PROVE Good
  <2>1. Goto(c, "mark") \/ Goto(c, "revoke")
    BY <1>6 DEF SetsPassword
  <2> QED
    BY <1>2, <2>1 DEF Saving
<1> HIDE DEF Good
<1>7. ASSUME ~Return(c), \A pc : pc \notin Saving \cup {"mail"} => ~Goto(c, pc),
             ~OAuthFindsUser(c), ~SetsPassword(c)
      PROVE  \/ \E type \in Links, t \in TokenIds : GeneratesLink(c, type, t)
             \/ \E t \in TokenIds : OpensSession(c, t)
  BY <1>7
  DEF Step, OfAvatar, RegisterSaves, RegisterCreatesPreferences, MailsLink, DropsLinks, VerifyUpdates,
      ResetReadsUser, MarksUsed, RefreshFinds, RevokesSessions, OAuthLinks, OAuthCreates, CreatesCode,
      ExchangeDeletes, ProfileSaves, CallFails, PreferencesCreated, PreferencesReturned,
      PreferencesSaved, NoticeQueued, Links, Saving
<1>8. Good
  <2>1. CASE \E pc : pc \notin Saving \cup {"mail"} /\ Goto(c, pc)
    BY <1>2, <2>1
  <2>2. CASE Return(c) \/ OAuthFindsUser(c) \/ SetsPassword(c)
    BY <1>1, <1>5, <1>6, <2>2
  <2>3. CASE \/ \E type \in Links, t \in TokenIds : GeneratesLink(c, type, t)
             \/ \E t \in TokenIds : OpensSession(c, t)
    BY <1>3, <1>4, <2>3
  <2> QED
    BY <1>7, <2>1, <2>2, <2>3
<1> QED
  BY <1>8 DEF Good

\* The steps of a request of an avatar.
LEMMA AvatarGoesOn ==
  ASSUME TypeInv, NEW c \in Calls, OfAvatar(c)
  PROVE  /\ \A d \in Calls \ {c} : calls'[d] = calls[d]
         /\ calls[c].pc \in Saving /\ calls'[c].pc \in Saving \cup {"idle"}
<1>0. calls \in [Calls -> CallRecord] /\ calls[c] \in CallRecord
  BY DEF TypeInv, CallsInv
<1>1. CASE \E f \in Files : AvatarUploads(c, f)
  BY <1>0, <1>1 DEF AvatarUploads, CallRecord, Saving, At
<1>2. CASE AvatarSaves(c) \/ RemovalDeletesFile(c)
  BY <1>0, <1>2 DEF AvatarSaves, RemovalDeletesFile, CallRecord, Saving, At, Goto, Return, Idle
<1>3. CASE AvatarDeletesOld(c) \/ RemovalSaves(c)
  BY <1>0, <1>3 DEF AvatarDeletesOld, RemovalSaves, CallRecord, Saving, At, Return, Idle
<1> QED
  BY <1>1, <1>2, <1>3 DEF OfAvatar

LEMMA RequestStarts ==
  ASSUME TypeInv, NEW c \in Calls, Request(c)
  PROVE  /\ \A d \in Calls \ {c} : calls'[d] = calls[d]
         /\ calls[c].pc = "idle"
         /\ calls'[c].pc \notin {"mail", "save_avatar", "delete_old", "clear_avatar"}
         /\ calls'[c].pc \in Saving => There
         /\ calls'[c].file = Null
         /\ calls'[c].copy = NoUser \/ calls'[c].copy = [user EXCEPT !.password = Null]
         /\ calls'[c].pc \in Saving => calls'[c].copy = [user EXCEPT !.password = Null]
         /\ UNCHANGED <<user, tokens, letters, files, closed, lost, failed>>
<1>0. calls \in [Calls -> CallRecord]
  BY DEF TypeInv, CallsInv
<1>1. /\ UNCHANGED <<user, tokens, letters, files, closed, lost, failed>> /\ calls[c].pc = "idle"
      /\ \A d \in Calls \ {c} : calls'[d] = calls[d]
  BY <1>0
  DEF Request, RegisterReads, ResendReads, ForgotReads, OAuthFindsAccount, LoginReads, ChangeReads,
      ProfileReads, AvatarReads, RemovalReads, ReadsUser, VerifyReads, ResetReads, RefreshReads,
      LogoutFinds, ExchangeReads, UsesLink, PreferencesRead, NoticeReads, FindsPreferences, Starts,
      StartsWith, stores, history
<1> DEFINE Plain == calls'[c].pc \notin {"mail"} \cup Saving /\ calls'[c].file = Null /\ calls'[c].copy = NoUser
<1>2. ASSUME NEW op, NEW pc, pc \notin Saving \cup {"mail"}, Starts(c, op, pc) PROVE Plain
  BY <1>0, <1>2 DEF Starts, Idle
<1>3. ASSUME NEW op, NEW pc, NEW t, pc \notin Saving \cup {"mail"},
             StartsWith(c, [Idle EXCEPT !.op = op, !.pc = pc, !.token = t])
      PROVE  Plain
  BY <1>0, <1>3 DEF StartsWith, Idle
<1>4. ASSUME NEW op, FindsPreferences(c, op) PROVE Plain
  <2> DEFINE pc == IF preferences = Null THEN "create" ELSE "have"
  <2>1. calls' = [calls EXCEPT ![c] = [Idle EXCEPT !.op = op, !.pc = pc, !.row = preferences, !.wish = asked]]
    BY <1>4 DEF FindsPreferences, StartsWith
  <2>2. pc \notin Saving \cup {"mail"}
    BY DEF Saving
  <2> HIDE DEF pc
  <2> QED
    BY <1>0, <2>1, <2>2 DEF Idle
<1>5. ASSUME NEW op, NEW pc, ReadsUser(c, op, pc)
      PROVE  /\ There /\ calls'[c].pc = pc /\ calls'[c].file = Null
             /\ calls'[c].copy = [user EXCEPT !.password = Null]
  <2> DEFINE copy == [user EXCEPT !.password = Null]
  <2>1. There /\ calls' = [calls EXCEPT ![c] = [Idle EXCEPT !.op = op, !.pc = pc, !.copy = copy]]
    BY <1>5 DEF ReadsUser, StartsWith, Authenticated, JwtAccepted
  <2> HIDE DEF copy
  <2>2. calls'[c].pc = pc /\ calls'[c].file = Null /\ calls'[c].copy = copy
    BY <1>0, <2>1 DEF Idle
  <2> QED
    BY <2>1, <2>2 DEF copy
<1> HIDE DEF Plain
<1>6. CASE ProfileReads(c) \/ AvatarReads(c) \/ RemovalReads(c)
  <2>1. /\ There /\ calls'[c].pc \in {"save_profile", "upload", "delete_file"} /\ calls'[c].file = Null
        /\ calls'[c].copy = [user EXCEPT !.password = Null]
    BY <1>5, <1>6 DEF ProfileReads, AvatarReads, RemovalReads
  <2> QED
    BY <1>1, <2>1
<1>7. ASSUME ~(ProfileReads(c) \/ AvatarReads(c) \/ RemovalReads(c)) PROVE Plain
  <2>1. CASE RegisterReads(c) \/ ResendReads(c) \/ ForgotReads(c) \/ OAuthFindsAccount(c)
    BY <1>2, <2>1 DEF RegisterReads, ResendReads, ForgotReads, OAuthFindsAccount, Saving
  <2>2. CASE \E p \in Passwords : LoginReads(c, p) \/ ChangeReads(c, p)
    BY <1>2, <2>2 DEF LoginReads, ChangeReads, Saving
  <2>3. CASE PreferencesRead(c) \/ NoticeReads(c)
    BY <1>4, <2>3 DEF PreferencesRead, NoticeReads
  <2>4. CASE \E t \in TokenIds : \/ VerifyReads(c, t) \/ ResetReads(c, t) \/ RefreshReads(c, t)
                                 \/ LogoutFinds(c, t) \/ ExchangeReads(c, t)
    BY <1>3, <2>4 DEF VerifyReads, ResetReads, RefreshReads, LogoutFinds, ExchangeReads, UsesLink, Saving
  <2> QED
    BY <1>7, <2>1, <2>2, <2>3, <2>4 DEF Request
<1> QED
  BY <1>1, <1>6, <1>7 DEF Plain, Saving


-----------------------------------------------------------------------------
(* Links by mail *)

\* The links of a type that were mailed or will be.
Issued(type) ==
  {t \in TokenIds : /\ tokens[t].type = type
                    /\ letters[t] # "none" \/ \E c \in Calls : At(c, "mail") /\ calls[c].token = t}

Good == {"live", "used", "expired", "swept"}

\* One of them is still good, unless all are gone and a request is about to
\* issue another.
LinkWorks(type) == \/ Issued(type) = {}
                   \/ \E t \in Issued(type) : tokens[t].state \in Good
                   \/ \E c \in Calls : At(c, type)

LinksInv == ~failed /\ ~closed => \A type \in Links : LinkWorks(type)

LEMMA InitLinks == Init => LinksInv
<1> SUFFICES ASSUME Init, NEW type \in Links PROVE Issued(type) = {}
  BY DEF LinksInv, LinkWorks
<1>1. /\ \A t \in TokenIds : letters[t] = "none"
      /\ \A c \in Calls : ~At(c, "mail")
  BY DEF Init, At, Idle
<1> QED
  BY <1>1 DEF Issued

LEMMA LinkStands ==
  ASSUME NEW type \in Links, LinkWorks(type),
         \A c \in Calls : At(c, type) => At(c, type)',
         \A t \in TokenIds : t \in Issued(type)' => t \in Issued(type),
         \A t \in Issued(type) : tokens[t].state \in Good => t \in Issued(type)' /\ tokens'[t].state \in Good
  PROVE  LinkWorks(type)'
<1>1. CASE Issued(type) = {}
  <2>1. Issued(type)' \subseteq TokenIds
    BY DEF Issued
  <2> QED
    BY <1>1, <2>1 DEF LinkWorks
<1>2. CASE \E t \in Issued(type) : tokens[t].state \in Good
  BY <1>2 DEF LinkWorks
<1>3. CASE \E c \in Calls : At(c, type)
  BY <1>3 DEF LinkWorks
<1> QED
  BY <1>1, <1>2, <1>3 DEF LinkWorks

\* A step of others: no call comes to or leaves the issue of a link, no letter
\* is written, a row keeps its type and what is good stays good.
LEMMA OthersKeepLinks ==
  ASSUME LinksInv, failed' = failed, closed' = closed,
         \A c \in Calls : \/ calls'[c] = calls[c]
                          \/ calls[c].pc \notin Links \cup {"mail"} /\ calls'[c].pc # "mail",
         \A t \in TokenIds : letters'[t] = "none" <=> letters[t] = "none",
         \A t \in TokenIds : \/ /\ tokens'[t].type = tokens[t].type
                                /\ tokens[t].state \in Good => tokens'[t].state \in Good
                             \/ tokens[t].state = "none" /\ tokens'[t].type = "refresh"
  PROVE  LinksInv'
<1> SUFFICES ASSUME ~failed, ~closed, NEW type \in Links PROVE LinkWorks(type)'
  BY DEF LinksInv
<1>1. LinkWorks(type)
  BY DEF LinksInv
<1>2. \A c \in Calls : At(c, type) => At(c, type)'
  BY DEF At
<1>3. \A t \in TokenIds : /\ (\E c \in Calls : At(c, "mail") /\ calls[c].token = t)'
                             <=> \E c \in Calls : At(c, "mail") /\ calls[c].token = t
                          /\ (letters'[t] # "none" <=> letters[t] # "none")
  BY DEF At
<1>4. \A t \in TokenIds : t \in Issued(type)' => t \in Issued(type)
  BY <1>3 DEF Issued, Links
<1>5. \A t \in Issued(type) : tokens[t].state \in Good => t \in Issued(type)' /\ tokens'[t].state \in Good
  BY <1>3 DEF Issued, Good
<1> QED
  BY <1>1, <1>2, <1>4, <1>5, LinkStands

\* Some tokens get another state.
LEMMA WithStateIs ==
  ASSUME TypeInv, NEW ids, NEW state, tokens' = WithState(ids, state), NEW t \in TokenIds
  PROVE  /\ tokens'[t].type = tokens[t].type
         /\ t \in ids => tokens'[t].state = state
         /\ t \notin ids => tokens'[t] = tokens[t]
  BY DEF WithState, TypeInv, TypeOK

\* A row is inserted.
LEMMA InsertedIs ==
  ASSUME TypeInv, NEW t \in TokenIds, NEW type, Fresh(t), tokens' = Inserted(t, type)
  PROVE  /\ tokens[t].state = "none" /\ tokens'[t].type = type /\ tokens'[t].state = "live"
         /\ \A u \in TokenIds \ {t} : tokens'[u] = tokens[u]
<1>1. tokens \in [TokenIds -> Row]
  BY DEF TypeInv, TypeOK, Row
<1>2. tokens' = [tokens EXCEPT ![t] = [type |-> type, state |-> "live"]]
  BY DEF Inserted
<1>3. tokens'[t] = [type |-> type, state |-> "live"] /\ \A u \in TokenIds \ {t} : tokens'[u] = tokens[u]
  BY <1>1, <1>2
<1> QED
  BY <1>3 DEF Fresh, NoToken

\* The earlier links of the type go; the request that took them goes on to the
\* next one.
LEMMA DropKeepsLinks ==
  ASSUME TypeInv, LinksInv, NEW c \in Calls, NEW dropped \in Links, DropsLinks(c, dropped)
  PROVE  LinksInv'
<1>0. calls \in [Calls -> CallRecord]
  BY DEF TypeInv, CallsInv
<1> SUFFICES ASSUME ~failed, ~closed, NEW type \in Links PROVE LinkWorks(type)'
  BY DEF LinksInv, DropsLinks
<1>1. /\ calls'[c].pc = dropped /\ \A d \in Calls \ {c} : calls'[d] = calls[d]
      /\ calls[c].pc \notin Links \cup {"mail"} /\ letters' = letters
      /\ tokens' = WithState(Rows(dropped), "gone")
  BY <1>0 DEF DropsLinks, Goto, At, Links, stores, CallRecord
<1>2. CASE type = dropped
  BY <1>1, <1>2 DEF LinkWorks, At
<1>3. CASE type # dropped
  <2>1. \A t \in TokenIds : /\ tokens'[t].type = tokens[t].type
                            /\ tokens[t].type = type => tokens'[t] = tokens[t]
    BY <1>1, <1>3, WithStateIs DEF Rows
  <2>2. \A t \in TokenIds : (\E d \in Calls : At(d, "mail") /\ calls[d].token = t)'
                            <=> \E d \in Calls : At(d, "mail") /\ calls[d].token = t
    BY <1>1 DEF At, Links
  <2>3. /\ \A d \in Calls : At(d, type) => At(d, type)'
        /\ \A t \in TokenIds : t \in Issued(type)' <=> t \in Issued(type)
    BY <1>1, <2>1, <2>2 DEF At, Issued
  <2>4. \A t \in Issued(type) : t \in Issued(type)' /\ tokens'[t] = tokens[t]
    BY <2>1, <2>3 DEF Issued
  <2>5. LinkWorks(type)
    BY DEF LinksInv
  <2> QED
    BY <2>3, <2>4, <2>5, LinkStands
<1> QED
  BY <1>2, <1>3

LEMMA GenerateKeepsLinks ==
  ASSUME TypeInv, LinksInv, NEW c \in Calls, NEW new \in Links, NEW t \in TokenIds, GeneratesLink(c, new, t)
  PROVE  LinksInv'
<1>0. calls \in [Calls -> CallRecord]
  BY DEF TypeInv, CallsInv
<1> SUFFICES ASSUME ~failed, ~closed, NEW type \in Links PROVE LinkWorks(type)'
  BY DEF LinksInv, GeneratesLink, history
<1>1. /\ calls[c].pc = new /\ new # "mail" /\ letters' = letters
      /\ calls'[c].pc = "mail" /\ calls'[c].token = t /\ \A d \in Calls \ {c} : calls'[d] = calls[d]
  BY <1>0 DEF GeneratesLink, At, Links, stores, CallRecord
<1>2. /\ tokens[t].state = "none" /\ tokens'[t].type = new /\ tokens'[t].state = "live"
      /\ \A u \in TokenIds \ {t} : tokens'[u] = tokens[u]
  BY InsertedIs DEF GeneratesLink
<1>3. CASE type = new
  <2>1. t \in Issued(type)'
    BY <1>1, <1>2, <1>3 DEF Issued, At
  <2> QED
    BY <1>2, <2>1 DEF LinkWorks, Good
<1>4. CASE type # new
  <2>1. \A u \in TokenIds \ {t} : (\E d \in Calls : At(d, "mail") /\ calls[d].token = u)'
                                  <=> \E d \in Calls : At(d, "mail") /\ calls[d].token = u
    BY <1>1 DEF At
  <2>2. t \notin Issued(type)' /\ \A u \in TokenIds \ {t} : u \in Issued(type)' <=> u \in Issued(type)
    BY <1>1, <1>2, <1>4, <2>1 DEF Issued
  <2>3. \A u \in Issued(type) : tokens[u].state \in Good => u \in Issued(type)' /\ tokens'[u].state \in Good
    BY <1>2, <2>2 DEF Issued, Good
  <2>4. /\ \A d \in Calls : At(d, type) => At(d, type)'
        /\ \A u \in TokenIds : u \in Issued(type)' => u \in Issued(type)
    BY <1>1, <1>4, <2>2 DEF At
  <2>5. LinkWorks(type)
    BY DEF LinksInv
  <2> QED
    BY <2>3, <2>4, <2>5, LinkStands
<1> QED
  BY <1>3, <1>4

\* What was to be mailed is mailed.
LEMMA MailKeepsLinks ==
  ASSUME TypeInv, LinksInv, NEW c \in Calls, MailsLink(c)
  PROVE  LinksInv'
<1>0. calls \in [Calls -> CallRecord] /\ letters \in [TokenIds -> Letter]
  BY DEF TypeInv, CallsInv, TypeOK, Letter
<1> SUFFICES ASSUME ~failed, ~closed, NEW type \in Links PROVE LinkWorks(type)'
  BY DEF LinksInv, MailsLink, history
<1>1. /\ calls[c].pc = "mail" /\ calls'[c].pc = "idle" /\ \A d \in Calls \ {c} : calls'[d] = calls[d]
      /\ tokens' = tokens
  BY <1>0 DEF MailsLink, At, Return, Idle
<1>2. \A t \in TokenIds : letters'[t] = IF t = calls[c].token THEN "queued" ELSE letters[t]
  BY <1>0 DEF MailsLink
<1>3. \A t \in TokenIds :
        \/ letters'[t] # "none" \/ \E d \in Calls : At(d, "mail")' /\ calls'[d].token = t
        <=> \/ letters[t] # "none" \/ \E d \in Calls : At(d, "mail") /\ calls[d].token = t
  BY <1>1, <1>2 DEF At
<1>4. \A t \in TokenIds : t \in Issued(type)' <=> t \in Issued(type)
  BY <1>1, <1>3 DEF Issued
<1>5. \A d \in Calls : At(d, type) => At(d, type)'
  BY <1>1 DEF At, Links
<1>6. LinkWorks(type) /\ Issued(type) \subseteq TokenIds
  BY DEF LinksInv, Issued
<1> QED
  BY <1>1, <1>4, <1>5, <1>6, LinkStands

LEMMA StepKeepsLinks ==
  ASSUME TypeInv, LinksInv, NEW c \in Calls, Step(c)
  PROVE  LinksInv'
<1>0. calls \in [Calls -> CallRecord] /\ Null \notin TokenIds
  BY AccountsAssumption DEF TypeInv, CallsInv, TokenIds
<1>1. CASE failed'
  BY <1>1 DEF LinksInv
<1>2. CASE MailsLink(c)
  BY <1>2, MailKeepsLinks
<1>3. CASE \E type \in Links : DropsLinks(c, type)
  BY <1>3, DropKeepsLinks
<1>4. CASE \E type \in Links, t \in TokenIds : GeneratesLink(c, type, t)
  BY <1>4, GenerateKeepsLinks
<1>5. ASSUME ~failed', ~MailsLink(c), ~\E type \in Links : DropsLinks(c, type),
             ~\E type \in Links, t \in TokenIds : GeneratesLink(c, type, t)
      PROVE  LinksInv'
  <2>1. \A d \in Calls : \/ calls'[d] = calls[d]
                         \/ calls[d].pc \notin Links \cup {"mail"} /\ calls'[d].pc # "mail"
    <3>1. \A d \in Calls \ {c} : calls'[d] = calls[d]
      BY <1>5, StepGoesOn, AvatarGoesOn
    <3>2. calls'[c].pc # "mail"
      BY <1>5, StepGoesOn, AvatarGoesOn DEF Saving
    <3>3. calls[c].pc \notin Links \cup {"mail"}
      BY <1>5
      DEF Step, RegisterSaves, RegisterCreatesPreferences, VerifyUpdates, ResetReadsUser, SetsPassword,
          MarksUsed, OpensSession, RefreshFinds, RevokesSessions, OAuthFindsUser, OAuthLinks,
          OAuthCreates, CreatesCode, ExchangeDeletes, ProfileSaves, AvatarSaves, AvatarDeletesOld,
          RemovalDeletesFile, RemovalSaves, PreferencesCreated, PreferencesReturned, PreferencesSaved,
          NoticeQueued, AvatarUploads, CallFails, At, Links
    <3> QED
      BY <3>1, <3>2, <3>3
  <2>2. UNCHANGED <<letters, failed, closed>>
    BY <1>5
    DEF Step, RegisterSaves, RegisterCreatesPreferences, VerifyUpdates, ResetReadsUser, SetsPassword,
        MarksUsed, OpensSession, RefreshFinds, RevokesSessions, OAuthFindsUser, OAuthLinks,
        OAuthCreates, CreatesCode, ExchangeDeletes, ProfileSaves, AvatarSaves, AvatarDeletesOld,
        RemovalDeletesFile, RemovalSaves, PreferencesCreated, PreferencesReturned, PreferencesSaved,
        NoticeQueued, AvatarUploads, CallFails, DeletesFile, stores, history
  <2> DEFINE Kept(t) == \/ /\ tokens'[t].type = tokens[t].type
                           /\ tokens[t].state \in Good => tokens'[t].state \in Good
                        \/ tokens[t].state = "none" /\ tokens'[t].type = "refresh"
  <2>3. ASSUME NEW ids, tokens' = WithState(ids, "used") PROVE \A t \in TokenIds : Kept(t)
    <3> SUFFICES ASSUME NEW t \in TokenIds PROVE Kept(t)
      OBVIOUS
    <3>1. /\ tokens'[t].type = tokens[t].type
          /\ t \in ids => tokens'[t].state = "used"
          /\ t \notin ids => tokens'[t] = tokens[t]
      BY <2>3, WithStateIs
    <3> QED
      BY <3>1 DEF Good
  <2>4. MarksUsed(c) => tokens' = WithState({calls[c].token}, "used")
    BY DEF MarksUsed
  <2>5. RevokesSessions(c) => tokens' = WithState(Live("refresh"), "used")
    BY DEF RevokesSessions
  <2>6. ASSUME NEW t \in TokenIds, OpensSession(c, t) PROVE \A u \in TokenIds : Kept(u)
    <3>1. /\ tokens[t].state = "none" /\ tokens'[t].type = "refresh"
          /\ \A u \in TokenIds \ {t} : tokens'[u] = tokens[u]
      BY <2>6, InsertedIs DEF OpensSession
    <3> QED
      BY <3>1
  <2>7. ASSUME ~MarksUsed(c), ~RevokesSessions(c), ~\E t \in TokenIds : OpensSession(c, t)
        PROVE  tokens' = tokens
    BY <1>5, <2>7
    DEF Step, RegisterSaves, RegisterCreatesPreferences, VerifyUpdates, ResetReadsUser, SetsPassword,
        RefreshFinds, OAuthFindsUser, OAuthLinks, OAuthCreates, CreatesCode, ExchangeDeletes,
        ProfileSaves, AvatarSaves, AvatarDeletesOld, RemovalDeletesFile, RemovalSaves,
        PreferencesCreated, PreferencesReturned, PreferencesSaved, NoticeQueued, AvatarUploads, CallFails
  <2>8. \A t \in TokenIds : Kept(t)
    BY <2>3, <2>4, <2>5, <2>6, <2>7
  <2> QED
    BY <2>1, <2>2, <2>8, OthersKeepLinks
<1> QED
  BY <1>1, <1>2, <1>3, <1>4, <1>5

LEMMA NextKeepsLinks == TypeInv /\ LinksInv /\ [Next]_vars => LinksInv'
<1> SUFFICES ASSUME TypeInv, LinksInv, [Next]_vars PROVE LinksInv'
  OBVIOUS
<1>0. letters \in [TokenIds -> Letter]
  BY DEF TypeInv, TypeOK, Letter
<1>1. CASE \E c \in Calls : Request(c)
  <2>1. PICK c \in Calls : Request(c)
    BY <1>1
  <2>2. /\ \A d \in Calls \ {c} : calls'[d] = calls[d]
        /\ calls[c].pc = "idle" /\ calls'[c].pc # "mail"
        /\ UNCHANGED <<tokens, letters, closed, failed>>
    BY <2>1, RequestStarts
  <2>3. \A d \in Calls : \/ calls'[d] = calls[d]
                         \/ calls[d].pc \notin Links \cup {"mail"} /\ calls'[d].pc # "mail"
    BY <2>2 DEF Links
  <2> QED
    BY <2>2, <2>3, OthersKeepLinks
<1>2. CASE \E c \in Calls : Step(c)
  BY <1>2, StepKeepsLinks
<1>3. CASE AccountDeleted
  BY <1>3 DEF AccountDeleted, LinksInv
<1>4. CASE \/ Tick \/ UNCHANGED vars \/ \E t \in TokenIds : CodeExpires(t)
  <2>1. UNCHANGED <<tokens, letters, calls, closed, failed>>
    BY <1>4 DEF Tick, CodeExpires, vars, stores, history
  <2> QED
    BY <2>1, OthersKeepLinks
<1>5. ASSUME NEW t \in TokenIds, TokenExpires(t) \/ Cleanup(t) PROVE LinksInv'
  <2>1. \/ tokens' = WithState({t}, "expired")
        \/ tokens' = WithState({t}, "swept")
    BY <1>5 DEF TokenExpires, Cleanup
  <2>2. UNCHANGED <<letters, calls, closed, failed>>
    BY <1>5 DEF TokenExpires, Cleanup, stores, history
  <2>3. \A u \in TokenIds : /\ tokens'[u].type = tokens[u].type
                            /\ tokens'[u].state \in {"expired", "swept"} \/ tokens'[u] = tokens[u]
    <3> TAKE u \in TokenIds
    <3>1. CASE tokens' = WithState({t}, "expired")
      BY <3>1, WithStateIs
    <3>2. CASE tokens' = WithState({t}, "swept")
      BY <3>2, WithStateIs
    <3> QED
      BY <2>1, <3>1, <3>2
  <2> QED
    BY <2>2, <2>3, OthersKeepLinks DEF Good
<1>6. ASSUME NEW t \in TokenIds, LetterSent(t) \/ LetterFails(t) PROVE LinksInv'
  <2>1. /\ UNCHANGED <<tokens, calls, closed, failed>> /\ letters[t] = "queued"
        /\ \E letter \in {"queued", "sent", "dead"} : letters' = [letters EXCEPT ![t] = letter]
    BY <1>0, <1>6 DEF LetterSent, LetterFails, history
  <2>2. \A u \in TokenIds : letters'[u] = "none" <=> letters[u] = "none"
    BY <1>0, <2>1
  <2> QED
    BY <2>1, <2>2, OthersKeepLinks
<1> QED
  BY <1>1, <1>2, <1>3, <1>4, <1>5, <1>6 DEF Next

LEMMA LinksFollow == LinksInv => MailedLinkWorks
<1> SUFFICES ASSUME LinksInv, Quiet, ~failed, ~closed, NEW type \in Links,
                    {t \in TokenIds : tokens[t].type = type /\ letters[t] # "none"} # {}
             PROVE  \E t \in {u \in TokenIds : tokens[u].type = type /\ letters[u] # "none"} :
                      tokens[t].state \in {"live", "used", "expired", "swept"}
  BY DEF MailedLinkWorks
<1>1. Issued(type) = {t \in TokenIds : tokens[t].type = type /\ letters[t] # "none"}
  BY DEF Issued, Quiet, At
<1>2. \A c \in Calls : ~At(c, type)
  BY DEF Quiet, At, Links
<1> QED
  BY <1>1, <1>2 DEF LinksInv, LinkWorks, Good

\* Of the links of a type that were mailed one works, was used or expired when
\* no request is in progress, in whatever order the requests for new links drop
\* each other's.
THEOREM LinksWork == Spec => []MailedLinkWorks
<1>1. Init => TypeInv /\ LinksInv
  BY InitTypes, InitLinks
<1>2. TypeInv /\ LinksInv /\ [Next]_vars => (TypeInv /\ LinksInv)'
  BY NextKeepsTypes, NextKeepsLinks
<1> QED
  BY <1>1, <1>2, LinksFollow, PTL DEF Spec

-----------------------------------------------------------------------------
(* Avatars *)

Holds == {"save_avatar", "delete_old", "clear_avatar"}

\* Only the row of a user who is there is copied.
CopiesAreThere == \A c \in Calls : calls[c].pc \in Saving => calls[c].copy.state = "there"

\* A file that was uploaded and is not in the row yet is nobody else's; a file
\* that a removal has deleted does not come back.
NewFilesAreFresh ==
  /\ \A c \in Calls : At(c, "save_avatar") =>
       /\ calls[c].file \in files /\ calls[c].file # user.avatar
       /\ \A d \in Calls : calls[d].copy.avatar # calls[c].file
       /\ \A d \in Calls \ {c} : calls[d].file # calls[c].file
  /\ \A c \in Calls : At(c, "clear_avatar") /\ ~failed => calls[c].copy.avatar \notin files

\* What is deleted as the old avatar is not the avatar.
OldIsOld ==
  /\ user.state = "none" => user.avatar = Null /\ \A c \in Calls : ~At(c, "delete_old")
  /\ \A c \in Calls : At(c, "delete_old") => calls[c].copy.avatar \notin {Null, user.avatar}

\* Each file is the avatar, about to become it, or about to be deleted.
Kept(f) == \/ f = user.avatar
           \/ \E c \in Calls : At(c, "save_avatar") /\ calls[c].file = f
           \/ \E c \in Calls : At(c, "delete_old") /\ calls[c].copy.avatar = f

\* The avatar has its file unless its removal is under way.
AvatarIsThere == \/ user.avatar \in files \cup {Null, Photo}
                 \/ \E c \in Calls : At(c, "clear_avatar") /\ calls[c].copy.avatar = user.avatar

FilesAreHeld == AvatarIsThere /\ \A f \in files : Kept(f)

AvatarInv ==
  /\ CopiesAreThere
  /\ NewFilesAreFresh
  /\ ~lost => OldIsOld
  /\ ~lost /\ ~failed => FilesAreHeld

LEMMA InitAvatar == Init => AvatarInv
<1> SUFFICES ASSUME Init PROVE AvatarInv
  OBVIOUS
<1>1. files = {} /\ user.avatar = Null /\ \A c \in Calls : calls[c].pc = "idle"
  <2>1. user = NoUser => user.avatar = Null
    BY DEF NoUser
  <2>2. ASSUME NEW p, user = [NoUser EXCEPT !.state = "there", !.password = p, !.verified = TRUE]
        PROVE  user.avatar = Null
    BY <2>2 DEF NoUser
  <2>3. user.avatar = Null
    BY <2>1, <2>2 DEF Init
  <2>4. files = {} /\ \A c \in Calls : calls[c].pc = "idle"
    BY DEF Init, Idle
  <2> QED
    BY <2>3, <2>4
<1> QED
  BY <1>1
  DEF AvatarInv, CopiesAreThere, NewFilesAreFresh, OldIsOld, FilesAreHeld, AvatarIsThere, Kept, At, Saving

LEMMA ReturnHoldsNothing ==
  ASSUME TypeInv, NEW c \in Calls, Return(c)
  PROVE  /\ \A d \in Calls \ {c} : calls'[d] = calls[d]
         /\ calls'[c].pc = "idle" /\ calls'[c].file = Null /\ calls'[c].copy.avatar = Null
<1>1. calls'[c] = Idle /\ \A d \in Calls \ {c} : calls'[d] = calls[d]
  BY DEF Return, TypeInv, CallsInv
<1> QED
  BY <1>1 DEF Idle, NoUser

LEMMA GotoHoldsOn ==
  ASSUME TypeInv, NEW c \in Calls, NEW pc, Goto(c, pc)
  PROVE  /\ \A d \in Calls \ {c} : calls'[d] = calls[d]
         /\ calls'[c].pc = pc /\ calls'[c].file = calls[c].file /\ calls'[c].copy = calls[c].copy
<1>1. calls'[c] = [calls[c] EXCEPT !.pc = pc] /\ \A d \in Calls \ {c} : calls'[d] = calls[d]
  BY DEF Goto, TypeInv, CallsInv
<1>2. calls[c] \in CallRecord
  BY DEF TypeInv, CallsInv
<1> QED
  BY <1>1, <1>2 DEF CallRecord

\* A step that does not touch the files, of a call that holds none.
LEMMA OthersKeepAvatar ==
  ASSUME TypeInv, AvatarInv, NEW c \in Calls,
         \A d \in Calls \ {c} : calls'[d] = calls[d],
         calls[c].pc \notin Holds \/ failed',
         calls'[c].pc \notin Holds,
         calls'[c].pc \in Saving => calls'[c].copy.state = "there",
         calls'[c].copy.avatar \in {calls[c].copy.avatar, user.avatar, Null},
         calls'[c].file \in {calls[c].file, Null},
         user'.avatar \in {user.avatar, calls[c].copy.avatar, Null},
         files' = files, lost => lost', failed => failed',
         ~lost' => user'.avatar = user.avatar /\ (user'.state = "none" => user.state = "none")
  PROVE  AvatarInv'
<1>0. files \subseteq Files /\ Null \notin files
  BY AccountsAssumption DEF TypeInv, TypeOK
<1>1. CopiesAreThere'
  BY DEF AvatarInv, CopiesAreThere
<1>2. NewFilesAreFresh'
  <2>1. ASSUME NEW d \in Calls, At(d, "save_avatar")'
        PROVE  /\ calls'[d].file \in files' /\ calls'[d].file # user'.avatar
               /\ \A e \in Calls : calls'[e].copy.avatar # calls'[d].file
               /\ \A e \in Calls \ {d} : calls'[e].file # calls'[d].file
    <3>1. d # c /\ calls'[d] = calls[d] /\ At(d, "save_avatar")
      BY <2>1 DEF At, Holds
    <3>2. /\ calls[d].file \in files /\ calls[d].file # user.avatar
          /\ \A e \in Calls : calls[e].copy.avatar # calls[d].file
          /\ \A e \in Calls \ {d} : calls[e].file # calls[d].file
      BY <3>1 DEF AvatarInv, NewFilesAreFresh
    <3>3. calls'[c].copy.avatar # calls[d].file /\ calls'[c].file # calls[d].file
      BY <1>0, <3>1, <3>2
    <3> QED
      BY <1>0, <3>1, <3>2, <3>3
  <2>2. ASSUME NEW d \in Calls, At(d, "clear_avatar")', ~failed' PROVE calls'[d].copy.avatar \notin files'
    BY <2>2 DEF At, Holds, AvatarInv, NewFilesAreFresh
  <2> QED
    BY <2>1, <2>2 DEF NewFilesAreFresh
<1>3. ASSUME ~lost' PROVE OldIsOld'
  <2>1. OldIsOld
    BY <1>3 DEF AvatarInv
  <2>2. ASSUME NEW d \in Calls, At(d, "delete_old")' PROVE calls'[d].copy.avatar \notin {Null, user'.avatar}
    BY <1>3, <2>1, <2>2 DEF OldIsOld, At, Holds
  <2>3. ASSUME user'.state = "none", NEW d \in Calls, At(d, "delete_old")' PROVE FALSE
    BY <1>3, <2>1, <2>3 DEF OldIsOld, At, Holds
  <2> QED
    BY <1>3, <2>1, <2>2, <2>3 DEF OldIsOld
<1>4. ASSUME ~lost', ~failed' PROVE FilesAreHeld'
  <2>1. FilesAreHeld /\ user'.avatar = user.avatar
    BY <1>4 DEF AvatarInv
  <2>2. \A d \in Calls : calls[d].pc \in Holds => calls'[d] = calls[d]
    BY <1>4
  <2> QED
    BY <2>1, <2>2 DEF FilesAreHeld, AvatarIsThere, Kept, At, Holds
<1> QED
  BY <1>1, <1>2, <1>3, <1>4 DEF AvatarInv

\* A step of no call.
LEMMA WorldKeepsAvatar ==
  ASSUME AvatarInv, UNCHANGED <<calls, files, lost, failed>>, user'.avatar = user.avatar,
         user'.state = "none" => user.state = "none"
  PROVE  AvatarInv'
  BY DEF AvatarInv, CopiesAreThere, NewFilesAreFresh, OldIsOld, FilesAreHeld, AvatarIsThere, Kept, At

LEMMA UploadKeepsAvatar ==
  ASSUME TypeInv, AvatarInv, NEW c \in Calls, NEW f \in Files, AvatarUploads(c, f)
  PROVE  AvatarInv'
<1>0. calls \in [Calls -> CallRecord] /\ calls[c] \in CallRecord
  BY DEF TypeInv, CallsInv
<1>1. /\ calls[c].pc = "upload" /\ calls'[c].pc = "save_avatar"
      /\ calls'[c].file = f /\ calls'[c].copy = calls[c].copy
  <2>1. calls' = [calls EXCEPT ![c] = [calls[c] EXCEPT !.pc = "save_avatar", !.file = f]]
    BY <1>0 DEF AvatarUploads, CallRecord
  <2>2. calls'[c] = [calls[c] EXCEPT !.pc = "save_avatar", !.file = f]
    BY <1>0, <2>1
  <2> QED
    BY <1>0, <2>2 DEF AvatarUploads, At, CallRecord
<1>2. /\ \A d \in Calls \ {c} : calls'[d] = calls[d]
      /\ files' = files \cup {f} /\ f \notin files /\ user' = user /\ lost' = lost /\ failed' = failed
      /\ user.avatar # f /\ \A d \in Calls : calls[d].file # f /\ calls[d].copy.avatar # f
  BY <1>0 DEF AvatarUploads, history
<1>3. \A d \in Calls : calls'[d].copy = calls[d].copy
  BY <1>1, <1>2
<1>4. CopiesAreThere'
  BY <1>1, <1>2 DEF AvatarInv, CopiesAreThere, Saving
<1>5. NewFilesAreFresh'
  <2>1. ASSUME NEW d \in Calls, At(d, "save_avatar")'
        PROVE  /\ calls'[d].file \in files' /\ calls'[d].file # user'.avatar
               /\ \A e \in Calls : calls'[e].copy.avatar # calls'[d].file
               /\ \A e \in Calls \ {d} : calls'[e].file # calls'[d].file
    <3>1. CASE d = c
      BY <1>1, <1>2, <1>3, <3>1
    <3>2. CASE d # c
      <4>1. At(d, "save_avatar") /\ calls'[d] = calls[d]
        BY <1>2, <2>1, <3>2 DEF At
      <4>2. /\ calls[d].file \in files /\ calls[d].file # user.avatar
            /\ \A e \in Calls : calls[e].copy.avatar # calls[d].file
            /\ \A e \in Calls \ {d} : calls[e].file # calls[d].file
        BY <4>1 DEF AvatarInv, NewFilesAreFresh
      <4> QED
        BY <1>1, <1>2, <1>3, <3>2, <4>1, <4>2
    <3> QED
      BY <3>1, <3>2
  <2>2. ASSUME NEW d \in Calls, At(d, "clear_avatar")', ~failed' PROVE calls'[d].copy.avatar \notin files'
    <3>1. At(d, "clear_avatar") /\ d # c
      BY <1>1, <1>2, <2>2 DEF At
    <3> QED
      BY <1>2, <2>2, <3>1 DEF AvatarInv, NewFilesAreFresh
  <2> QED
    BY <2>1, <2>2 DEF NewFilesAreFresh
<1>6. ~lost' => OldIsOld'
  BY <1>1, <1>2 DEF AvatarInv, OldIsOld, At
<1>7. ASSUME ~lost', ~failed' PROVE FilesAreHeld'
  <2>1. FilesAreHeld
    BY <1>2, <1>7 DEF AvatarInv
  <2>2. \A d \in Calls : calls[d].pc \in Holds => calls'[d] = calls[d]
    BY <1>1, <1>2 DEF Holds
  <2>3. AvatarIsThere'
    BY <1>2, <2>1, <2>2 DEF FilesAreHeld, AvatarIsThere, At, Holds
  <2>4. Kept(f)'
    BY <1>1 DEF Kept, At
  <2>5. \A g \in files : Kept(g)'
    BY <1>2, <2>1, <2>2 DEF FilesAreHeld, Kept, At, Holds
  <2> QED
    BY <1>2, <2>3, <2>4, <2>5 DEF FilesAreHeld
<1> QED
  BY <1>4, <1>5, <1>6, <1>7 DEF AvatarInv

\* The file of the avatar that was replaced, or is being removed, goes.
LEMMA DeleteKeepsAvatar ==
  ASSUME TypeInv, AvatarInv, NEW c \in Calls, AvatarDeletesOld(c) \/ RemovalDeletesFile(c)
  PROVE  AvatarInv'
<1> DEFINE old == calls[c].copy.avatar
<1>0. calls \in [Calls -> CallRecord] /\ calls[c] \in CallRecord
  BY DEF TypeInv, CallsInv
<1>1. /\ \A d \in Calls \ {c} : calls'[d] = calls[d]
      /\ user' = user /\ lost' = lost
      /\ \/ files' = files \ {old} /\ failed' = failed
         \/ files' = files /\ failed'
  BY <1>0 DEF AvatarDeletesOld, RemovalDeletesFile, DeletesFile, Return, Goto
<1>2. \/ /\ calls[c].pc = "delete_old" /\ calls'[c].pc = "idle"
         /\ calls'[c].file = Null /\ calls'[c].copy.avatar = Null
      \/ /\ calls[c].pc = "delete_file" /\ calls'[c].pc = "clear_avatar"
         /\ calls'[c].file = calls[c].file /\ calls'[c].copy = calls[c].copy
  <2>1. CASE AvatarDeletesOld(c)
    BY <2>1, ReturnHoldsNothing DEF AvatarDeletesOld, At
  <2>2. CASE RemovalDeletesFile(c)
    BY <2>2, GotoHoldsOn DEF RemovalDeletesFile, At
  <2> QED
    BY <2>1, <2>2
<1>3. CopiesAreThere'
  BY <1>1, <1>2 DEF AvatarInv, CopiesAreThere, Saving
<1>4. NewFilesAreFresh'
  <2>1. ASSUME NEW d \in Calls, At(d, "save_avatar")'
        PROVE  /\ calls'[d].file \in files' /\ calls'[d].file # user'.avatar
               /\ \A e \in Calls : calls'[e].copy.avatar # calls'[d].file
               /\ \A e \in Calls \ {d} : calls'[e].file # calls'[d].file
    <3>1. d # c /\ At(d, "save_avatar") /\ calls'[d] = calls[d]
      BY <1>1, <1>2, <2>1 DEF At
    <3>2. /\ calls[d].file \in files /\ calls[d].file # user.avatar
          /\ \A e \in Calls : calls[e].copy.avatar # calls[d].file
          /\ \A e \in Calls \ {d} : calls[e].file # calls[d].file
      BY <3>1 DEF AvatarInv, NewFilesAreFresh
    <3>3. calls[d].file # Null
      BY <3>2, AccountsAssumption DEF TypeInv, TypeOK
    <3> QED
      BY <1>1, <1>2, <3>1, <3>2, <3>3
  <2>2. ASSUME NEW d \in Calls, At(d, "clear_avatar")', ~failed' PROVE calls'[d].copy.avatar \notin files'
    <3>1. CASE d = c
      BY <1>1, <1>2, <2>2, <3>1 DEF At
    <3>2. CASE d # c
      BY <1>1, <2>2, <3>2 DEF At, AvatarInv, NewFilesAreFresh
    <3> QED
      BY <3>1, <3>2
  <2> QED
    BY <2>1, <2>2 DEF NewFilesAreFresh
<1>5. ~lost' => OldIsOld'
  BY <1>1, <1>2 DEF AvatarInv, OldIsOld, At
<1>6. ASSUME ~lost', ~failed' PROVE FilesAreHeld'
  <2>1. FilesAreHeld /\ OldIsOld
    BY <1>1, <1>6 DEF AvatarInv
  <2>2. AvatarIsThere'
    <3>1. CASE \E d \in Calls : At(d, "clear_avatar") /\ calls[d].copy.avatar = user.avatar
      BY <1>1, <1>2, <3>1 DEF AvatarIsThere, At
    <3>2. CASE user.avatar \in files \cup {Null, Photo}
      BY <1>1, <1>2, <1>6, <2>1, <3>2 DEF AvatarIsThere, At, OldIsOld
    <3> QED
      BY <2>1, <3>1, <3>2 DEF FilesAreHeld, AvatarIsThere
  <2>3. \A f \in files \ {old} : Kept(f)'
    BY <1>1, <1>2, <2>1 DEF FilesAreHeld, Kept, At
  <2> QED
    BY <1>1, <1>6, <2>2, <2>3 DEF FilesAreHeld
<1> QED
  BY <1>3, <1>4, <1>5, <1>6 DEF AvatarInv

\* What a save does to the avatar: one that is not lost was read as it is.
LEMMA SavesTheAvatar ==
  ASSUME TypeInv, NEW c \in Calls, NEW avatar \in Files \cup {Null, Photo}, Saves(c, avatar)
  PROVE  /\ user'.avatar = avatar /\ user'.state = calls[c].copy.state
         /\ lost => lost'
         /\ ~lost' => ~lost /\ calls[c].copy.avatar = user.avatar
<1>1. calls[c].copy \in UserType /\ user \in UserType
  BY DEF TypeInv, TypeOK, CallsInv, CallRecord
<1>2. user'.avatar = avatar /\ user'.state = calls[c].copy.state
  BY <1>1 DEF Saves, UserType
<1>3. [user EXCEPT !.password = Null].avatar = user.avatar
  BY <1>1 DEF UserType
<1> QED
  BY <1>2, <1>3 DEF Saves

LEMMA AvatarSaveKeepsAvatar ==
  ASSUME TypeInv, AvatarInv, NEW c \in Calls, AvatarSaves(c)
  PROVE  AvatarInv'
<1> DEFINE old == calls[c].copy.avatar
           new == calls[c].file
<1>0. /\ calls \in [Calls -> CallRecord] /\ calls[c] \in CallRecord
      /\ files \subseteq Files /\ Null \notin files
  BY AccountsAssumption DEF TypeInv, CallsInv, TypeOK
<1>1. /\ \A d \in Calls \ {c} : calls'[d] = calls[d]
      /\ files' = files /\ failed' = failed /\ calls[c].pc = "save_avatar"
      /\ \/ /\ old = Null /\ calls'[c].pc = "idle"
            /\ calls'[c].file = Null /\ calls'[c].copy.avatar = Null
         \/ /\ old # Null /\ calls'[c].pc = "delete_old"
            /\ calls'[c].file = new /\ calls'[c].copy = calls[c].copy
  <2>1. CASE old = Null
    BY <2>1, ReturnHoldsNothing DEF AvatarSaves, At, stores
  <2>2. CASE old # Null
    BY <2>2, GotoHoldsOn DEF AvatarSaves, At, stores
  <2> QED
    BY <2>1, <2>2
<1>2. /\ new \in files /\ new # user.avatar
      /\ \A d \in Calls : calls[d].copy.avatar # new
      /\ \A d \in Calls \ {c} : calls[d].file # new
      /\ calls[c].copy.state = "there"
  BY <1>1 DEF AvatarInv, NewFilesAreFresh, CopiesAreThere, At, Saving
<1>3. /\ user'.avatar = new /\ user'.state = "there"
      /\ ~lost' => ~lost /\ old = user.avatar
  BY <1>0, <1>2, SavesTheAvatar DEF AvatarSaves
<1>4. CopiesAreThere'
  BY <1>1, <1>2 DEF AvatarInv, CopiesAreThere, Saving
<1>5. NewFilesAreFresh'
  <2>1. ASSUME NEW d \in Calls, At(d, "save_avatar")'
        PROVE  /\ calls'[d].file \in files' /\ calls'[d].file # user'.avatar
               /\ \A e \in Calls : calls'[e].copy.avatar # calls'[d].file
               /\ \A e \in Calls \ {d} : calls'[e].file # calls'[d].file
    <3>1. d # c /\ At(d, "save_avatar") /\ calls'[d] = calls[d]
      BY <1>1, <2>1 DEF At
    <3>2. /\ calls[d].file \in files /\ calls[d].file # user.avatar
          /\ \A e \in Calls : calls[e].copy.avatar # calls[d].file
          /\ \A e \in Calls \ {d} : calls[e].file # calls[d].file
      BY <3>1 DEF AvatarInv, NewFilesAreFresh
    <3>3. calls'[c].copy.avatar # calls[d].file /\ calls'[c].file # calls[d].file /\ calls[d].file # new
      BY <1>0, <1>1, <3>1, <3>2
    <3> QED
      BY <1>1, <1>3, <3>1, <3>2, <3>3
  <2>2. ASSUME NEW d \in Calls, At(d, "clear_avatar")', ~failed' PROVE calls'[d].copy.avatar \notin files'
    BY <1>1, <2>2 DEF At, AvatarInv, NewFilesAreFresh
  <2> QED
    BY <2>1, <2>2 DEF NewFilesAreFresh
<1>6. ASSUME ~lost' PROVE OldIsOld'
  <2>1. OldIsOld
    BY <1>3, <1>6 DEF AvatarInv
  <2>2. ASSUME NEW d \in Calls, At(d, "delete_old")' PROVE calls'[d].copy.avatar \notin {Null, user'.avatar}
    BY <1>1, <1>2, <1>3, <2>1, <2>2 DEF OldIsOld, At
  <2> QED
    BY <1>3, <2>2 DEF OldIsOld
<1>7. ASSUME ~lost', ~failed' PROVE FilesAreHeld'
  <2>1. FilesAreHeld /\ old = user.avatar
    BY <1>1, <1>3, <1>7 DEF AvatarInv
  <2>2. ASSUME NEW f \in files PROVE Kept(f)'
    <3>1. CASE f = new
      BY <1>3, <3>1 DEF Kept
    <3>2. CASE f = old
      BY <1>0, <1>1, <3>2 DEF Kept, At
    <3>3. CASE f # new /\ f # old
      BY <1>1, <2>1, <3>3 DEF FilesAreHeld, Kept, At
    <3> QED
      BY <3>1, <3>2, <3>3
  <2> QED
    BY <1>1, <1>2, <1>3, <2>2 DEF FilesAreHeld, AvatarIsThere
<1> QED
  BY <1>4, <1>5, <1>6, <1>7 DEF AvatarInv

LEMMA RemovalKeepsAvatar ==
  ASSUME TypeInv, AvatarInv, NEW c \in Calls, RemovalSaves(c)
  PROVE  AvatarInv'
<1>0. /\ calls \in [Calls -> CallRecord] /\ calls[c] \in CallRecord
      /\ files \subseteq Files /\ Null \notin files
  BY AccountsAssumption DEF TypeInv, CallsInv, TypeOK
<1>1. /\ \A d \in Calls \ {c} : calls'[d] = calls[d]
      /\ files' = files /\ failed' = failed /\ calls[c].pc = "clear_avatar"
      /\ calls'[c].pc = "idle" /\ calls'[c].file = Null /\ calls'[c].copy.avatar = Null
  BY ReturnHoldsNothing DEF RemovalSaves, At, stores
<1>2. (~failed => calls[c].copy.avatar \notin files) /\ calls[c].copy.state = "there"
  BY <1>1 DEF AvatarInv, NewFilesAreFresh, CopiesAreThere, At, Saving
<1>3. /\ user'.avatar = Null /\ user'.state = "there"
      /\ ~lost' => ~lost /\ calls[c].copy.avatar = user.avatar
  BY <1>2, SavesTheAvatar DEF RemovalSaves
<1>4. CopiesAreThere'
  BY <1>1 DEF AvatarInv, CopiesAreThere, Saving
<1>5. NewFilesAreFresh'
  <2>1. ASSUME NEW d \in Calls, At(d, "save_avatar")'
        PROVE  /\ calls'[d].file \in files' /\ calls'[d].file # user'.avatar
               /\ \A e \in Calls : calls'[e].copy.avatar # calls'[d].file
               /\ \A e \in Calls \ {d} : calls'[e].file # calls'[d].file
    <3>1. d # c /\ At(d, "save_avatar") /\ calls'[d] = calls[d]
      BY <1>1, <2>1 DEF At
    <3>2. /\ calls[d].file \in files /\ calls[d].file # user.avatar
          /\ \A e \in Calls : calls[e].copy.avatar # calls[d].file
          /\ \A e \in Calls \ {d} : calls[e].file # calls[d].file
      BY <3>1 DEF AvatarInv, NewFilesAreFresh
    <3> QED
      BY <1>0, <1>1, <1>3, <3>1, <3>2
  <2>2. ASSUME NEW d \in Calls, At(d, "clear_avatar")', ~failed' PROVE calls'[d].copy.avatar \notin files'
    BY <1>1, <2>2 DEF At, AvatarInv, NewFilesAreFresh
  <2> QED
    BY <2>1, <2>2 DEF NewFilesAreFresh
<1>6. ~lost' => OldIsOld'
  BY <1>1, <1>3 DEF AvatarInv, OldIsOld, At
<1>7. ASSUME ~lost', ~failed' PROVE FilesAreHeld'
  <2>1. FilesAreHeld /\ user.avatar \notin files
    BY <1>1, <1>2, <1>3, <1>7 DEF AvatarInv
  <2>2. \A f \in files : Kept(f)'
    BY <1>1, <2>1 DEF FilesAreHeld, Kept, At
  <2> QED
    BY <1>1, <1>3, <2>2 DEF FilesAreHeld, AvatarIsThere
<1> QED
  BY <1>4, <1>5, <1>6, <1>7 DEF AvatarInv

\* A new user comes with a photo or without; nobody holds the row yet.
LEMMA OAuthKeepsAvatar ==
  ASSUME TypeInv, AvatarInv, NEW c \in Calls, OAuthCreates(c), user.state = "none"
  PROVE  AvatarInv'
<1>0. files \subseteq Files /\ Null \notin files /\ Photo \notin files
  BY AccountsAssumption DEF TypeInv, TypeOK
<1>1. /\ \A d \in Calls \ {c} : calls'[d] = calls[d]
      /\ calls[c].pc = "oauth_create" /\ calls'[c].pc = "session"
      /\ calls'[c].file = calls[c].file /\ calls'[c].copy = calls[c].copy
  BY GotoHoldsOn DEF OAuthCreates, At
<1>2. /\ UNCHANGED <<files, lost, failed>>
      /\ user'.state = "there" /\ user'.avatar \in {Null, Photo}
  BY DEF OAuthCreates, history, NoUser
<1>3. CopiesAreThere'
  BY <1>1 DEF AvatarInv, CopiesAreThere, Saving
<1>4. NewFilesAreFresh'
  BY <1>0, <1>1, <1>2 DEF AvatarInv, NewFilesAreFresh, At
<1>5. ~lost' => OldIsOld'
  BY <1>1, <1>2 DEF AvatarInv, OldIsOld, At
<1>6. ASSUME ~lost', ~failed' PROVE FilesAreHeld'
  <2>1. FilesAreHeld /\ OldIsOld
    BY <1>2, <1>6 DEF AvatarInv
  <2>2. \A f \in files : Kept(f)'
    BY <1>0, <1>1, <2>1 DEF FilesAreHeld, OldIsOld, Kept, At
  <2> QED
    BY <1>2, <2>2 DEF FilesAreHeld, AvatarIsThere
<1> QED
  BY <1>3, <1>4, <1>5, <1>6 DEF AvatarInv

LEMMA StepKeepsAvatar ==
  ASSUME TypeInv, AvatarInv, NEW c \in Calls, Step(c)
  PROVE  AvatarInv'
<1>0. user \in UserType /\ lost \in BOOLEAN /\ failed \in BOOLEAN
  BY DEF TypeInv, TypeOK
<1>1. CASE \E f \in Files : AvatarUploads(c, f)
  BY <1>1, UploadKeepsAvatar
<1>2. CASE AvatarDeletesOld(c) \/ RemovalDeletesFile(c)
  BY <1>2, DeleteKeepsAvatar
<1>3. CASE AvatarSaves(c)
  BY <1>3, AvatarSaveKeepsAvatar
<1>4. CASE RemovalSaves(c)
  BY <1>4, RemovalKeepsAvatar
<1>5. CASE OAuthCreates(c) /\ user.state = "none"
  BY <1>5, OAuthKeepsAvatar
<1>6. ASSUME ~OfAvatar(c), ~(OAuthCreates(c) /\ user.state = "none") PROVE AvatarInv'
  <2>1. /\ \A d \in Calls \ {c} : calls'[d] = calls[d]
        /\ calls'[c].pc \notin Saving
        /\ calls'[c].copy \in {calls[c].copy, NoUser}
        /\ calls'[c].file \in {calls[c].file, Null}
    BY <1>6, StepGoesOn
  <2>2. calls'[c].pc \notin Holds /\ calls'[c].copy.avatar \in {calls[c].copy.avatar, user.avatar, Null}
    BY <2>1 DEF Saving, Holds, NoUser
  <2>3. calls[c].pc \notin Holds \/ failed'
    BY <1>6
    DEF Step, OfAvatar, RegisterSaves, RegisterCreatesPreferences, MailsLink, DropsLinks, GeneratesLink,
        VerifyUpdates, ResetReadsUser, SetsPassword, MarksUsed, OpensSession, RefreshFinds,
        RevokesSessions, OAuthFindsUser, OAuthLinks, OAuthCreates, CreatesCode, ExchangeDeletes,
        ProfileSaves, CallFails, PreferencesCreated, PreferencesReturned, PreferencesSaved,
        NoticeQueued, At, Holds, Links
  <2>4. files' = files /\ (failed' = failed \/ failed' = TRUE)
    BY <1>6
    DEF Step, OfAvatar, RegisterSaves, RegisterCreatesPreferences, MailsLink, DropsLinks, GeneratesLink,
        VerifyUpdates, ResetReadsUser, SetsPassword, MarksUsed, OpensSession, RefreshFinds,
        RevokesSessions, OAuthFindsUser, OAuthLinks, OAuthCreates, CreatesCode, ExchangeDeletes,
        ProfileSaves, CallFails, PreferencesCreated, PreferencesReturned, PreferencesSaved,
        NoticeQueued, stores, history
  <2> DEFINE RowStays == /\ user'.avatar \in {user.avatar, calls[c].copy.avatar, Null}
                         /\ lost => lost'
                         /\ ~lost' => /\ user'.avatar = user.avatar
                                      /\ user'.state = "none" => user.state = "none"
  <2>5. ASSUME lost' = lost, user.state = "none", user'.avatar = Null, user'.state = "there" PROVE RowStays
    BY <2>5 DEF AvatarInv, OldIsOld
  <2>6. ASSUME lost' = lost, user'.avatar = user.avatar, user'.state = user.state PROVE RowStays
    BY <2>6
  <2>7. ASSUME RegisterSaves(c) PROVE RowStays
    <3>1. \/ user.state = "none" /\ user'.avatar = Null /\ user'.state = "there"
          \/ user' = user
      BY <2>7 DEF RegisterSaves, NoUser
    <3>2. lost' = lost
      BY <2>7 DEF RegisterSaves, history
    <3> HIDE DEF RowStays
    <3> QED
      BY <2>5, <2>6, <3>1, <3>2
  <2>8. ASSUME OAuthCreates(c) PROVE RowStays
    <3>1. user' = user /\ lost' = lost
      BY <1>6, <2>8 DEF OAuthCreates, history
    <3> QED
      BY <3>1
  <2>9. ASSUME VerifyUpdates(c) \/ SetsPassword(c) PROVE RowStays
    <3>1. user'.avatar = user.avatar /\ user'.state = user.state
      BY <1>0, <2>9 DEF VerifyUpdates, SetsPassword, UserType
    <3>2. lost' = lost
      BY <2>9 DEF VerifyUpdates, SetsPassword, history
    <3> QED
      BY <3>1, <3>2
  <2>10. ASSUME ProfileSaves(c) PROVE RowStays
    <3>1. calls[c].copy.state = "there" /\ calls[c].copy.avatar \in Files \cup {Null, Photo}
      BY <2>10 DEF ProfileSaves, At, AvatarInv, CopiesAreThere, Saving, TypeInv, CallsInv, CallRecord, UserType
    <3>2. /\ user'.avatar = calls[c].copy.avatar /\ user'.state = "there"
          /\ lost => lost'
          /\ ~lost' => calls[c].copy.avatar = user.avatar
      BY <2>10, <3>1, SavesTheAvatar DEF ProfileSaves
    <3> QED
      BY <3>2
  <2>11. ASSUME ~(RegisterSaves(c) \/ OAuthCreates(c) \/ VerifyUpdates(c) \/ SetsPassword(c) \/ ProfileSaves(c))
         PROVE  RowStays
    <3>1. user' = user /\ lost' = lost
      BY <1>6, <2>11
      DEF Step, OfAvatar, RegisterCreatesPreferences, MailsLink, DropsLinks, GeneratesLink,
          ResetReadsUser, MarksUsed, OpensSession, RefreshFinds, RevokesSessions, OAuthFindsUser,
          OAuthLinks, CreatesCode, ExchangeDeletes, CallFails, PreferencesCreated,
          PreferencesReturned, PreferencesSaved, NoticeQueued, history
    <3> QED
      BY <3>1
  <2> HIDE DEF RowStays
  <2>12. RowStays
    BY <2>7, <2>8, <2>9, <2>10, <2>11
  <2> USE DEF RowStays
  <2> QED
    BY <2>1, <2>2, <2>3, <2>4, <2>12, OthersKeepAvatar
<1> QED
  BY <1>1, <1>2, <1>3, <1>4, <1>6, <1>5 DEF OfAvatar

LEMMA NextKeepsAvatar == TypeInv /\ AvatarInv /\ [Next]_vars => AvatarInv'
<1> SUFFICES ASSUME TypeInv, AvatarInv, [Next]_vars PROVE AvatarInv'
  OBVIOUS
<1>0. user \in UserType
  BY DEF TypeInv, TypeOK
<1>1. CASE \E c \in Calls : Request(c)
  <2>1. PICK c \in Calls : Request(c)
    BY <1>1
  <2> DEFINE copy == [user EXCEPT !.password = Null]
  <2>2. /\ \A d \in Calls \ {c} : calls'[d] = calls[d]
        /\ calls[c].pc = "idle" /\ calls'[c].pc \notin Holds
        /\ calls'[c].file = Null
        /\ calls'[c].copy = NoUser \/ calls'[c].copy = copy
        /\ calls'[c].pc \in Saving => There /\ calls'[c].copy = copy
        /\ UNCHANGED <<user, files, lost, failed>>
    BY <2>1, RequestStarts DEF Holds
  <2>3. copy.avatar = user.avatar /\ (There => copy.state = "there") /\ NoUser.avatar = Null
    BY <1>0 DEF UserType, There, NoUser
  <2> HIDE DEF copy
  <2>4. /\ calls[c].pc \notin Holds
        /\ calls'[c].copy.avatar \in {calls[c].copy.avatar, user.avatar, Null}
        /\ calls'[c].pc \in Saving => calls'[c].copy.state = "there"
    BY <2>2, <2>3 DEF Holds
  <2> QED
    BY <2>2, <2>4, OthersKeepAvatar
<1>2. CASE \E c \in Calls : Step(c)
  BY <1>2, StepKeepsAvatar
<1>3. CASE AccountDeleted
  <2>1. user'.avatar = user.avatar /\ user'.state = "deleted"
    BY <1>0, <1>3 DEF AccountDeleted, UserType
  <2>2. UNCHANGED <<calls, files, lost, failed>>
    BY <1>3 DEF AccountDeleted, stores
  <2> QED
    BY <2>1, <2>2, WorldKeepsAvatar
<1>4. CASE \/ Tick \/ UNCHANGED vars
           \/ \E t \in TokenIds : TokenExpires(t) \/ CodeExpires(t) \/ Cleanup(t) \/ LetterSent(t) \/ LetterFails(t)
  <2>1. UNCHANGED <<calls, files, user, lost, failed>>
    BY <1>4 DEF Tick, TokenExpires, CodeExpires, Cleanup, LetterSent, LetterFails, vars, stores, history
  <2> QED
    BY <2>1, WorldKeepsAvatar
<1> QED
  BY <1>1, <1>2, <1>3, <1>4 DEF Next

LEMMA AvatarFollows == TypeInv /\ AvatarInv => AvatarIsKept
<1> SUFFICES ASSUME TypeInv, AvatarInv, Quiet, ~failed, ~lost PROVE files = {user.avatar} \ {Null, Photo}
  BY DEF AvatarIsKept
<1>1. \A c \in Calls : ~At(c, "save_avatar") /\ ~At(c, "delete_old") /\ ~At(c, "clear_avatar")
  BY DEF Quiet, At
<1>2. user.avatar \in files \cup {Null, Photo} /\ \A f \in files : f = user.avatar
  BY <1>1 DEF AvatarInv, FilesAreHeld, AvatarIsThere, Kept
<1>3. Null \notin files /\ Photo \notin files
  BY AccountsAssumption DEF TypeInv, TypeOK
<1> QED
  BY <1>2, <1>3

\* The user's avatar is a photo at its provider or has its file, and there is no
\* other file, when no request is in progress, however logins with a provider,
\* uploads, removals and profile updates overlapped, unless a save wrote an older
\* row back, a step threw or a file could not be deleted.
THEOREM AvatarStays == Spec => []AvatarIsKept
<1>1. Init => TypeInv /\ AvatarInv
  BY InitTypes, InitAvatar
<1>2. TypeInv /\ AvatarInv /\ [Next]_vars => (TypeInv /\ AvatarInv)'
  BY NextKeepsTypes, NextKeepsAvatar
<1> QED
  BY <1>1, <1>2, AvatarFollows, PTL DEF Spec

=============================================================================
