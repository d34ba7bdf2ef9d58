---------------------------- MODULE AuthSession ----------------------------
(***************************************************************************)
(* The /auth routes: AuthService, SessionService, JwtManager,              *)
(* get_current_user and the rows of users and sessions they share.         *)
(*                                                                         *)
(* A request creates at most one users row or one sessions row and names   *)
(* it.  Its steps are the statements it sends to Postgres; each commits    *)
(* alone or reads only.                                                    *)
(*                                                                         *)
(* A JWT holds the email, the type and two times cut to the second, exp    *)
(* and iat, each from a reading of the clock of its own, and nothing else: *)
(* two tokens of a type for an email whose readings fall in the same       *)
(* seconds are equal, and so are their hashes.  A stamp is the two seconds *)
(* that were read; exp is its first plus the life of the type.             *)
(***************************************************************************)
EXTENDS Naturals, FiniteSets

CONSTANTS
  Requests,     \* calls of the /auth routes
  Emails,
  Patient,      \* the emails of users who wait for each answer before the next call
  AccessLife,   \* ACCESS_TOKEN_EXPIRE_MINUTES
  RefreshLife,  \* REFRESH_TOKEN_EXPIRE_MINUTES
  MaxTime,      \* bound on the clock
  NoEmail,
  NoRequest

ASSUME AuthAssumption ==
  /\ IsFiniteSet(Requests)
  /\ NoEmail \notin Emails
  /\ Patient \subseteq Emails
  /\ NoRequest \notin Requests
  /\ AccessLife \in Nat /\ RefreshLife \in Nat /\ MaxTime \in Nat

VARIABLES
  now,      \* the clock, in seconds
  call,     \* request -> its route
  email,    \* request -> the email it gives, or its token's
  token,    \* request -> the stamp of the token it presents, the second of the signature
            \* of its cookie, and the stamps of the tokens it makes, with the second
            \* since when it is making them, until it ends
  pc,       \* request -> where its handling is
  reply,    \* request -> the response
  user,     \* users: row -> email, NoEmail for no row
  session,  \* sessions: row -> [user, access, refresh, active], a stamp for each hash
  issued,   \* the pairs of cookies that clients have received, the refresh token's signed
  origin    \* history: sessions row -> the login it descends from

\* The request's own part, and the tables.
handling == <<call, email, token, pc, reply>>
tables   == <<user, session, issued, origin>>
vars     == <<now, handling, tables>>

Calls == {"register", "login", "refresh", "logout", "me"}

PCs == {"idle", "check", "find", "mint", "close", "update", "insert", "ended"}

Replies == {"none", "ok", "notFound", "unauthorized", "error"}

Seconds == 0..MaxTime

Stamps == [exp : Seconds, iat : Seconds]

NoStamp == [exp |-> 0, iat |-> 0]

Tokens == [shown : Stamps, signed : Seconds, since : Seconds, access : Stamps, refresh : Stamps]

\* What a client shows: the stamp of a token, the second of the cookie's signature.
Shown(stamp, second) == [shown |-> stamp, signed |-> second, since |-> 0,
                         access |-> NoStamp, refresh |-> NoStamp]

NoToken == Shown(NoStamp, 0)

Sessions == [user : Emails \cup {NoEmail}, access : Stamps, refresh : Stamps, active : BOOLEAN]

NoSession == [user |-> NoEmail, access |-> NoStamp, refresh |-> NoStamp, active |-> FALSE]

Cookies == [user : Emails, access : Stamps, refresh : Stamps, signed : Seconds]

TypeOK ==
  /\ now \in Seconds
  /\ call \in [Requests -> Calls \cup {"none"}]
  /\ email \in [Requests -> Emails \cup {NoEmail}]
  /\ token \in [Requests -> Tokens]
  /\ pc \in [Requests -> PCs]
  /\ reply \in [Requests -> Replies]
  /\ user \in [Requests -> Emails \cup {NoEmail}]
  /\ session \in [Requests -> Sessions]
  /\ issued \subseteq Cookies
  /\ origin \in [Requests -> Requests \cup {NoRequest}]

Init ==
  /\ now = 0
  /\ call = [r \in Requests |-> "none"]
  /\ email = [r \in Requests |-> NoEmail]
  /\ token = [r \in Requests |-> NoToken]
  /\ pc = [r \in Requests |-> "idle"]
  /\ reply = [r \in Requests |-> "none"]
  /\ user = [r \in Requests |-> NoEmail]
  /\ session = [r \in Requests |-> NoSession]
  /\ issued = {}
  /\ origin = [r \in Requests |-> NoRequest]

-----------------------------------------------------------------------------
(* What the statements find.                                               *)

Registered(e) == \E q \in Requests : user[q] = e

\* WHERE refresh_token_hash = ...
SameToken(q, e, t) == session[q].user = e /\ session[q].refresh = t

Matching(r) == {q \in Requests : SameToken(q, email[r], token[r].shown)}

\* scalar_one, scalar_one_or_none: two rows are an error.
Single(r) == Cardinality(Matching(r)) = 1

\* MUTANT of Live: is_active is not looked at.
LiveOrNot(r) == Single(r)

Live(r) == Single(r) /\ \A q \in Matching(r) : session[q].active

\* WHERE access_token_hash = ...
Current(r) == {q \in Requests :
                 session[q].user = email[r] /\ session[q].access = token[r].shown}

CurrentLive(r) == Cardinality(Current(r)) = 1 /\ \A q \in Current(r) : session[q].active

\* jwt.decode compares exp.
AccessFresh(r)  == now < token[r].shown.exp + AccessLife
RefreshFresh(r) == now < token[r].shown.exp + RefreshLife

\* The cookie's max_age, all that logout looks at: the cookie is signed after the
\* token is made, and its last second counts.
CookieFresh(r) == now <= token[r].signed + RefreshLife

-----------------------------------------------------------------------------
(* Control.                                                                *)

Goto(r, label) == pc' = [pc EXCEPT ![r] = label]

\* What a handler knows goes with it.
Forget(r) == token' = [token EXCEPT ![r] = NoToken]

End(r, response) ==
  /\ Goto(r, "ended")
  /\ Forget(r)
  /\ reply' = [reply EXCEPT ![r] = response]

Continue(r, label) == Goto(r, label) /\ UNCHANGED <<token, reply>>

\* What a route answers when something inside raises: logout swallows.
Refusal(r) == CASE call[r] \in {"login", "register"} -> "error"
                [] call[r] \in {"refresh", "me"}     -> "unauthorized"
                [] OTHER                             -> "ok"

\* A client calls with an email, or with a cookie it was sent.
Arrive(r, c, e, t) ==
  /\ pc[r] = "idle"
  /\ call' = [call EXCEPT ![r] = c]
  /\ email' = [email EXCEPT ![r] = e]
  /\ token' = [token EXCEPT ![r] = t]
  /\ UNCHANGED <<now, reply, tables>>

CallWithEmail(r) ==
  \E c \in {"register", "login"}, e \in Emails : Arrive(r, c, e, NoToken) /\ Goto(r, "check")

CallWithCookies(r) == \E p \in issued :
  \/ Arrive(r, "refresh", p.user, Shown(p.refresh, p.signed)) /\ Goto(r, "check")
  \/ Arrive(r, "me", p.user, Shown(p.access, p.signed)) /\ Goto(r, "find")
  \/ Arrive(r, "logout", p.user, Shown(p.refresh, p.signed)) /\ Goto(r, "close")

-----------------------------------------------------------------------------
(* AuthService.register and login.                                         *)

\* SELECT by email; a second registration is turned away.
CheckRegister(r) ==
  /\ pc[r] = "check" /\ call[r] = "register"
  /\ \/ Registered(email[r]) /\ End(r, "error")
     \/ ~Registered(email[r]) /\ Continue(r, "insert")
  /\ UNCHANGED <<now, call, email, tables>>

\* The tokens are going to be made, from now on.
ToMint(r) ==
  /\ Goto(r, "mint")
  /\ token' = [token EXCEPT ![r].since = now]
  /\ UNCHANGED reply

\* What create_token may read, for exp and then for iat.
Readings(r) == {s \in [exp : token[r].since..now, iat : token[r].since..now] : s.exp <= s.iat}

\* MUTANT of Mint: the life of the type is added twice.
MintExpiry(r) ==
  \E s \in Readings(r) : token' = [token EXCEPT ![r].refresh.exp = s.exp + RefreshLife]

\* JwtManager.create_token, for an access and then for a refresh token.
Mint(r) ==
  \E access, refresh \in Readings(r) :
    /\ access.iat <= refresh.exp
    /\ token' = [token EXCEPT ![r].access = access, ![r].refresh = refresh]

\* Between two statements, login and refresh_session make the new tokens.
MintTokens(r) ==
  /\ pc[r] = "mint"
  /\ Mint(r)
  /\ Goto(r, IF call[r] = "login" THEN "insert" ELSE "close")
  /\ UNCHANGED <<now, call, email, reply, tables>>

\* SELECT by email, then the password: a wrong one is an error like any other.
CheckLogin(r) ==
  /\ pc[r] = "check" /\ call[r] = "login"
  /\ \/ ~Registered(email[r]) /\ End(r, "notFound")
     \/ Registered(email[r]) /\ End(r, "error")
     \/ Registered(email[r]) /\ ToMint(r)
  /\ UNCHANGED <<now, call, email, tables>>

\* MUTANT of EmailIsFree: users.email is not unique.
EmailIsAlwaysFree(e) == TRUE

EmailIsFree(e) == ~Registered(e)

\* INSERT INTO users and COMMIT: the unique index on email has the last word.
InsertUser(r) ==
  /\ pc[r] = "insert" /\ call[r] = "register"
  /\ \/ EmailIsFree(email[r]) /\ user' = [user EXCEPT ![r] = email[r]] /\ End(r, "ok")
     \/ ~EmailIsFree(email[r]) /\ End(r, "error") /\ UNCHANGED user
  /\ UNCHANGED <<now, call, email, session, issued, origin>>

-----------------------------------------------------------------------------
(* SessionService and AuthService.refresh_session.                         *)

\* create_session: INSERT INTO sessions and COMMIT.
NewSession(r) ==
  session' = [session EXCEPT ![r] =
                [user |-> email[r], access |-> token[r].access, refresh |-> token[r].refresh,
                 active |-> TRUE]]

\* rt_cookie_options and at_cookie_options: the tokens go out signed with the time.
Issue(r) ==
  issued' = issued \cup {[user |-> email[r], access |-> token[r].access,
                          refresh |-> token[r].refresh, signed |-> now]}

InsertSession(r) ==
  /\ pc[r] = "insert" /\ call[r] \in {"login", "refresh"}
  /\ NewSession(r)
  /\ origin' = [origin EXCEPT ![r] = IF call[r] = "login" THEN r ELSE origin[r]]
  /\ Issue(r)
  /\ End(r, "ok")
  /\ UNCHANGED <<now, call, email, user>>

\* validate_rt_cookie, verify_token and the SELECT by email.
CheckRefresh(r) ==
  /\ pc[r] = "check" /\ call[r] = "refresh"
  /\ \/ RefreshFresh(r) /\ Continue(r, "find")
     \/ ~RefreshFresh(r) /\ End(r, "unauthorized")
  /\ UNCHANGED <<now, call, email, tables>>

\* get_session_by_rt_hash: the session is active, for now.
FindRefresh(r) ==
  /\ pc[r] = "find" /\ call[r] = "refresh"
  /\ \/ /\ Live(r)
        /\ \E q \in Matching(r) : origin' = [origin EXCEPT ![r] = origin[q]]
        /\ ToMint(r)
     \/ ~Live(r) /\ End(r, "unauthorized") /\ UNCHANGED origin
  /\ UNCHANGED <<now, call, email, user, session, issued>>

\* After logout_from_session, whether it has done anything or not.
Closed(r) ==
  \/ call[r] = "logout" /\ End(r, "ok")
  \/ call[r] = "refresh" /\ Continue(r, "insert")

\* logout_from_session reads the session again; none or two rows raise, and the
\* exception is swallowed.
CloseLookup(r) ==
  /\ pc[r] = "close" /\ (call[r] = "logout" => CookieFresh(r))
  /\ \/ Single(r) /\ Continue(r, "update")
     \/ ~Single(r) /\ Closed(r)
  /\ UNCHANGED <<now, call, email, tables>>

\* The cookie is too old for logout: the route answers 500.
LogoutExpired(r) ==
  /\ pc[r] = "close" /\ call[r] = "logout" /\ ~CookieFresh(r)
  /\ End(r, "error")
  /\ UNCHANGED <<now, call, email, tables>>

\* MUTANT of Deactivate: UPDATE ... WHERE user_id = ...
DeactivateUser(r) ==
  session' = [q \in Requests |-> [session[q] EXCEPT
                !.active = @ /\ session[q].user # email[r]]]

\* MUTANT of Deactivate: is_active is not among the columns written.
DeactivateNone(r) == UNCHANGED session

\* UPDATE ... SET is_active = FALSE WHERE refresh_token_hash = ...
Deactivate(r) ==
  session' = [q \in Requests |->
                [session[q] EXCEPT !.active = @ /\ q \notin Matching(r)]]

\* The UPDATE writes the primary key too: two rows cannot both take it, and the
\* transaction is lost, for refresh with all that follows.
CloseUpdate(r) ==
  /\ pc[r] = "update"
  /\ \/ Single(r) /\ Deactivate(r) /\ Closed(r)
     \/ ~Single(r) /\ End(r, Refusal(r)) /\ UNCHANGED session
  /\ UNCHANGED <<now, call, email, user, issued, origin>>

\* get_current_user: SELECT by access_token_hash, then the user.
FindCurrent(r) ==
  /\ pc[r] = "find" /\ call[r] = "me"
  /\ \/ CurrentLive(r) /\ AccessFresh(r) /\ End(r, "ok")
     \/ ~(CurrentLive(r) /\ AccessFresh(r)) /\ End(r, "unauthorized")
  /\ UNCHANGED <<now, call, email, tables>>

-----------------------------------------------------------------------------
(* Failures.                                                               *)

\* A statement raises, and nothing of it is done.
DbError(r) ==
  /\ pc[r] \in {"check", "find", "close", "update", "insert"}
  /\ End(r, Refusal(r))
  /\ UNCHANGED <<now, call, email, tables>>

\* The COMMIT of the INSERT INTO users is done, but the reply is lost.
InsertUserReplyLost(r) ==
  /\ pc[r] = "insert" /\ call[r] = "register"
  /\ EmailIsFree(email[r]) /\ user' = [user EXCEPT ![r] = email[r]]
  /\ End(r, Refusal(r))
  /\ UNCHANGED <<now, call, email, session, issued, origin>>

\* The same of the INSERT INTO sessions: the client never gets the tokens.
InsertReplyLost(r) ==
  /\ pc[r] = "insert" /\ call[r] \in {"login", "refresh"}
  /\ NewSession(r)
  /\ origin' = [origin EXCEPT ![r] = IF call[r] = "login" THEN r ELSE origin[r]]
  /\ End(r, Refusal(r))
  /\ UNCHANGED <<now, call, email, user, issued>>

\* The COMMIT of the UPDATE is done, but the reply is lost.  logout_from_session
\* swallows the error, but refresh can do nothing more with its transaction.
UpdateReplyLost(r) ==
  /\ pc[r] = "update"
  /\ Single(r)
  /\ Deactivate(r)
  /\ End(r, Refusal(r))
  /\ UNCHANGED <<now, call, email, user, issued, origin>>

Crash(r) ==
  /\ pc[r] \notin {"idle", "ended"}
  /\ Goto(r, "ended")
  /\ Forget(r)
  /\ UNCHANGED <<now, call, email, reply, tables>>

Tick ==
  /\ now < MaxTime
  /\ now' = now + 1
  /\ UNCHANGED <<handling, tables>>

-----------------------------------------------------------------------------

Step(r) ==
  \/ CheckRegister(r) \/ CheckLogin(r) \/ CheckRefresh(r) \/ MintTokens(r)
  \/ InsertUser(r) \/ InsertSession(r) \/ FindRefresh(r) \/ CloseLookup(r) \/ LogoutExpired(r)
  \/ CloseUpdate(r) \/ FindCurrent(r)

Fail(r) ==
  \/ DbError(r) \/ InsertUserReplyLost(r) \/ InsertReplyLost(r)
  \/ UpdateReplyLost(r) \/ Crash(r)

Called(r) == CallWithEmail(r) \/ CallWithCookies(r)

Next ==
  \/ \E r \in Requests : Called(r) \/ Step(r) \/ Fail(r)
  \/ Tick

Spec == Init /\ [][Next]_vars

\* Nothing that concerns the email is under way.
Free(e) == \A q \in Requests : email[q] = e => pc[q] \in {"idle", "ended"}

\* Some users send calls side by side, as those of Next do, and some never do.
PatientNext ==
  \/ \E r \in Requests :
       \/ Called(r) /\ (email'[r] \in Patient => Free(email'[r]))
       \/ Step(r) \/ Fail(r)
  \/ Tick

PatientSpec == Init /\ [][PatientNext]_vars

-----------------------------------------------------------------------------
(* Refinement.                                                             *)

Accounts == INSTANCE AccountLedger WITH
  Rows <- Requests,
  Careful <- Patient,
  Nobody <- NoRequest,
  time <- now,
  account <- user,
  login <- origin,
  sent <- issued

\* Whatever the statements of the routes run into, each is a step of the ledger of accounts
\* or nothing to it: nobody gets a session without an account, a refresh continues what it
\* found live and replaces it, and tokens that never left the server do nothing.
AccountsKept == Accounts!Spec

-----------------------------------------------------------------------------
(* Properties.                                                             *)

\* Two registrations of one email that both find it free make one account: the
\* check of register is a read that the INSERT does not rely on, and whoever is
\* told of success has the account.
OneAccountPerEmail ==
  /\ \A a, b \in Requests : user[a] # NoEmail /\ user[a] = user[b] => a = b
  /\ \A r \in Requests : call[r] = "register" /\ reply[r] = "ok" => user[r] = email[r]

\* A session is ended only by a request that presents its own tokens, be it with
\* two sessions of one second, two devices or a refresh that overlaps a logout.
OnlyOwnSessionEnds ==
  [][\A q \in Requests : session[q].active /\ ~session'[q].active =>
       \E r \in Requests :
         /\ call[r] \in {"logout", "refresh"} /\ pc[r] = "update"
         /\ email[r] = session[q].user /\ token[r].shown = session[q].refresh]_vars

\* For a user who waits for answers, whatever the others do, refresh_session moves a session
\* and never doubles it, whatever fails between closing the old one and opening the
\* new one: a login has at most one live session.
OneLivePerLogin ==
  \A a, b \in Requests :
    /\ session[a].user \in Patient
    /\ session[a].active /\ session[b].active
    /\ origin[a] = origin[b]
    => a = b

\* get_one_or_none retrieves "a single record or `None` if non-existant"
\* (base_repository.py:114): get_current_user never meets two.
SingleOrNone ==
  [][\A r \in Requests : FindCurrent(r) => Cardinality(Current(r)) <= 1]_vars
=============================================================================
