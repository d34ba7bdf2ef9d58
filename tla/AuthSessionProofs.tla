-------------------------- MODULE AuthSessionProofs --------------------------
(***************************************************************************)
(* Theorems about AuthSession: any number of calls, emails and seconds.    *)
(***************************************************************************)
EXTENDS AuthSession, FiniteSetTheorems, TLAPS

Busy(r) == pc[r] \notin {"idle", "ended"}

\* What a request has done, by where it is.
HandlingFits ==
  \A r \in Requests :
    /\ pc[r] = "idle" => reply[r] = "none"
    /\ pc[r] # "idle" => email[r] \in Emails
    /\ pc[r] = "mint" => call[r] \in {"login", "refresh"}
    /\ pc[r] \in {"close", "update"} => call[r] \in {"logout", "refresh"}

\* A row of sessions is its request's, and it descends from a login of the same email.
SessionFits ==
  \A q \in Requests :
    /\ session[q].active => session[q].user # NoEmail
    /\ session[q].user # NoEmail =>
         session[q].user = email[q] /\ pc[q] = "ended" /\ origin[q] # NoRequest
    /\ origin[q] # NoRequest =>
         /\ pc[q] # "idle"
         /\ email[origin[q]] = email[q] /\ session[origin[q]].user # NoEmail
    /\ call[q] = "refresh" /\ pc[q] \in {"mint", "close", "update", "insert"} =>
         origin[q] # NoRequest

IInv == TypeOK /\ HandlingFits /\ OneAccountPerEmail /\ SessionFits

\* Nothing is there at the start.
LEMMA InitHolds == Init => IInv
<1> SUFFICES ASSUME Init
             PROVE  IInv
  OBVIOUS
<1>1. TypeOK
  BY AuthAssumption
     DEF Init, TypeOK, Calls, PCs, Replies, Tokens, Shown, NoToken, Sessions, NoSession, Stamps,
         NoStamp, Seconds
<1>2. HandlingFits /\ OneAccountPerEmail /\ SessionFits
  BY DEF Init, HandlingFits, OneAccountPerEmail, SessionFits, NoSession
<1> QED
  BY <1>1, <1>2 DEF IInv

-----------------------------------------------------------------------------
(* The types.                                                              *)

\* What a client shows is a token.
LEMMA ShownTyped == \A stamp \in Stamps, second \in Seconds : Shown(stamp, second) \in Tokens
BY AuthAssumption DEF Shown, Tokens, Stamps, NoStamp, Seconds

\* A call keeps the types.
LEMMA CalledTypes ==
  ASSUME TypeOK, NEW r \in Requests, Called(r)
  PROVE  TypeOK'
<1>1. PICK c \in Calls, e \in Emails, t \in Tokens, label \in PCs :
        Arrive(r, c, e, t) /\ Goto(r, label)
  <2>1. CASE CallWithEmail(r)
    <3>1. NoToken \in Tokens
      BY ShownTyped, AuthAssumption DEF NoToken, NoStamp, Stamps, Seconds
    <3> QED
      BY <2>1, <3>1 DEF CallWithEmail, Calls, PCs
  <2>2. CASE CallWithCookies(r)
    <3>1. PICK p \in issued :
            \/ Arrive(r, "refresh", p.user, Shown(p.refresh, p.signed)) /\ Goto(r, "check")
            \/ Arrive(r, "me", p.user, Shown(p.access, p.signed)) /\ Goto(r, "find")
            \/ Arrive(r, "logout", p.user, Shown(p.refresh, p.signed)) /\ Goto(r, "close")
      BY <2>2 DEF CallWithCookies
    <3>2. /\ p.user \in Emails
          /\ Shown(p.refresh, p.signed) \in Tokens /\ Shown(p.access, p.signed) \in Tokens
      BY <3>1, ShownTyped DEF TypeOK, Cookies
    <3> QED
      BY <3>1, <3>2 DEF Calls, PCs
  <2> QED
    BY <2>1, <2>2 DEF Called
<1> QED
  BY <1>1 DEF Arrive, Goto, TypeOK, tables

\* What is read of the clock is a stamp of the past.
LEMMA ReadingsTyped ==
  ASSUME TypeOK, NEW r \in Requests, NEW s \in Readings(r)
  PROVE  s \in Stamps /\ s \in [exp : 0..now, iat : 0..now] /\ s.exp <= s.iat
<1>1. now \in Nat /\ now <= MaxTime /\ token[r].since \in Nat /\ MaxTime \in Nat
  <2>1. now \in Seconds /\ token[r].since \in Seconds
    BY DEF TypeOK, Tokens
  <2> QED
    BY <2>1, AuthAssumption DEF Seconds
<1>2. s \in [exp : token[r].since..now, iat : token[r].since..now] /\ s.exp <= s.iat
  BY DEF Readings
<1>3. token[r].since..now \subseteq 0..now /\ 0..now \subseteq Seconds
  BY <1>1 DEF Seconds
<1> QED
  BY <1>2, <1>3 DEF Stamps

\* What Forget, ToMint and Mint write is a token.
LEMMA TokenTyped ==
  ASSUME TypeOK, NEW r \in Requests,
         \/ UNCHANGED token \/ Forget(r) \/ Mint(r)
         \/ token' = [token EXCEPT ![r].since = now]
  PROVE  token' \in [Requests -> Tokens]
<1>1. CASE UNCHANGED token
  BY <1>1 DEF TypeOK
<1>2. CASE Forget(r)
  <2>1. NoToken \in Tokens
    BY ShownTyped, AuthAssumption DEF NoToken, NoStamp, Stamps, Seconds
  <2> QED
    BY <1>2, <2>1 DEF TypeOK, Forget
<1>3. CASE Mint(r)
  <2>1. PICK access \in Readings(r), refresh \in Readings(r) :
          token' = [token EXCEPT ![r].access = access, ![r].refresh = refresh]
    BY <1>3 DEF Mint
  <2>2. access \in Stamps /\ refresh \in Stamps
    BY ReadingsTyped
  <2> QED
    BY <2>1, <2>2 DEF TypeOK, Tokens
<1>4. CASE token' = [token EXCEPT ![r].since = now]
  BY <1>4 DEF TypeOK, Tokens
<1> QED
  BY <1>1, <1>2, <1>3, <1>4

\* The request ends or goes on.
Moves(r) ==
  \/ \E response \in Replies : End(r, response)
  \/ \E label \in PCs : Continue(r, label) \/ (Goto(r, label) /\ Mint(r) /\ UNCHANGED reply)
  \/ ToMint(r)

\* A step that moves a request and keeps the types of the tables keeps all types.
LEMMA MovedTypes ==
  ASSUME TypeOK, NEW r \in Requests, Moves(r), UNCHANGED <<now, call, email>>,
         user' \in [Requests -> Emails \cup {NoEmail}],
         session' \in [Requests -> Sessions], issued' \subseteq Cookies,
         origin' \in [Requests -> Requests \cup {NoRequest}]
  PROVE  TypeOK'
<1>1. pc' \in [Requests -> PCs]
  BY DEF Moves, End, Continue, ToMint, Goto, PCs, TypeOK
<1>2. reply' \in [Requests -> Replies]
  BY DEF Moves, End, Continue, ToMint, TypeOK
<1>3. \/ UNCHANGED token \/ Forget(r) \/ Mint(r)
      \/ token' = [token EXCEPT ![r].since = now]
  BY DEF Moves, End, Continue, ToMint
<1> QED
  BY <1>1, <1>2, <1>3, TokenTyped DEF TypeOK

\* A refusal is a response.
LEMMA RefusalTyped == \A r \in Requests : Refusal(r) \in Replies
BY DEF Refusal, Replies

\* What NewSession and Deactivate write are rows of sessions.
LEMMA SessionTyped ==
  ASSUME TypeOK, NEW r \in Requests, UNCHANGED session \/ NewSession(r) \/ Deactivate(r)
  PROVE  session' \in [Requests -> Sessions]
<1>1. CASE NewSession(r)
  BY <1>1 DEF TypeOK, NewSession, Sessions, Tokens
<1>2. CASE Deactivate(r)
  BY <1>2 DEF TypeOK, Deactivate, Sessions
<1> QED
  BY <1>1, <1>2 DEF TypeOK

\* Each step of a request keeps the types.
LEMMA RequestTypes ==
  ASSUME TypeOK, HandlingFits, NEW r \in Requests, Step(r) \/ Fail(r)
  PROVE  TypeOK'
<1> USE DEF PCs, Replies
<1>1. CASE \/ CheckRegister(r) \/ CheckLogin(r) \/ CheckRefresh(r) \/ CloseLookup(r)
           \/ MintTokens(r) \/ LogoutExpired(r) \/ FindCurrent(r) \/ DbError(r)
  <2>1. Moves(r)
    BY <1>1, RefusalTyped
       DEF Moves, CheckRegister, CheckLogin, CheckRefresh, MintTokens, CloseLookup, Closed,
           LogoutExpired, FindCurrent, DbError
  <2>2. UNCHANGED <<now, call, email, tables>>
    BY <1>1 DEF CheckRegister, CheckLogin, CheckRefresh, MintTokens, CloseLookup, LogoutExpired,
                FindCurrent, DbError
  <2> QED
    BY <2>1, <2>2, MovedTypes DEF tables, TypeOK
<1>2. CASE InsertUser(r) \/ InsertUserReplyLost(r)
  <2>1. Moves(r)
    BY <1>2, RefusalTyped DEF Moves, InsertUser, InsertUserReplyLost
  <2>2. user' \in [Requests -> Emails \cup {NoEmail}]
    BY <1>2 DEF InsertUser, InsertUserReplyLost, TypeOK
  <2>3. UNCHANGED <<now, call, email, session, issued, origin>>
    BY <1>2 DEF InsertUser, InsertUserReplyLost
  <2> QED
    BY <2>1, <2>2, <2>3, MovedTypes DEF TypeOK
<1>3. CASE InsertSession(r) \/ InsertReplyLost(r)
  <2>1. Moves(r)
    BY <1>3, RefusalTyped DEF Moves, InsertSession, InsertReplyLost
  <2>2. NewSession(r) /\ UNCHANGED <<now, call, email, user>>
    BY <1>3 DEF InsertSession, InsertReplyLost
  <2>3. email[r] \in Emails
    BY <1>3 DEF InsertSession, InsertReplyLost, HandlingFits
  <2>4. issued' \subseteq Cookies
    BY <1>3, <2>3 DEF InsertSession, InsertReplyLost, Issue, TypeOK, Cookies, Tokens
  <2>5. origin' \in [Requests -> Requests \cup {NoRequest}]
    BY <1>3 DEF InsertSession, InsertReplyLost, TypeOK
  <2> QED
    BY <2>1, <2>2, <2>4, <2>5, SessionTyped, MovedTypes DEF TypeOK
<1>4. CASE FindRefresh(r)
  <2>1. Moves(r)
    BY <1>4 DEF Moves, FindRefresh
  <2>2. origin' \in [Requests -> Requests \cup {NoRequest}]
    BY <1>4 DEF FindRefresh, Matching, TypeOK
  <2> QED
    BY <1>4, <2>1, <2>2, MovedTypes DEF FindRefresh, TypeOK
<1>5. CASE CloseUpdate(r) \/ UpdateReplyLost(r)
  <2>1. Moves(r)
    BY <1>5, RefusalTyped DEF Moves, CloseUpdate, Closed, UpdateReplyLost
  <2>2. UNCHANGED session \/ Deactivate(r)
    BY <1>5 DEF CloseUpdate, UpdateReplyLost
  <2> QED
    BY <1>5, <2>1, <2>2, SessionTyped, MovedTypes
       DEF CloseUpdate, UpdateReplyLost, TypeOK
<1>6. CASE Crash(r)
  <2>1. Forget(r) /\ Goto(r, "ended") /\ UNCHANGED <<now, call, email, reply, tables>>
    BY <1>6 DEF Crash
  <2>2. pc' \in [Requests -> PCs]
    BY <2>1 DEF Goto, TypeOK
  <2> QED
    BY <2>1, <2>2, TokenTyped DEF tables, TypeOK
<1> QED
  BY <1>1, <1>2, <1>3, <1>4, <1>5, <1>6 DEF Step, Fail

-----------------------------------------------------------------------------
(* What a step of a request does to itself, to the others and to sessions.  *)

\* It is under way, answers at most once, and leaves the others alone.
Alone(r) ==
  /\ Busy(r) /\ pc'[r] # "idle"
  /\ UNCHANGED <<now, call, email>>
  /\ \A q \in Requests \ {r} :
       /\ pc'[q] = pc[q] /\ reply'[q] = reply[q] /\ token'[q] = token[q]
       /\ user'[q] = user[q] /\ origin'[q] = origin[q]

\* It leaves the sessions as they are ...
Looks(r) ==
  /\ UNCHANGED <<session, origin>>
  /\ call[r] = "refresh" /\ pc'[r] \in {"mint", "close", "update", "insert"} =>
       /\ pc[r] \in {"mint", "close"} /\ pc'[r] # "mint"
       /\ token'[r].shown = token[r].shown
       /\ pc'[r] = "insert" => pc[r] = "close" /\ ~Single(r)

\* ... or finds the one to be refreshed ...
Finds(r) ==
  /\ call[r] = "refresh" /\ Live(r)
  /\ UNCHANGED session
  /\ \E q \in Matching(r) : origin' = [origin EXCEPT ![r] = origin[q]]
  /\ pc'[r] = "mint" /\ token'[r].shown = token[r].shown

\* ... or ends one ...
Ends(r) ==
  /\ pc[r] = "update" /\ Single(r)
  /\ Deactivate(r)
  /\ UNCHANGED origin
  /\ pc'[r] \in {"insert", "ended"} /\ (pc'[r] = "insert" => call[r] = "refresh")

\* ... or opens one.
Opens(r) ==
  /\ pc[r] = "insert" /\ call[r] \in {"login", "refresh"}
  /\ NewSession(r)
  /\ origin' = [origin EXCEPT ![r] = IF call[r] = "login" THEN r ELSE origin[r]]
  /\ pc'[r] = "ended"

\* A step is its request's own.
LEMMA StepIsAlone ==
  ASSUME TypeOK, NEW r \in Requests, Step(r) \/ Fail(r)
  PROVE  Alone(r)
<1> USE DEF TypeOK, Goto, End, Continue, ToMint, Forget, Mint, tables, Alone, Busy
<1>1. CASE CheckRegister(r)
  BY <1>1 DEF CheckRegister
<1>2. CASE CheckLogin(r)
  BY <1>2 DEF CheckLogin
<1>3. CASE CheckRefresh(r)
  BY <1>3 DEF CheckRefresh
<1>4. CASE InsertUser(r)
  BY <1>4 DEF InsertUser
<1>5. CASE InsertSession(r)
  BY <1>5 DEF InsertSession
<1>6. CASE FindRefresh(r)
  BY <1>6 DEF FindRefresh
<1>7. CASE CloseLookup(r)
  BY <1>7 DEF CloseLookup, Closed
<1>8. CASE LogoutExpired(r)
  BY <1>8 DEF LogoutExpired
<1>9. CASE CloseUpdate(r)
  BY <1>9 DEF CloseUpdate, Closed
<1>10. CASE FindCurrent(r)
  BY <1>10 DEF FindCurrent
<1>11. CASE DbError(r)
  BY <1>11 DEF DbError
<1>12. CASE InsertUserReplyLost(r)
  BY <1>12 DEF InsertUserReplyLost
<1>13. CASE InsertReplyLost(r)
  BY <1>13 DEF InsertReplyLost
<1>14. CASE UpdateReplyLost(r)
  BY <1>14 DEF UpdateReplyLost
<1>15. CASE Crash(r)
  BY <1>15 DEF Crash
<1>16. CASE MintTokens(r)
  BY <1>16 DEF MintTokens
<1> QED
  BY <1>1, <1>2, <1>3, <1>4, <1>5, <1>6, <1>7, <1>8, <1>9, <1>10, <1>11, <1>12, <1>13, <1>14,
     <1>15, <1>16 DEF Step, Fail

\* A step does one of four things to the sessions.
LEMMA StepShapes ==
  ASSUME TypeOK, HandlingFits, NEW r \in Requests, Step(r) \/ Fail(r)
  PROVE  Looks(r) \/ Finds(r) \/ Ends(r) \/ Opens(r)
<1> USE DEF TypeOK, Goto, End, Continue, ToMint
<1>1. CASE CheckRegister(r) \/ CheckLogin(r) \/ CheckRefresh(r)
  BY <1>1 DEF CheckRegister, CheckLogin, CheckRefresh, tables, Looks
<1>2. CASE InsertUser(r) \/ InsertUserReplyLost(r)
  BY <1>2 DEF InsertUser, InsertUserReplyLost, Looks
<1>3. CASE InsertSession(r) \/ InsertReplyLost(r)
  BY <1>3 DEF InsertSession, InsertReplyLost, Opens
<1>4. CASE FindRefresh(r)
  <2>1. CASE Live(r)
    BY <1>4, <2>1 DEF FindRefresh, Finds, Tokens
  <2>2. CASE ~Live(r)
    BY <1>4, <2>2 DEF FindRefresh, Looks
  <2> QED
    BY <2>1, <2>2
<1>5. CASE CloseLookup(r)
  BY <1>5 DEF CloseLookup, Closed, tables, Looks
<1>6. CASE LogoutExpired(r) \/ FindCurrent(r) \/ DbError(r) \/ Crash(r)
  BY <1>6 DEF LogoutExpired, FindCurrent, DbError, Crash, tables, Looks
<1>7. CASE CloseUpdate(r)
  <2>1. CASE Single(r)
    BY <1>7, <2>1 DEF CloseUpdate, Closed, Ends
  <2>2. CASE ~Single(r)
    BY <1>7, <2>2 DEF CloseUpdate, Looks
  <2> QED
    BY <2>1, <2>2
<1>8. CASE UpdateReplyLost(r)
  BY <1>8 DEF UpdateReplyLost, Ends
<1>9. CASE MintTokens(r)
  BY <1>9 DEF MintTokens, Mint, HandlingFits, tables, Looks
<1> QED
  BY <1>1, <1>2, <1>3, <1>4, <1>5, <1>6, <1>7, <1>8, <1>9 DEF Step, Fail

-----------------------------------------------------------------------------
(* The invariant of all users.                                             *)

\* A call is one of a request that was idle, and it touches no table.
LEMMA CallShape ==
  ASSUME TypeOK, HandlingFits, NEW r \in Requests, Called(r)
  PROVE  /\ pc[r] = "idle" /\ UNCHANGED <<reply, tables>>
         /\ pc'[r] \in {"check", "find", "close"}
         /\ pc'[r] = "close" => call'[r] = "logout"
         /\ email'[r] \in Emails
         /\ \A q \in Requests \ {r} :
              pc'[q] = pc[q] /\ call'[q] = call[q] /\ email'[q] = email[q] /\ token'[q] = token[q]
<1>1. CASE CallWithEmail(r)
  BY <1>1 DEF CallWithEmail, Arrive, Goto, TypeOK
<1>2. CASE CallWithCookies(r)
  <2>1. PICK p \in issued :
          \/ Arrive(r, "refresh", p.user, Shown(p.refresh, p.signed)) /\ Goto(r, "check")
          \/ Arrive(r, "me", p.user, Shown(p.access, p.signed)) /\ Goto(r, "find")
          \/ Arrive(r, "logout", p.user, Shown(p.refresh, p.signed)) /\ Goto(r, "close")
    BY <1>2 DEF CallWithCookies
  <2>2. p.user \in Emails
    BY <2>1 DEF TypeOK, Cookies
  <2> QED
    BY <2>1, <2>2 DEF Arrive, Goto, TypeOK
<1> QED
  BY <1>1, <1>2 DEF Called

\* A step of a request keeps the handlings in order.
LEMMA HandlingStep ==
  ASSUME TypeOK, HandlingFits, NEW r \in Requests, Step(r) \/ Fail(r)
  PROVE  HandlingFits'
<1>1. Alone(r)
  BY StepIsAlone
<1>2. /\ pc'[r] = "mint" => call[r] \in {"login", "refresh"}
      /\ pc'[r] \in {"close", "update"} => call[r] \in {"logout", "refresh"}
  BY StepShapes DEF Looks, Finds, Ends, Opens, Step, Fail, CheckRegister, CheckLogin,
     CheckRefresh, MintTokens, InsertUser, InsertSession, FindRefresh, CloseLookup, Closed,
     LogoutExpired, CloseUpdate, FindCurrent, DbError, InsertUserReplyLost,
     InsertReplyLost, UpdateReplyLost, Crash, End, Continue, ToMint, Goto, HandlingFits, TypeOK
<1> QED
  BY <1>1, <1>2 DEF Alone, Busy, HandlingFits, TypeOK

\* An account is made by the statement that knows whether the email is free, and only
\* its maker is told of success.
LEMMA AccountStep ==
  ASSUME TypeOK, HandlingFits, OneAccountPerEmail, NEW r \in Requests, Step(r) \/ Fail(r)
  PROVE  OneAccountPerEmail'
<1>1. Alone(r)
  BY StepIsAlone
<1>2. \/ UNCHANGED user
      \/ EmailIsFree(email[r]) /\ user' = [user EXCEPT ![r] = email[r]]
  BY DEF Step, Fail, CheckRegister, CheckLogin, CheckRefresh, InsertUser, InsertSession,
     FindRefresh, MintTokens, CloseLookup, LogoutExpired, CloseUpdate, FindCurrent, DbError,
     InsertUserReplyLost, InsertReplyLost, UpdateReplyLost, Crash, tables
<1>3. \A a, b \in Requests : user'[a] # NoEmail /\ user'[a] = user'[b] => a = b
  BY <1>2 DEF OneAccountPerEmail, EmailIsFree, Registered, TypeOK
<1>4. call[r] = "register" /\ reply'[r] = "ok" => user'[r] = email[r]
  <2> USE DEF End, Continue, ToMint, Goto, TypeOK, tables
  <2>1. ASSUME call[r] = "register", reply'[r] = "ok", UNCHANGED reply
        PROVE  user'[r] = email[r]
    BY <1>2, <2>1 DEF OneAccountPerEmail
  <2>2. ASSUME call[r] = "register", reply'[r] = "ok", ~UNCHANGED reply
        PROVE  InsertUser(r)
    <3>1. Refusal(r) = "error"
      BY <2>2 DEF Refusal
    <3>2. call[r] \notin {"login", "refresh", "logout", "me"}
      BY <2>2
    <3>3. pc[r] # "update"
      BY <3>2 DEF HandlingFits
    <3>4. ~(DbError(r) \/ InsertUserReplyLost(r) \/ UpdateReplyLost(r))
      BY <2>2, <3>1 DEF DbError, InsertUserReplyLost, UpdateReplyLost
    <3> QED
      BY <2>2, <3>2, <3>3, <3>4
         DEF Step, Fail, CheckRegister, CheckLogin, CheckRefresh, MintTokens, InsertSession,
             FindRefresh, CloseLookup, Closed, LogoutExpired, CloseUpdate, FindCurrent,
             InsertReplyLost, Crash
  <2>3. ASSUME InsertUser(r), reply'[r] = "ok"
        PROVE  user'[r] = email[r]
    BY <2>3 DEF InsertUser
  <2> QED
    BY <2>1, <2>2, <2>3
<1> QED
  BY <1>1, <1>3, <1>4 DEF Alone, OneAccountPerEmail

\* A step of a request keeps the rows of sessions in order.
LEMMA SessionStep ==
  ASSUME IInv, NEW r \in Requests, Step(r) \/ Fail(r)
  PROVE  SessionFits'
<1> USE DEF IInv
<1>1. Alone(r)
  BY StepIsAlone
<1>2. email[r] \in Emails /\ email[r] # NoEmail
  BY <1>1, AuthAssumption DEF Alone, Busy, HandlingFits
<1>3. session[r].user = NoEmail /\ session[r].active = FALSE
  BY <1>1 DEF Alone, Busy, SessionFits, TypeOK
<1>4. CASE Looks(r)
  BY <1>1, <1>3, <1>4 DEF Alone, Busy, Looks, SessionFits, TypeOK
<1>5. CASE Finds(r)
  <2>1. PICK q \in Matching(r) : origin' = [origin EXCEPT ![r] = origin[q]]
    BY <1>5 DEF Finds
  <2>2. q \in Requests /\ session[q].user = email[r]
    BY <2>1 DEF Matching, SameToken
  <2>3. origin[q] # NoRequest /\ email[origin[q]] = email[r] /\ session[origin[q]].user # NoEmail
    BY <1>2, <2>2 DEF SessionFits
  <2> QED
    BY <1>1, <1>3, <1>5, <2>1, <2>2, <2>3 DEF Alone, Busy, Finds, SessionFits, TypeOK
<1>6. CASE Ends(r)
  <2>1. \A q \in Requests : /\ session'[q].user = session[q].user
                            /\ session'[q].active => session[q].active
    BY <1>6 DEF Ends, Deactivate, TypeOK, Sessions
  <2> QED
    BY <1>1, <1>3, <1>6, <2>1 DEF Alone, Busy, Ends, SessionFits, TypeOK
<1>7. CASE Opens(r)
  <2>1. /\ session'[r].user = email[r]
        /\ \A q \in Requests \ {r} : session'[q] = session[q]
    BY <1>7 DEF Opens, NewSession, TypeOK
  <2>2. origin'[r] # NoRequest
    BY <1>7, AuthAssumption DEF Opens, SessionFits, TypeOK
  <2>3. email[origin'[r]] = email[r] /\ session'[origin'[r]].user # NoEmail
    BY <1>2, <1>7, <2>1, <2>2 DEF Opens, SessionFits, TypeOK
  <2>4. \A q \in Requests \ {r} : origin[q] # NoRequest => origin[q] # r
    BY <1>3 DEF SessionFits
  <2>5. \A q \in Requests \ {r} : origin[q] # NoRequest =>
          origin[q] \in Requests /\ session'[origin[q]].user = session[origin[q]].user
    BY <2>1, <2>4 DEF TypeOK
  <2> QED
    BY <1>1, <1>2, <1>7, <2>1, <2>2, <2>3, <2>5 DEF Alone, Busy, Opens, SessionFits
<1> QED
  BY <1>4, <1>5, <1>6, <1>7, StepShapes

\* Every step keeps the invariant.
LEMMA StepHolds == IInv /\ [Next]_vars => IInv'
<1> SUFFICES ASSUME IInv, [Next]_vars
             PROVE  IInv'
  OBVIOUS
<1> USE DEF IInv
<1>1. ASSUME NEW r \in Requests, Called(r)
      PROVE  IInv'
  <2>1. TypeOK'
    BY <1>1, CalledTypes
  <2>2. HandlingFits'
    BY <1>1, CallShape DEF HandlingFits
  <2>3. OneAccountPerEmail'
    BY <1>1, CallShape DEF HandlingFits, OneAccountPerEmail, tables
  <2>4. SessionFits'
    BY <1>1, CallShape DEF SessionFits, TypeOK, tables
  <2> QED
    BY <2>1, <2>2, <2>3, <2>4
<1>2. ASSUME NEW r \in Requests, Step(r) \/ Fail(r)
      PROVE  IInv'
  BY <1>2, RequestTypes, HandlingStep, AccountStep, SessionStep
<1>3. CASE Tick
  BY <1>3, AuthAssumption
     DEF Tick, handling, tables, TypeOK, Seconds, HandlingFits, OneAccountPerEmail, SessionFits
<1>4. CASE UNCHANGED vars
  BY <1>4 DEF vars, handling, tables, TypeOK, HandlingFits, OneAccountPerEmail, SessionFits
<1> QED
  BY <1>1, <1>2, <1>3, <1>4 DEF Next

\* What the theorems below rest on.
LEMMA Invariance == Spec => []IInv
<1> QED
  BY InitHolds, StepHolds, PTL DEF Spec

\* The variables of AuthSession keep their types.
THEOREM AuthTyping == Spec => []TypeOK
<1>1. IInv => TypeOK
  BY DEF IInv
<1> QED
  BY <1>1, Invariance, PTL

\* Of any number of registrations of an email, side by side and failing anywhere, one
\* makes the account (AuthService.register, User.email).
THEOREM EmailsAreUnique == Spec => []OneAccountPerEmail
<1>1. IInv => OneAccountPerEmail
  BY DEF IInv
<1> QED
  BY <1>1, Invariance, PTL

\* A session is ended by a request that presents its tokens, and by no other step
\* (SessionService.logout_from_session).
THEOREM SessionsEndByTheirTokens == Spec => OnlyOwnSessionEnds
<1> DEFINE Ended(q) == session[q].active /\ ~session'[q].active
           By(r, q) == /\ call[r] \in {"logout", "refresh"} /\ pc[r] = "update"
                       /\ email[r] = session[q].user /\ token[r].shown = session[q].refresh
<1>1. ASSUME IInv, [Next]_vars, NEW q \in Requests, Ended(q)
      PROVE  \E r \in Requests : By(r, q)
  <2>1. ~UNCHANGED session
    BY <1>1
  <2>2. PICK r \in Requests : Step(r) \/ Fail(r)
    BY <1>1, <2>1, CallShape DEF Next, IInv, Tick, tables, vars
  <2>3. Ends(r)
    <3>1. ~Looks(r) /\ ~Finds(r)
      BY <2>1 DEF Looks, Finds
    <3>2. ~Opens(r)
      BY <1>1 DEF Opens, NewSession, IInv, TypeOK
    <3> QED
      BY <1>1, <2>2, <3>1, <3>2, StepShapes DEF IInv
  <2>4. q \in Matching(r)
    BY <1>1, <2>3 DEF Ends, Deactivate, IInv, TypeOK, Sessions
  <2> QED
    BY <1>1, <2>3, <2>4 DEF Ends, Matching, SameToken, IInv, HandlingFits
<1>2. IInv /\ [Next]_vars =>
        [\A q \in Requests : Ended(q) => \E r \in Requests : By(r, q)]_vars
  BY <1>1
<1> QED
  BY <1>2, Invariance, PTL DEF Spec, OnlyOwnSessionEnds

-----------------------------------------------------------------------------
(* The invariant of users who wait.                                        *)

\* A user who waits has one request under way.
OneCallEach ==
  \A a, b \in Requests :
    Busy(a) /\ Busy(b) /\ email[a] = email[b] /\ email[a] \in Patient => a = b

\* A live session of the login that a refresh continues is the one it presents, until it
\* has ended it; then there is none.
Replaces(r) ==
  /\ pc[r] \in {"mint", "close", "update"} =>
       /\ Single(r)
       /\ \A s \in Requests : session[s].active /\ origin[s] = origin[r] => s \in Matching(r)
  /\ pc[r] = "insert" => \A s \in Requests : session[s].active => origin[s] # origin[r]

RefreshReplaces ==
  \A r \in Requests : call[r] = "refresh" /\ email[r] \in Patient => Replaces(r)

PatientInv == IInv /\ OneCallEach /\ OneLivePerLogin /\ RefreshReplaces

\* What is alike for a request before and after, stays so.
LEMMA SameReplaces ==
  ASSUME NEW r \in Requests, Replaces(r), email'[r] = email[r], token'[r] = token[r],
         pc'[r] = pc[r], origin'[r] = origin[r],
         \A s \in Requests : SameToken(s, email[r], token[r].shown)'
                              <=> SameToken(s, email[r], token[r].shown),
         \A s \in Requests : session'[s].active /\ origin'[s] = origin[r] =>
                              session[s].active /\ origin[s] = origin[r]
  PROVE  Replaces(r)'
<1>1. Matching(r)' = Matching(r)
  BY DEF Matching, SameToken
<1>2. Single(r)' <=> Single(r)
  BY <1>1 DEF Single
<1> QED
  BY <1>1, <1>2 DEF Replaces

\* A call keeps the invariant if its user waits.
LEMMA PatientCall ==
  ASSUME PatientInv, NEW r \in Requests, Called(r), email'[r] \in Patient => Free(email'[r])
  PROVE  OneCallEach' /\ OneLivePerLogin' /\ RefreshReplaces'
<1>1. /\ pc[r] = "idle" /\ UNCHANGED <<session, origin>>
      /\ pc'[r] \in {"check", "find", "close"} /\ (pc'[r] = "close" => call'[r] = "logout")
      /\ \A q \in Requests \ {r} :
           pc'[q] = pc[q] /\ call'[q] = call[q] /\ email'[q] = email[q] /\ token'[q] = token[q]
  BY CallShape DEF PatientInv, IInv, tables
<1>2. OneCallEach'
  BY <1>1 DEF PatientInv, OneCallEach, Busy, Free
<1>3. OneLivePerLogin'
  BY <1>1 DEF PatientInv, OneLivePerLogin
<1>4. RefreshReplaces'
  <2> SUFFICES ASSUME NEW q \in Requests, call'[q] = "refresh", email'[q] \in Patient
               PROVE  Replaces(q)'
    BY DEF RefreshReplaces
  <2>1. CASE q = r
    BY <1>1, <2>1 DEF Replaces
  <2>2. CASE q # r
    <3>1. Replaces(q)
      BY <1>1, <2>2 DEF PatientInv, RefreshReplaces
    <3>2. \A s \in Requests : SameToken(s, email[q], token[q].shown)'
                              <=> SameToken(s, email[q], token[q].shown)
      BY <1>1, <2>2 DEF SameToken
    <3> QED
      BY <1>1, <2>2, <3>1, <3>2, SameReplaces
  <2> QED
    BY <2>1, <2>2
<1> QED
  BY <1>2, <1>3, <1>4

\* A step leaves one live session for each login.
LEMMA LiveStep ==
  ASSUME PatientInv, NEW r \in Requests, Step(r) \/ Fail(r)
  PROVE  OneLivePerLogin'
<1> USE DEF PatientInv, IInv
<1>1. Alone(r)
  BY StepIsAlone
<1>2. ~session[r].active /\ session[r].user = NoEmail
  BY <1>1 DEF Alone, Busy, SessionFits
<1>3. CASE Looks(r)
  BY <1>3 DEF Looks, OneLivePerLogin
<1>4. CASE Finds(r)
  BY <1>1, <1>2, <1>4 DEF Alone, Finds, OneLivePerLogin
<1>5. CASE Ends(r)
  <2>1. \A q \in Requests : /\ session'[q].user = session[q].user
                            /\ session'[q].active => session[q].active
    BY <1>5 DEF Ends, Deactivate, TypeOK, Sessions
  <2> QED
    BY <1>5, <2>1 DEF Ends, OneLivePerLogin
<1>6. CASE Opens(r)
  <2>1. /\ session'[r].user = email[r]
        /\ \A q \in Requests \ {r} : session'[q] = session[q] /\ origin'[q] = origin[q]
    BY <1>1, <1>6 DEF Alone, Opens, NewSession, TypeOK
  <2>2. ASSUME email[r] \in Patient, NEW q \in Requests \ {r}, session[q].active
        PROVE  origin[q] # origin'[r]
    <3>1. CASE call[r] = "login"
      BY <1>2, <1>6, <2>2, <3>1 DEF Opens, SessionFits, TypeOK
    <3>2. CASE call[r] = "refresh"
      BY <1>6, <2>2, <3>2 DEF Opens, RefreshReplaces, Replaces, TypeOK
    <3> QED
      BY <1>6, <3>1, <3>2 DEF Opens
  <2>3. ASSUME NEW q \in Requests \ {r}, session[q].active, origin[q] = origin'[r]
        PROVE  session[q].user = email[r]
    <3>1. session[q].user = email[q] /\ origin[q] # NoRequest /\ email[origin[q]] = email[q]
      BY <2>3 DEF SessionFits
    <3>2. email[origin'[r]] = email[r]
      BY <1>6, <2>3, <3>1, AuthAssumption DEF Opens, SessionFits, TypeOK
    <3> QED
      BY <2>3, <3>1, <3>2
  <2> QED
    BY <2>1, <2>2, <2>3 DEF OneLivePerLogin
<1> QED
  BY <1>3, <1>4, <1>5, <1>6, StepShapes

\* A refresh keeps track of what it replaces.
LEMMA OwnReplaces ==
  ASSUME PatientInv, NEW r \in Requests, Step(r) \/ Fail(r),
         call[r] = "refresh", email[r] \in Patient
  PROVE  Replaces(r)'
<1> USE DEF PatientInv, IInv
<1>1. Alone(r) /\ Replaces(r)
  BY StepIsAlone DEF RefreshReplaces
<1>2. ~session[r].active /\ email[r] # NoEmail
  BY <1>1, AuthAssumption DEF Alone, Busy, SessionFits, HandlingFits
<1>3. ASSUME UNCHANGED <<email, session>>, token'[r].shown = token[r].shown
      PROVE  Matching(r)' = Matching(r) /\ (Single(r)' <=> Single(r))
  <2>1. Matching(r)' = Matching(r)
    BY <1>3 DEF Matching, SameToken
  <2> QED
    BY <2>1 DEF Single
<1>4. CASE Looks(r)
  BY <1>1, <1>3, <1>4 DEF Alone, Looks, Replaces
<1>5. CASE Finds(r)
  <2>1. PICK q \in Matching(r) : origin' = [origin EXCEPT ![r] = origin[q]]
    BY <1>5 DEF Finds
  <2>2. q \in Requests /\ session[q].active /\ session[q].user = email[r] /\ q # r
    BY <1>2, <1>5, <2>1 DEF Finds, Live, Matching, SameToken
  <2>3. ASSUME NEW s \in Requests, session[s].active, origin'[s] = origin'[r]
        PROVE  s \in Matching(r)
    <3>1. s # r /\ origin[s] = origin[q]
      BY <1>2, <2>1, <2>3 DEF TypeOK
    <3>2. s = q
      BY <2>2, <2>3, <3>1 DEF OneLivePerLogin
    <3> QED
      BY <2>1, <3>2
  <2> QED
    BY <1>1, <1>3, <1>5, <2>3 DEF Alone, Finds, Live, Replaces
<1>6. CASE Ends(r)
  BY <1>1, <1>6 DEF Ends, Deactivate, Replaces, TypeOK, Sessions
<1>7. CASE Opens(r)
  BY <1>7 DEF Opens, Replaces
<1> QED
  BY <1>4, <1>5, <1>6, <1>7, StepShapes

\* No other user's step meddles with it.
LEMMA OthersReplaces ==
  ASSUME PatientInv, NEW r \in Requests, Step(r) \/ Fail(r), NEW q \in Requests \ {r},
         call[q] = "refresh", email[q] \in Patient
  PROVE  Replaces(q)'
<1> USE DEF PatientInv, IInv
<1>1. Alone(r) /\ Replaces(q)
  BY StepIsAlone DEF RefreshReplaces
<1>2. CASE pc[q] \notin {"mint", "close", "update", "insert"}
  BY <1>1, <1>2 DEF Alone, Replaces
<1>3. CASE pc[q] \in {"mint", "close", "update", "insert"}
  <2>1. email[r] # email[q]
    BY <1>1, <1>3 DEF Alone, Busy, OneCallEach
  <2>2. session[r].user = NoEmail /\ ~session[r].active
    BY <1>1 DEF Alone, Busy, SessionFits
  <2>3. origin[q] # NoRequest /\ email[origin[q]] = email[q] /\ email[q] # NoEmail
    BY <1>3, AuthAssumption DEF SessionFits
  <2>4. \A s \in Requests : SameToken(s, email[q], token[q].shown)'
                            <=> SameToken(s, email[q], token[q].shown)
    <3>1. CASE Looks(r) \/ Finds(r)
      BY <1>1, <3>1 DEF Looks, Finds, Alone, SameToken
    <3>2. CASE Ends(r)
      BY <1>1, <3>2 DEF Ends, Deactivate, Alone, SameToken, TypeOK, Sessions
    <3>3. CASE Opens(r)
      BY <1>1, <2>1, <2>2, <2>3, <3>3 DEF Opens, NewSession, Alone, SameToken, TypeOK
    <3> QED
      BY <3>1, <3>2, <3>3, StepShapes
  <2>5. \A s \in Requests : session'[s].active /\ origin'[s] = origin[q] =>
                            session[s].active /\ origin[s] = origin[q]
    <3>1. CASE Looks(r)
      BY <3>1 DEF Looks
    <3>2. CASE Finds(r)
      BY <1>1, <2>2, <3>2 DEF Alone, Finds
    <3>3. CASE Ends(r)
      BY <3>3 DEF Ends, Deactivate, TypeOK, Sessions
    <3>4. CASE Opens(r)
      <4>1. origin'[r] # origin[q]
        BY <2>1, <2>3, <3>4 DEF Opens, SessionFits, TypeOK
      <4> QED
        BY <1>1, <3>4, <4>1 DEF Alone, Opens, NewSession, TypeOK
    <3> QED
      BY <3>1, <3>2, <3>3, <3>4, StepShapes
  <2> QED
    BY <1>1, <2>4, <2>5, SameReplaces DEF Alone
<1> QED
  BY <1>2, <1>3

\* Every step of patient users keeps the invariant.
LEMMA PatientStepHolds == PatientInv /\ [PatientNext]_vars => PatientInv'
<1> SUFFICES ASSUME PatientInv, [PatientNext]_vars
             PROVE  PatientInv'
  OBVIOUS
<1>1. IInv'
  BY StepHolds DEF PatientInv, PatientNext, Next
<1>2. ASSUME NEW r \in Requests, Called(r), email'[r] \in Patient => Free(email'[r])
      PROVE  PatientInv'
  BY <1>1, <1>2, PatientCall DEF PatientInv
<1>3. ASSUME NEW r \in Requests, Step(r) \/ Fail(r)
      PROVE  PatientInv'
  <2>1. Alone(r)
    BY <1>3, StepIsAlone DEF PatientInv, IInv
  <2>2. OneCallEach'
    BY <2>1 DEF PatientInv, OneCallEach, Alone, Busy
  <2>3. RefreshReplaces'
    BY <1>3, <2>1, OwnReplaces, OthersReplaces DEF RefreshReplaces, Alone
  <2> QED
    BY <1>1, <1>3, <2>2, <2>3, LiveStep DEF PatientInv
<1>4. CASE Tick \/ UNCHANGED vars
  <2>1. UNCHANGED <<handling, tables>>
    BY <1>4 DEF Tick, vars
  <2>2. OneCallEach' /\ OneLivePerLogin'
    BY <2>1 DEF PatientInv, handling, tables, OneCallEach, Busy, OneLivePerLogin
  <2>3. RefreshReplaces'
    BY <2>1, SameReplaces DEF PatientInv, handling, tables, RefreshReplaces, SameToken
  <2> QED
    BY <1>1, <2>2, <2>3 DEF PatientInv
<1> QED
  BY <1>2, <1>3, <1>4 DEF PatientNext

\* Patient users do what any users may do.
LEMMA PatientIsAuth == PatientSpec => Spec
<1>1. [PatientNext]_vars => [Next]_vars
  BY DEF PatientNext, Next
<1> QED
  BY <1>1, PTL DEF PatientSpec, Spec

\* So the theorems above are about them too, as the run of patient users shows them.
THEOREM PatientUsersToo ==
  PatientSpec => []TypeOK /\ []OneAccountPerEmail /\ OnlyOwnSessionEnds
BY PatientIsAuth, AuthTyping, EmailsAreUnique, SessionsEndByTheirTokens

\* Whatever the others do and whatever fails, a user who waits for answers has at most
\* one live session of each login (AuthService.refresh_session).
THEOREM RefreshNeverDoubles == PatientSpec => []OneLivePerLogin
<1>1. Init => PatientInv
  BY InitHolds
     DEF Init, PatientInv, OneCallEach, Busy, OneLivePerLogin, RefreshReplaces, NoSession
<1>2. PatientInv => OneLivePerLogin
  BY DEF PatientInv
<1> QED
  BY <1>1, <1>2, PatientStepHolds, PTL DEF PatientSpec
=============================================================================
