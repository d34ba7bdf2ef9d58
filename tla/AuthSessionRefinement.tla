----------------------- MODULE AuthSessionRefinement -----------------------
(***************************************************************************)
(* Proof that module AuthSession implements module AccountLedger: whatever *)
(* the statements of the /auth routes run into, accounts are made one for  *)
(* an email, and sessions are opened, continued and ended by the book.     *)
(***************************************************************************)
EXTENDS AuthSessionProofs

\* Tokens are of the past, and what a request presents a client has received.
TokensFit ==
  \A r \in Requests :
    /\ Accounts!InOrder(token[r].access, token[r].refresh)
    /\ /\ call[r] \in {"refresh", "logout"}
       /\ pc[r] \in {"check", "find", "mint", "close", "update"}
       =>
         \E p \in issued : p.user = email[r] /\ p.refresh = token[r].shown

\* A request makes its account last, and a login or a session has an account behind it.
AccountsFit ==
  \A r \in Requests :
    /\ user[r] # NoEmail => pc[r] = "ended"
    /\ call[r] = "login" /\ pc[r] \in {"mint", "insert"} => Registered(email[r])
    /\ session[r].user # NoEmail => Registered(session[r].user)

\* Only a refresh, once it has found its session, has an origin before its own session.
ClaimsFit ==
  \A r \in Requests :
    session[r].user = NoEmail /\ origin[r] # NoRequest =>
      call[r] = "refresh" /\ pc[r] \in {"mint", "close", "update", "insert", "ended"}

RefinementInv == PatientInv /\ TokensFit /\ AccountsFit /\ ClaimsFit

-----------------------------------------------------------------------------
(* The invariant.                                                          *)

\* The clock and the stamps of tokens are naturals.
LEMMA TimesAreNaturals ==
  ASSUME TypeOK
  PROVE  /\ now \in Nat
         /\ \A r \in Requests : /\ token[r].access \in [exp : Nat, iat : Nat]
                               /\ token[r].refresh \in [exp : Nat, iat : Nat]
<1>1. Seconds \subseteq Nat
  BY AuthAssumption DEF Seconds
<1>2. now \in Seconds
  BY DEF TypeOK
<1>3. \A r \in Requests : token[r].access \in Stamps /\ token[r].refresh \in Stamps
  BY DEF TypeOK, Tokens
<1> QED
  BY <1>1, <1>2, <1>3 DEF Stamps

\* What a step does to the tokens, the accounts and the sent tokens.
LEMMA StepTables ==
  ASSUME TypeOK, HandlingFits, NEW r \in Requests, Step(r) \/ Fail(r)
  PROVE  /\ \/ pc'[r] = "ended" /\ Forget(r)
            \/ UNCHANGED token
            \/ token' = [token EXCEPT ![r].since = now]
            \/ Mint(r)
         /\ \/ UNCHANGED user
            \/ /\ pc[r] = "insert" /\ pc'[r] = "ended"
               /\ user' = [user EXCEPT ![r] = email[r]]
         /\ UNCHANGED issued \/ Issue(r)
<1> USE DEF TypeOK, Goto, End, Continue, ToMint, tables
<1>1. CASE CheckRegister(r) \/ CheckLogin(r) \/ CheckRefresh(r) \/ FindRefresh(r)
  BY <1>1 DEF CheckRegister, CheckLogin, CheckRefresh, FindRefresh
<1>2. CASE InsertUser(r) \/ InsertUserReplyLost(r)
  BY <1>2 DEF InsertUser, InsertUserReplyLost
<1>3. CASE InsertSession(r) \/ InsertReplyLost(r)
  BY <1>3 DEF InsertSession, InsertReplyLost
<1>4. CASE CloseLookup(r) \/ CloseUpdate(r) \/ UpdateReplyLost(r)
  BY <1>4 DEF CloseLookup, CloseUpdate, UpdateReplyLost, Closed
<1>5. CASE MintTokens(r) \/ LogoutExpired(r) \/ FindCurrent(r) \/ DbError(r) \/ Crash(r)
  BY <1>5 DEF MintTokens, LogoutExpired, FindCurrent, DbError, Crash
<1> QED
  BY <1>1, <1>2, <1>3, <1>4, <1>5 DEF Step, Fail

\* A call is of the present and with tokens that were sent.
LEMMA CallKeeps ==
  ASSUME RefinementInv, NEW r \in Requests, Called(r)
  PROVE  /\ TokensFit' /\ AccountsFit' /\ ClaimsFit'
         /\ UNCHANGED <<now, tables>>
<1> USE DEF RefinementInv, PatientInv, IInv
<1>1. /\ pc[r] = "idle" /\ pc'[r] \notin {"mint", "insert"} /\ UNCHANGED tables
      /\ \A q \in Requests \ {r} :
           pc'[q] = pc[q] /\ call'[q] = call[q] /\ email'[q] = email[q] /\ token'[q] = token[q]
  BY CallShape
<1>2. /\ UNCHANGED now /\ token'[r].access = NoStamp /\ token'[r].refresh = NoStamp
      /\ call'[r] \in {"refresh", "logout"} =>
           \E p \in issued : p.user = email'[r] /\ p.refresh = token'[r].shown
  <2>1. CASE CallWithEmail(r)
    BY <2>1 DEF CallWithEmail, Arrive, NoToken, Shown, TypeOK
  <2>2. CASE CallWithCookies(r)
    BY <2>2 DEF CallWithCookies, Arrive, Shown, TypeOK
  <2> QED
    BY <2>1, <2>2 DEF Called
<1>3. TokensFit'
  <2>1. UNCHANGED issued /\ 0 <= now
    BY <1>1, TimesAreNaturals DEF tables
  <2>2. Accounts!InOrder(NoStamp, NoStamp)
    BY <2>1 DEF NoStamp, Accounts!InOrder
  <2>3. ASSUME NEW q \in Requests
        PROVE  Accounts!InOrder(token'[q].access, token'[q].refresh)
    BY <1>1, <1>2, <2>2 DEF TokensFit
  <2>4. Accounts!InOrder(token[r].access, token[r].refresh)' <=>
          Accounts!InOrder(token'[r].access, token'[r].refresh)
    BY <1>2 DEF Accounts!InOrder
  <2> QED
    BY <1>1, <1>2, <2>1, <2>3 DEF TokensFit, Accounts!InOrder
<1>4. AccountsFit'
  BY <1>1 DEF AccountsFit, Registered, TypeOK, tables
<1>5. ClaimsFit'
  BY <1>1 DEF ClaimsFit, SessionFits, tables
<1> QED
  BY <1>1, <1>2, <1>3, <1>4, <1>5

\* A step makes tokens of its second and uses those it came with.
LEMMA TokensStep ==
  ASSUME RefinementInv, NEW r \in Requests, Step(r) \/ Fail(r)
  PROVE  TokensFit'
<1> USE DEF RefinementInv, PatientInv, IInv
<1>1. Alone(r)
  BY StepIsAlone
<1>2. issued \subseteq issued'
  BY StepTables DEF Issue
<1>3. Accounts!InOrder(token'[r].access, token'[r].refresh)
  <2>1. CASE Mint(r)
    <3>1. PICK access \in Readings(r), refresh \in Readings(r) :
            /\ access.iat <= refresh.exp
            /\ token' = [token EXCEPT ![r].access = access, ![r].refresh = refresh]
      BY <2>1 DEF Mint
    <3>2. /\ access.exp <= access.iat /\ refresh.exp <= refresh.iat
          /\ refresh \in [exp : 0..now, iat : 0..now]
      BY ReadingsTyped
    <3>3. refresh.iat <= now
      BY <3>2, TimesAreNaturals
    <3>4. token'[r].access = access /\ token'[r].refresh = refresh
      BY <3>1 DEF TypeOK, Tokens
    <3> QED
      BY <3>1, <3>2, <3>3, <3>4 DEF Accounts!InOrder
  <2>2. CASE Forget(r)
    BY <2>2, TimesAreNaturals DEF Forget, NoToken, Shown, NoStamp, TypeOK, Accounts!InOrder
  <2>3. CASE UNCHANGED token \/ token' = [token EXCEPT ![r].since = now]
    <3>1. token'[r].access = token[r].access /\ token'[r].refresh = token[r].refresh
      BY <2>3 DEF TypeOK, Tokens
    <3> QED
      BY <3>1 DEF TokensFit
  <2> QED
    BY <2>1, <2>2, <2>3, StepTables
<1>4. ASSUME call[r] \in {"refresh", "logout"},
             pc'[r] \in {"check", "find", "mint", "close", "update"}
      PROVE  \E p \in issued : p.user = email[r] /\ p.refresh = token'[r].shown
  <2>1. token'[r].shown = token[r].shown
    <3>1. CASE Mint(r)
      <4>1. PICK access \in Readings(r), refresh \in Readings(r) :
              token' = [token EXCEPT ![r].access = access, ![r].refresh = refresh]
        BY <3>1 DEF Mint
      <4> QED
        BY <4>1 DEF TypeOK, Tokens
    <3>2. CASE UNCHANGED token \/ token' = [token EXCEPT ![r].since = now]
      BY <3>2 DEF TypeOK, Tokens
    <3> QED
      BY <1>4, <3>1, <3>2, StepTables
  <2>2. pc[r] \in {"check", "find", "mint", "close", "update"}
    BY <1>4, StepShapes, <1>1
       DEF Alone, Busy, TypeOK, PCs, Step, Fail, CheckRegister, CheckLogin, CheckRefresh,
           MintTokens, InsertUser, InsertSession, FindRefresh, CloseLookup, LogoutExpired,
           CloseUpdate, FindCurrent, DbError, InsertUserReplyLost, InsertReplyLost, UpdateReplyLost, Crash,
           End, Goto
  <2> QED
    BY <1>4, <2>1, <2>2 DEF TokensFit
<1>5. ASSUME NEW q \in Requests
      PROVE  /\ Accounts!InOrder(token'[q].access, token'[q].refresh)
             /\ call[q] \in {"refresh", "logout"} /\
                pc'[q] \in {"check", "find", "mint", "close", "update"} =>
                  \E p \in issued : p.user = email[q] /\ p.refresh = token'[q].shown
  <2>1. CASE q = r
    BY <1>3, <1>4, <2>1
  <2>2. CASE q # r
    BY <1>1, <2>2 DEF Alone, TokensFit
  <2> QED
    BY <2>1, <2>2
<1>6. UNCHANGED <<now, call, email>>
  BY <1>1 DEF Alone
<1> QED
  BY <1>2, <1>5, <1>6 DEF TokensFit, Accounts!InOrder

\* A session is opened for an account, and accounts stay.
LEMMA AccountsStep ==
  ASSUME RefinementInv, NEW r \in Requests, Step(r) \/ Fail(r)
  PROVE  AccountsFit'
<1> USE DEF RefinementInv, PatientInv, IInv
<1>1. Alone(r) /\ email[r] \in Emails
  BY StepIsAlone DEF Alone, Busy, HandlingFits
<1>2. user[r] = NoEmail /\ session[r].user = NoEmail
  BY <1>1 DEF Alone, Busy, AccountsFit, SessionFits
<1>3. ASSUME NEW e \in Emails, Registered(e)
      PROVE  Registered(e)'
  BY <1>2, <1>3, StepTables, AuthAssumption DEF Registered, TypeOK
<1>4. user'[r] # NoEmail => pc'[r] = "ended"
  BY <1>2, StepTables DEF TypeOK
<1>5. call[r] = "login" /\ pc'[r] \in {"mint", "insert"} => Registered(email[r])
  BY <1>1 DEF Alone, Busy, AccountsFit,
     Step, Fail, CheckRegister, CheckLogin, CheckRefresh, MintTokens, InsertUser,
     InsertSession, FindRefresh, CloseLookup, Closed, LogoutExpired, CloseUpdate, FindCurrent,
     DbError, InsertUserReplyLost, InsertReplyLost, UpdateReplyLost, Crash, End, Continue,
     ToMint, Goto, HandlingFits, TypeOK
<1>6. ASSUME NEW q \in Requests, session'[q].user # NoEmail
      PROVE  session'[q].user \in Emails /\ Registered(session'[q].user)
  <2>1. CASE session'[q].user = session[q].user
    BY <1>6, <2>1 DEF AccountsFit, TypeOK, Sessions
  <2>2. CASE session'[q].user # session[q].user
    <3>1. Opens(r) /\ q = r /\ session'[q].user = email[r]
      BY <2>2, StepShapes
         DEF Looks, Finds, Ends, Deactivate, Opens, NewSession, TypeOK, Sessions
    <3>2. CASE call[r] = "login"
      BY <1>1, <3>1, <3>2 DEF Opens, AccountsFit
    <3>3. CASE call[r] = "refresh"
      <4>1. origin[r] \in Requests /\ session[origin[r]].user = email[r]
        BY <3>1, <3>3 DEF Opens, SessionFits, TypeOK
      <4> QED
        BY <1>1, <3>1, <4>1, AuthAssumption DEF AccountsFit
    <3> QED
      BY <3>1, <3>2, <3>3 DEF Opens
  <2> QED
    BY <2>1, <2>2
<1>7. ASSUME NEW q \in Requests
      PROVE  /\ user'[q] # NoEmail => pc'[q] = "ended"
             /\ call'[q] = "login" /\ pc'[q] \in {"mint", "insert"} => Registered(email[q])'
             /\ session'[q].user # NoEmail => Registered(session[q].user)'
  <2>1. user'[q] # NoEmail => pc'[q] = "ended"
    BY <1>1, <1>4 DEF Alone, AccountsFit
  <2>2. ASSUME call'[q] = "login", pc'[q] \in {"mint", "insert"}
        PROVE  Registered(email[q])'
    <3>1. email[q] \in Emails /\ Registered(email[q]) /\ email'[q] = email[q]
      BY <1>1, <1>5, <2>2 DEF Alone, AccountsFit, HandlingFits
    <3> QED
      BY <1>3, <3>1 DEF Registered
  <2>3. ASSUME session'[q].user # NoEmail
        PROVE  Registered(session[q].user)'
    BY <1>3, <1>6, <2>3 DEF Registered
  <2> QED
    BY <2>1, <2>2, <2>3
<1> QED
  BY <1>7 DEF AccountsFit

\* A refresh has an origin when it has found its session.
LEMMA ClaimsStep ==
  ASSUME RefinementInv, NEW r \in Requests, Step(r) \/ Fail(r)
  PROVE  ClaimsFit'
<1> USE DEF RefinementInv, PatientInv, IInv
<1>1. Alone(r)
  BY StepIsAlone
<1>2. ASSUME NEW q \in Requests \ {r}
      PROVE  session'[q].user = session[q].user
  BY StepShapes DEF Looks, Finds, Ends, Deactivate, Opens, NewSession, TypeOK, Sessions
<1>3. session'[r].user = NoEmail /\ origin'[r] # NoRequest =>
        call[r] = "refresh" /\ pc'[r] \in {"mint", "close", "update", "insert", "ended"}
  <2>1. CASE Finds(r)
    BY <2>1 DEF Finds
  <2>2. CASE Opens(r)
    BY <1>1, <2>2, AuthAssumption DEF Opens, NewSession, Alone, Busy, HandlingFits, TypeOK
  <2>3. CASE Looks(r) \/ Ends(r)
    <3>1. origin'[r] = origin[r] /\ session'[r].user = session[r].user
      BY <2>3 DEF Looks, Ends, Deactivate, TypeOK, Sessions
    <3>2. pc[r] \in {"mint", "close", "update", "insert"} /\ call[r] = "refresh" =>
            pc'[r] \in {"close", "update", "insert", "ended"}
      BY DEF Step, Fail, CheckRegister, CheckLogin, CheckRefresh, MintTokens, InsertUser,
         InsertSession, FindRefresh, CloseLookup, Closed, LogoutExpired, CloseUpdate, FindCurrent,
         DbError, InsertUserReplyLost, InsertReplyLost, UpdateReplyLost, Crash, End, Continue,
         ToMint, Goto, TypeOK
    <3> QED
      BY <1>1, <3>1, <3>2 DEF Alone, Busy, ClaimsFit
  <2> QED
    BY <2>1, <2>2, <2>3, StepShapes
<1> QED
  BY <1>1, <1>2, <1>3 DEF Alone, ClaimsFit

\* Every step keeps the invariant.
LEMMA RefinementStepHolds == RefinementInv /\ [PatientNext]_vars => RefinementInv'
<1> SUFFICES ASSUME RefinementInv, [PatientNext]_vars
             PROVE  RefinementInv'
  OBVIOUS
<1>1. PatientInv'
  BY PatientStepHolds DEF RefinementInv
<1>2. CASE \E r \in Requests : Called(r)
  BY <1>1, <1>2, CallKeeps DEF RefinementInv
<1>3. CASE \E r \in Requests : Step(r) \/ Fail(r)
  BY <1>1, <1>3, TokensStep, AccountsStep, ClaimsStep DEF RefinementInv
<1>4. CASE Tick \/ UNCHANGED vars
  <2>1. UNCHANGED <<handling, tables>> /\ now \in Nat /\ now' \in Nat /\ now <= now'
    <3>1. now \in Nat
      BY TimesAreNaturals DEF RefinementInv, PatientInv, IInv
    <3> QED
      BY <1>4, <3>1 DEF Tick, vars
  <2>2. TokensFit'
    <3>1. \A r \in Requests : token[r].refresh.iat \in Nat
      BY TimesAreNaturals DEF RefinementInv, PatientInv, IInv
    <3> QED
      BY <2>1, <3>1 DEF RefinementInv, TokensFit, Accounts!InOrder, handling, tables
  <2>3. AccountsFit' /\ ClaimsFit'
    BY <2>1 DEF RefinementInv, AccountsFit, ClaimsFit, Registered, handling, tables
  <2> QED
    BY <1>1, <2>2, <2>3 DEF RefinementInv
<1> QED
  BY <1>2, <1>3, <1>4 DEF PatientNext

\* It holds at the start.
LEMMA RefinementInitHolds == Init => RefinementInv
<1> SUFFICES ASSUME Init
             PROVE  RefinementInv
  OBVIOUS
<1>1. PatientInv
  BY InitHolds
     DEF Init, PatientInv, OneCallEach, Busy, OneLivePerLogin, RefreshReplaces, NoSession
<1>2. TokensFit /\ AccountsFit /\ ClaimsFit
  BY DEF Init, TokensFit, AccountsFit, ClaimsFit, NoSession, NoToken, Shown, NoStamp,
         Accounts!InOrder
<1> QED
  BY <1>1, <1>2 DEF RefinementInv

-----------------------------------------------------------------------------
(* The steps.                                                              *)

\* An empty ledger.
LEMMA InitRefines == Init => Accounts!Init
BY DEF Init, NoSession, NoStamp, Accounts!Init, Accounts!NoSession, Accounts!NoStamp

\* register makes an account where there is none.
LEMMA RegisterRefines ==
  ASSUME RefinementInv, NEW r \in Requests, InsertUser(r) \/ InsertUserReplyLost(r)
  PROVE  Accounts!Register(r, email[r]) \/ UNCHANGED <<now, tables>>
<1>1. pc[r] = "insert" /\ UNCHANGED <<now, session, issued, origin>>
  BY DEF InsertUser, InsertUserReplyLost
<1>2. user[r] = NoEmail
  BY <1>1 DEF RefinementInv, AccountsFit
<1>3. \/ EmailIsFree(email[r]) /\ user' = [user EXCEPT ![r] = email[r]]
      \/ UNCHANGED user
  BY DEF InsertUser, InsertUserReplyLost
<1> QED
  BY <1>1, <1>2, <1>3
     DEF EmailIsFree, Registered, tables, Accounts!Register, Accounts!HasAccount

\* create_session opens a session, for login or for refresh_session.
LEMMA OpenRefines ==
  ASSUME RefinementInv, NEW r \in Requests, InsertSession(r) \/ InsertReplyLost(r)
  PROVE  Accounts!Open(r, email[r])
<1> USE DEF RefinementInv, PatientInv, IInv
<1>1. /\ pc[r] = "insert" /\ call[r] \in {"login", "refresh"}
      /\ NewSession(r) /\ UNCHANGED <<now, user>>
      /\ origin' = [origin EXCEPT ![r] = IF call[r] = "login" THEN r ELSE origin[r]]
      /\ issued' \in {issued, issued \cup {[user |-> email[r], access |-> token[r].access,
                                            refresh |-> token[r].refresh, signed |-> now]}}
  BY DEF InsertSession, InsertReplyLost, Issue
<1>2. session[r].user = NoEmail /\ email[r] \in Emails /\ email[r] # NoEmail
  BY <1>1, AuthAssumption DEF SessionFits, HandlingFits
<1>3. /\ token[r].access \in [exp : 0..now, iat : 0..now]
      /\ token[r].refresh \in [exp : 0..now, iat : 0..now]
      /\ Accounts!InOrder(token[r].access, token[r].refresh)
  <2>1. /\ now \in Nat /\ token[r].access \in [exp : Nat, iat : Nat]
        /\ token[r].refresh \in [exp : Nat, iat : Nat]
    BY TimesAreNaturals
  <2>2. Accounts!InOrder(token[r].access, token[r].refresh)
    BY DEF TokensFit
  <2>3. /\ token[r].access.exp \in 0..now /\ token[r].access.iat \in 0..now
        /\ token[r].refresh.exp \in 0..now /\ token[r].refresh.iat \in 0..now
    BY <2>1, <2>2 DEF Accounts!InOrder
  <2> QED
    BY <2>1, <2>2, <2>3
<1>4. CASE call[r] = "login"
  <2>1. origin[r] = NoRequest /\ origin' = [origin EXCEPT ![r] = r]
    BY <1>1, <1>2, <1>4 DEF ClaimsFit
  <2>2. Registered(email[r])
    BY <1>1, <1>4 DEF AccountsFit
  <2>3. \A q \in Requests : session[q].active => origin[q] # r
    BY <1>2 DEF SessionFits
  <2>4. origin'[r] = r
    BY <2>1 DEF TypeOK
  <2> QED
    BY <1>1, <1>2, <1>3, <2>1, <2>2, <2>3, <2>4
       DEF NewSession, Registered, Accounts!Open, Accounts!Opened, Accounts!HasAccount,
           Accounts!NoneLive
<1>5. CASE call[r] = "refresh"
  <2>1. /\ origin[r] # NoRequest /\ origin[r] \in Requests
        /\ session[origin[r]].user = email[r]
    BY <1>1, <1>5 DEF SessionFits, TypeOK
  <2>2. UNCHANGED origin
    BY <1>1, <1>5 DEF TypeOK
  <2>3. Registered(email[r])
    BY <1>2, <2>1 DEF AccountsFit
  <2>4. email[r] \in Patient => \A q \in Requests : session[q].active => origin[q] # origin[r]
    BY <1>1, <1>5 DEF RefreshReplaces, Replaces
  <2> QED
    BY <1>1, <1>2, <1>3, <2>1, <2>2, <2>3, <2>4
       DEF NewSession, Registered, Accounts!Open, Accounts!Opened, Accounts!HasAccount,
           Accounts!NoneLive
<1> QED
  BY <1>1, <1>4, <1>5

\* Whoever presents a session's token has tokens of it.
LEMMA PresentedIsKnown ==
  ASSUME RefinementInv, NEW r \in Requests, NEW q \in Matching(r),
         call[r] \in {"refresh", "logout"}, pc[r] \in {"find", "update"}
  PROVE  Accounts!Known(q)
<1>1. \E p \in issued : p.user = email[r] /\ p.refresh = token[r].shown
  BY DEF RefinementInv, TokensFit
<1>2. session[q].user = email[r] /\ session[q].refresh = token[r].shown
  BY DEF Matching, SameToken
<1> QED
  BY <1>1, <1>2 DEF Accounts!Known

\* refresh_session claims the session it finds.
LEMMA ClaimRefines ==
  ASSUME RefinementInv, NEW r \in Requests, FindRefresh(r)
  PROVE  (\E q \in Requests : Accounts!Claim(r, q)) \/ UNCHANGED <<now, tables>>
<1> USE DEF RefinementInv, PatientInv, IInv
<1>1. /\ pc[r] = "find" /\ call[r] = "refresh"
      /\ UNCHANGED <<now, user, session, issued>>
  BY DEF FindRefresh
<1>2. CASE Live(r) /\ \E q \in Matching(r) : origin' = [origin EXCEPT ![r] = origin[q]]
  <2>1. PICK q \in Matching(r) : origin' = [origin EXCEPT ![r] = origin[q]]
    BY <1>2
  <2>2. q \in Requests /\ session[q].active
    BY <1>2 DEF Live, Matching
  <2>3. Accounts!Known(q)
    BY <1>1, PresentedIsKnown
  <2>4. origin[r] = NoRequest
    <3>1. session[r].user = NoEmail
      BY <1>1 DEF SessionFits
    <3> QED
      BY <1>1, <3>1 DEF ClaimsFit
  <2> QED
    BY <1>1, <2>1, <2>2, <2>3, <2>4 DEF Accounts!Claim
<1>3. CASE UNCHANGED origin
  BY <1>1, <1>3 DEF tables
<1> QED
  BY <1>2, <1>3 DEF FindRefresh

\* logout_from_session closes one session, the one of the token.
LEMMA CloseRefines ==
  ASSUME RefinementInv, NEW r \in Requests, CloseUpdate(r) \/ UpdateReplyLost(r)
  PROVE  (\E q \in Requests : Accounts!Close(q)) \/ UNCHANGED <<now, tables>>
<1> USE DEF RefinementInv, PatientInv, IInv
<1>1. pc[r] = "update" /\ UNCHANGED <<now, user, issued, origin>>
  BY DEF CloseUpdate, UpdateReplyLost
<1>2. CASE Single(r) /\ Deactivate(r)
  <2>1. IsFiniteSet(Matching(r))
    BY AuthAssumption, FS_Subset DEF Matching
  <2>2. PICK q : Matching(r) = {q}
    BY <1>2, <2>1, FS_Singleton DEF Single
  <2>3. q \in Requests /\ Accounts!Known(q)
    BY <1>1, <2>2, PresentedIsKnown DEF Matching, HandlingFits
  <2>4. session' = [session EXCEPT ![q].active = FALSE]
    BY <1>2, <2>2, <2>3 DEF Deactivate, TypeOK, Sessions
  <2> QED
    BY <1>1, <2>3, <2>4 DEF Accounts!Close
<1>3. CASE UNCHANGED session
  BY <1>1, <1>3 DEF tables
<1> QED
  BY <1>2, <1>3 DEF CloseUpdate, UpdateReplyLost

\* The other statements are nothing to the ledger.
LEMMA OtherStepsStutter ==
  ASSUME NEW r \in Requests,
         \/ CheckRegister(r) \/ CheckLogin(r) \/ CheckRefresh(r) \/ MintTokens(r)
         \/ CloseLookup(r) \/ LogoutExpired(r) \/ FindCurrent(r) \/ DbError(r) \/ Crash(r)
  PROVE  UNCHANGED <<now, tables>>
BY DEF CheckRegister, CheckLogin, CheckRefresh, MintTokens, CloseLookup, LogoutExpired,
   FindCurrent, DbError, Crash

\* The /auth routes keep the book of accounts and sessions, for users who wait and users
\* who do not (AuthService, SessionService, JwtManager).
THEOREM AuthImplementsLedger == PatientSpec => AccountsKept
<1>1. RefinementInv /\ [PatientNext]_vars => [Accounts!Next]_Accounts!vars
  <2> SUFFICES ASSUME RefinementInv, [PatientNext]_vars
               PROVE  Accounts!Next \/ UNCHANGED <<now, tables>>
    BY DEF Accounts!vars, tables
  <2>1. ASSUME NEW r \in Requests, Called(r)
        PROVE  UNCHANGED <<now, tables>>
    BY <2>1, CallKeeps
  <2>2. ASSUME NEW r \in Requests, Step(r) \/ Fail(r)
        PROVE  Accounts!Next \/ UNCHANGED <<now, tables>>
    <3>1. email[r] \in Emails
      BY <2>2, StepIsAlone DEF Alone, Busy, RefinementInv, PatientInv, IInv, HandlingFits
    <3> QED
      BY <2>2, <3>1, RegisterRefines, OpenRefines, ClaimRefines, CloseRefines, OtherStepsStutter
         DEF Step, Fail, Accounts!Next
  <2>3. CASE Tick
    BY <2>3 DEF Tick, tables, Accounts!Next, Accounts!Tick
  <2>4. CASE UNCHANGED vars
    BY <2>4 DEF vars
  <2> QED
    BY <2>1, <2>2, <2>3, <2>4 DEF PatientNext
<1> QED
  BY <1>1, RefinementInitHolds, RefinementStepHolds, InitRefines, PTL
     DEF PatientSpec, AccountsKept, Accounts!Spec
=============================================================================
