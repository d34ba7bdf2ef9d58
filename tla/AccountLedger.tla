--------------------------- MODULE AccountLedger ---------------------------
(***************************************************************************)
(* What the /auth routes promise about accounts and sessions, with no      *)
(* requests, statements, passwords or failures: an email has one account,  *)
(* sessions are opened for accounts only, by a login or in continuation of *)
(* a session that was live, they end for good, and only those whose tokens *)
(* have reached a client are ever continued or ended.                      *)
(***************************************************************************)
EXTENDS Naturals

CONSTANTS
  Rows,     \* what accounts and sessions are numbered by
  Emails,
  Careful,  \* the emails whose users do one thing at a time
  NoEmail,
  Nobody

VARIABLES
  time,
  account,  \* row -> the email of the account, NoEmail for none
  session,  \* row -> [user, access, refresh, active]
  login,    \* row of sessions -> the login it goes back to, Nobody for a free row
  sent      \* the tokens clients have: whose, their stamps, when they were sent

vars == <<time, account, session, login, sent>>

NoStamp == [exp |-> 0, iat |-> 0]

NoSession == [user |-> NoEmail, access |-> NoStamp, refresh |-> NoStamp, active |-> FALSE]

Init ==
  /\ time = 0
  /\ account = [a \in Rows |-> NoEmail]
  /\ session = [s \in Rows |-> NoSession]
  /\ login = [s \in Rows |-> Nobody]
  /\ sent = {}

HasAccount(e) == \E a \in Rows : account[a] = e

Opened(s) == session[s].user # NoEmail

\* A client has the session's refresh token, or another that is equal.
Known(s) == \E t \in sent : t.user = session[s].user /\ t.refresh = session[s].refresh

\* Four readings of the clock, one after the other, by now.
InOrder(access, refresh) ==
  /\ access.exp <= access.iat /\ access.iat <= refresh.exp
  /\ refresh.exp <= refresh.iat /\ refresh.iat <= time

Register(a, e) ==
  /\ account[a] = NoEmail /\ ~HasAccount(e)
  /\ account' = [account EXCEPT ![a] = e]
  /\ UNCHANGED <<time, session, login, sent>>

\* The free row s is to continue the session q, which is live when it is claimed.
Claim(s, q) ==
  /\ login[s] = Nobody
  /\ session[q].active /\ Known(q)
  /\ login' = [login EXCEPT ![s] = login[q]]
  /\ UNCHANGED <<time, account, session, sent>>

NoneLive(origin) == \A q \in Rows : session[q].active => login[q] # origin

\* A login, or what has been claimed.  Its tokens may be lost on their way.
Open(s, e) ==
  /\ ~Opened(s) /\ HasAccount(e)
  /\ \/ login[s] = Nobody /\ login' = [login EXCEPT ![s] = s]
     \/ login[s] # Nobody /\ session[login[s]].user = e /\ UNCHANGED login
  /\ e \in Careful => NoneLive(login'[s])
  /\ \E access, refresh \in [exp : 0..time, iat : 0..time] :
       /\ InOrder(access, refresh)
       /\ session' = [session EXCEPT ![s] = [user |-> e, access |-> access,
                                             refresh |-> refresh, active |-> TRUE]]
       /\ sent' \in {sent, sent \cup {[user |-> e, access |-> access, refresh |-> refresh,
                                        signed |-> time]}}
  /\ UNCHANGED <<time, account>>

Close(q) ==
  /\ Known(q)
  /\ session' = [session EXCEPT ![q].active = FALSE]
  /\ UNCHANGED <<time, account, login, sent>>

Tick == time' = time + 1 /\ UNCHANGED <<account, session, login, sent>>

Next ==
  \/ Tick
  \/ \E s \in Rows :
       \/ Close(s)
       \/ \E e \in Emails : Register(s, e) \/ Open(s, e)
       \/ \E q \in Rows : Claim(s, q)

Spec == Init /\ [][Next]_vars
=============================================================================
