--------------------------- MODULE MCAuthSession ---------------------------
(***************************************************************************)
(* Small instances of AuthSession for TLC.                                 *)
(***************************************************************************)
EXTENDS AuthSession, TLC

CONSTANTS r1, r2, r3, r4, r5, e1, e2

FourRequests == {r1, r2, r3, r4}

FiveRequests == {r1, r2, r3, r4, r5}

TwoEmails == {e1, e2}

OneEmail == {e1}

\* Requests are interchangeable, and so are the emails.
AuthSymmetry == Permutations(Requests) \cup Permutations(Emails)

RequestSymmetry == Permutations(Requests)

\* What the next steps and the properties can tell apart: of a request that has ended,
\* only what it means to OneAccountPerEmail, and of a token only what is still to be read.
Unread(r) == [token[r] EXCEPT
                !.since  = IF pc[r] = "mint" THEN @ ELSE 0,
                !.signed = IF call[r] = "me" THEN 0 ELSE @]

Part(r) ==
  IF pc[r] = "ended" /\ call[r] # "register" THEN <<>>
  ELSE <<call[r], email[r], Unread(r), pc[r], reply[r]>>

AuthView == <<now, tables, [r \in Requests |-> Part(r)]>>
=============================================================================
