---------------------------- MODULE MCRepository ----------------------------
(***************************************************************************)
(* Small instances of Repository for TLC.                                  *)
(***************************************************************************)
EXTENDS Repository, TLC

CONSTANTS c1, c2, c3, i1, i2

ThreeCalls == {c1, c2, c3}

TwoIds == {i1, i2}

\* Calls are interchangeable, and so are the keys.
RepositorySymmetry == Permutations(Calls) \cup Permutations(Ids)

\* Of a call that is over, the properties read no more than the page of get_many.
HasEnded(c) == pc[c] = "failed" \/ (pc[c] = "done" /\ job[c].method # "get_many")

RepositoryView ==
  <<row, rowLock,
    [c \in Calls |-> IF HasEnded(c) THEN <<>>
                     ELSE <<job[c], pc[c], todo[c], snapshot[c], counted[c],
                            write[c], returned[c]>>]>>
=============================================================================
