---------------------------- MODULE MCBookingApi ----------------------------
(***************************************************************************)
(* Small instances of BookingApi for TLC.                                  *)
(***************************************************************************)
EXTENDS BookingApi, TLC

CONSTANTS r1, r2, r3, s1, o1, o2

TwoRequests == {r1, r2}

ThreeRequests == {r1, r2, r3}

OneSeat == {s1}

OneOperation == {o1}

TwoOperations == {o1, o2}

\* Requests are interchangeable, and so are the operations.
ApiSymmetry == Permutations(Requests) \cup Permutations(Operations)
=============================================================================
