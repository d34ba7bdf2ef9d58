--------------------------- MODULE MCReservation ---------------------------
(***************************************************************************)
(* Small instances of Reservation for TLC.                                 *)
(***************************************************************************)
EXTENDS Reservation, TLC

CONSTANTS r1, r2, r3, s1, s2

ThreeRequests == {r1, r2, r3}

TwoRequests == {r1, r2}

\* s1 is a row of seats, s2 is an id that no row has.
AnySeatId == {s1, s2}

OneSeat == {s1}

\* Requests are interchangeable.
RequestSymmetry == Permutations(Requests)
=============================================================================
