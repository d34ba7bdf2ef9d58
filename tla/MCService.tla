----------------------------- MODULE MCService -----------------------------
(***************************************************************************)
(* A small instance of Service for TLC.                                    *)
(***************************************************************************)
EXTENDS Service

CONSTANTS r1, r2, r3

ThreeRequests == {r1, r2, r3}
=============================================================================
