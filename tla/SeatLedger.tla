----------------------------- MODULE SeatLedger -----------------------------
(***************************************************************************)
(* What the reservation of seats promises, with no Redis, no transactions  *)
(* and no row locks: a seat has at most one owner, an owner keeps it for   *)
(* Life units of time, and nobody is told of a seat that was not granted.  *)
(***************************************************************************)
EXTENDS Naturals

CONSTANTS
  Customers,   \* those who ask for a seat, each once
  SeatIds,     \* what they may ask for
  Seats,       \* what there is
  Life,        \* how long a grant is good for
  Nobody

VARIABLES
  wants,    \* customer -> the seat asked for
  owner,    \* seat -> its owner
  age,      \* customer -> the age of the grant, up to Life
  granted,  \* the customers who were ever granted their seat
  told      \* the customers who were told so

vars == <<wants, owner, age, granted, told>>

TypeOK ==
  /\ wants \in [Customers -> SeatIds]
  /\ owner \in [Seats -> Customers \cup {Nobody}]
  /\ age \in [Customers -> 0..Life]
  /\ granted \subseteq Customers
  /\ told \subseteq granted

Init ==
  /\ wants \in [Customers -> SeatIds]
  /\ owner = [s \in Seats |-> Nobody]
  /\ age = [c \in Customers |-> 0]
  /\ granted = {}
  /\ told = {}

Grantable(s) == owner[s] = Nobody \/ age[owner[s]] = Life

\* The seat changes hands in one step.  The grant may be of some age already, and
\* the word of it may be lost.
Grant(c) ==
  /\ c \notin granted
  /\ wants[c] \in Seats
  /\ Grantable(wants[c])
  /\ owner' = [owner EXCEPT ![wants[c]] = c]
  /\ \E a \in 0..Life : age' = [age EXCEPT ![c] = a]
  /\ granted' = granted \cup {c}
  /\ told' \in {told, told \cup {c}}
  /\ UNCHANGED wants

Older(a) == IF a < Life THEN a + 1 ELSE a

Tick ==
  /\ age' = [c \in Customers |-> IF c \in granted THEN Older(age[c]) ELSE age[c]]
  /\ UNCHANGED <<wants, owner, granted, told>>

Next == Tick \/ \E c \in Customers : Grant(c)

Spec == Init /\ [][Next]_vars
=============================================================================
