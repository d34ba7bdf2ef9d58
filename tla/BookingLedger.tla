--------------------------- MODULE BookingLedger ---------------------------
(***************************************************************************)
(* What POST /bookings/reserve/{seat_id} promises its clients, with no     *)
(* cache, no locks and no pipeline: the ledger of seats and one response   *)
(* to each request.  A confirmation follows a grant, a refusal is final, a *)
(* replay shows a grant of the same operation, and an error says nothing.  *)
(***************************************************************************)
EXTENDS SeatLedger

CONSTANT Operations  \* a user with an Idempotency-Key

VARIABLES
  operation,  \* customer -> the operation it is a request of
  reply       \* customer -> the response, and whose grant it shows

promise == <<vars, operation, reply>>

NoReply == [kind |-> "none", of |-> Nobody]

PromiseInit ==
  /\ Init
  /\ operation \in [Customers -> Operations]
  /\ reply = [c \in Customers |-> NoReply]

Waiting(c) == reply[c].kind = "none"

Answer(c, kind, b) ==
  /\ Waiting(c)
  /\ reply' = [reply EXCEPT ![c] = [kind |-> kind, of |-> b]]
  /\ UNCHANGED <<vars, operation>>

\* Nothing is granted to who has been answered: an error may hide a grant that was made
\* before, but none follows.
Serve(c) == Waiting(c) /\ Grant(c) /\ UNCHANGED <<operation, reply>>

Confirm(c) == c \in told /\ Answer(c, "created", c)

SameOperation(b, c) == wants[b] = wants[c] /\ operation[b] = operation[c]

Replay(c, b) == b \in told /\ SameOperation(b, c) /\ Answer(c, "replayed", b)

Refuse(c) ==
  /\ c \notin granted
  /\ \E kind \in {"busy", "refused", "invalid"} : Answer(c, kind, Nobody)

Apologise(c) == Answer(c, "error", Nobody)

Age == Tick /\ UNCHANGED <<operation, reply>>

PromiseNext ==
  \/ Age
  \/ \E c \in Customers :
       Serve(c) \/ Confirm(c) \/ Refuse(c) \/ Apologise(c) \/ \E b \in Customers : Replay(c, b)

PromiseSpec == PromiseInit /\ [][PromiseNext]_promise

\* The grant is good, and nobody else can be given the seat yet.
Good(c) == wants[c] \in Seats /\ owner[wants[c]] = c /\ age[c] < Life

\* The stronger promise: who is told of a new grant has the seat when the response is
\* made.  A replay promises no more than that the grant was made.
LiveNext ==
  \/ Age
  \/ \E c \in Customers :
       \/ Serve(c) \/ Refuse(c) \/ Apologise(c)
       \/ Confirm(c) /\ Good(c)
       \/ \E b \in Customers : Replay(c, b)

LiveSpec == PromiseInit /\ [][LiveNext]_promise
=============================================================================
