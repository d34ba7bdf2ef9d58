------------------------- MODULE ReservationProofs -------------------------
(***************************************************************************)
(* Proofs about module Reservation, for any number of requests and seats   *)
(* and any life times that satisfy ReservationAssumption.                  *)
(***************************************************************************)
EXTENDS Reservation, TLAPS

-----------------------------------------------------------------------------
(* Type correctness.                                                       *)

\* The empty tables and the idle requests at the start are well typed.
LEMMA InitTyped == Init => TypeOK
BY ReservationAssumption
   DEF ReservationAssumption, Init, TypeOK, PCs, NoHold, NoTxn

\* The end of a transaction keeps the types of what it resets.
LEMMA EndTxnTyped ==
  ASSUME TypeOK, NEW r \in Requests, EndTxn(r)
  PROVE  /\ txn' \in [Requests -> [cancels : Requests \cup {NoRequest},
                                   holds : BOOLEAN, inserts : BOOLEAN]]
         /\ found' \in [Requests -> Requests \cup {NoRequest}]
         /\ seatLock' \in [SeatIds -> Requests \cup {NoRequest}]
         /\ bookingLock' \in [Requests -> Requests \cup {NoRequest}]
BY DEF TypeOK, EndTxn, FreeLocks, NoTxn

\* So does a COMMIT with the rows it publishes.
LEMMA CommitTyped ==
  ASSUME TypeOK, NEW r \in Requests, CommitBookings(r), CommitSeats(r)
  PROVE  /\ booking' \in [Requests -> {"none", "pending", "canceled"}]
         /\ isHeld' \in [Seats -> BOOLEAN]
BY DEF TypeOK, CommitBookings, CommitSeats

\* The Redis key that acquire_hold sets is well formed.
LEMMA NewHoldTyped ==
  ASSUME NEW r \in Requests
  PROVE  NewHold(r) \in [by : Requests \cup {NoRequest}, ttl : 0..HoldTTL]
<1>1. HoldTTL \in 0..HoldTTL
  BY ReservationAssumption DEF ReservationAssumption
<1> QED
  BY <1>1 DEF NewHold

\* An answer is one of those the route knows.
LEMMA TellTyped ==
  ASSUME TypeOK, NEW r \in Requests,
         NEW what \in {"ok", "held", "taken", "error"}, Tell(r, what)
  PROVE  answer' \in [Requests -> {"none", "ok", "held", "taken", "error"}]
BY DEF TypeOK, Tell

\* Control stays within the labels of reserve_booking.
LEMMA GotoTyped ==
  ASSUME TypeOK, NEW r \in Requests, NEW label \in PCs, Goto(r, label)
  PROVE  pc' \in [Requests -> PCs]
BY DEF TypeOK, Goto

\* A Redis key stays well formed as its life runs down.
LEMMA DecayTyped ==
  ASSUME NEW h \in [by : Requests \cup {NoRequest}, ttl : 0..HoldTTL]
  PROVE  Decay(h) \in [by : Requests \cup {NoRequest}, ttl : 0..HoldTTL]
<1>1. CASE h.ttl <= 1
  BY <1>1, ReservationAssumption DEF ReservationAssumption, Decay, NoHold
<1>2. CASE ~(h.ttl <= 1)
  <2>1. h.ttl - 1 \in 0..HoldTTL
    BY <1>2, ReservationAssumption DEF ReservationAssumption
  <2> QED
    BY <1>2, <2>1 DEF Decay
<1> QED
  BY <1>1, <1>2

\* Every step keeps every variable's type.
LEMMA NextTyped == TypeOK /\ [Next]_vars => TypeOK'
<1> SUFFICES ASSUME TypeOK, [Next]_vars
             PROVE  TypeOK'
  OBVIOUS
<1>1. ASSUME NEW r \in Requests, Arrive(r)
      PROVE  TypeOK'
  BY <1>1 DEF TypeOK, Arrive, Goto, PCs, rowVars, txnVars
<1>2. ASSUME NEW r \in Requests, AcquireHold(r)
      PROVE  TypeOK'
  <2>1. hold' \in [SeatIds -> [by : Requests \cup {NoRequest}, ttl : 0..HoldTTL]]
    BY <1>2, NewHoldTyped DEF TypeOK, AcquireHold
  <2>2. pc' \in [Requests -> PCs]
    BY <1>2, GotoTyped DEF AcquireHold, PCs, Reserving, InTxn
  <2> QED
    BY <1>2, <2>1, <2>2 DEF TypeOK, AcquireHold, rowVars, txnVars
<1>3. ASSUME NEW r \in Requests, RefuseHeld(r) \/ SeatUnavailable(r)
      PROVE  TypeOK'
  <2>1. answer' \in [Requests -> {"none", "ok", "held", "taken", "error"}]
    BY <1>3, TellTyped DEF RefuseHeld, SeatUnavailable
  <2>2. pc' \in [Requests -> PCs]
    BY <1>3, GotoTyped DEF RefuseHeld, SeatUnavailable, PCs, Reserving
  <2>3. seatLock' \in [SeatIds -> Requests \cup {NoRequest}]
    BY <1>3 DEF TypeOK, RefuseHeld, SeatUnavailable, txnVars
  <2> QED
    BY <1>3, <2>1, <2>2, <2>3 DEF TypeOK, RefuseHeld, SeatUnavailable, rowVars, txnVars
<1>4. ASSUME NEW r \in Requests, AcquireFails(r)
      PROVE  TypeOK'
  <2>1. hold' \in [SeatIds -> [by : Requests \cup {NoRequest}, ttl : 0..HoldTTL]]
    BY <1>4, NewHoldTyped DEF TypeOK, AcquireFails
  <2>2. answer' \in [Requests -> {"none", "ok", "held", "taken", "error"}]
    BY <1>4, TellTyped DEF AcquireFails
  <2>3. pc' \in [Requests -> PCs]
    BY <1>4, GotoTyped DEF AcquireFails, PCs
  <2> QED
    BY <1>4, <2>1, <2>2, <2>3 DEF TypeOK, AcquireFails, rowVars, txnVars
<1>5. ASSUME NEW r \in Requests, SelectExpired(r)
      PROVE  TypeOK'
  <2>1. found' \in [Requests -> Requests \cup {NoRequest}]
    BY <1>5 DEF TypeOK, SelectExpired, ExpiredOn
  <2>2. pc' \in [Requests -> PCs]
    BY <1>5, GotoTyped DEF SelectExpired, PCs, Reserving, InTxn
  <2> QED
    BY <1>5, <2>1, <2>2 DEF TypeOK, SelectExpired, rowVars
<1>6. ASSUME NEW r \in Requests, LockBooking(r)
      PROVE  TypeOK'
  <2>1. bookingLock' \in [Requests -> Requests \cup {NoRequest}]
    BY <1>6 DEF TypeOK, LockBooking
  <2>2. pc' \in [Requests -> PCs]
    BY <1>6, GotoTyped DEF LockBooking, PCs, Reserving, InTxn
  <2> QED
    BY <1>6, <2>1, <2>2 DEF TypeOK, LockBooking, rowVars
<1>7. ASSUME NEW r \in Requests, LockSeat(r)
      PROVE  TypeOK'
  <2>1. /\ found' \in [Requests -> Requests \cup {NoRequest}]
        /\ seatLock' \in [SeatIds -> Requests \cup {NoRequest}]
    BY <1>7 DEF TypeOK, LockSeat
  <2>2. pc' \in [Requests -> PCs]
    BY <1>7, GotoTyped DEF LockSeat, PCs, Reserving, InTxn
  <2> QED
    BY <1>7, <2>1, <2>2 DEF TypeOK, LockSeat, rowVars
<1>8. ASSUME NEW r \in Requests, CancelExpired(r)
      PROVE  TypeOK'
  BY <1>8 DEF TypeOK, CancelExpired, Goto, PCs, Reserving, InTxn, rowVars
<1>9. ASSUME NEW r \in Requests, TryHoldSeat(r) \/ HoldSeat(r)
      PROVE  TypeOK'
  <2>1. CASE TryHoldSeat(r)
    BY <2>1 DEF TypeOK, TryHoldSeat, Goto, PCs, Reserving, InTxn, rowVars, txnVars
  <2>2. CASE HoldSeat(r)
    BY <2>2 DEF TypeOK, HoldSeat, Goto, PCs, Reserving, InTxn, rowVars
  <2> QED
    BY <1>9, <2>1, <2>2
<1>10. ASSUME NEW r \in Requests, InsertBooking(r)
       PROVE  TypeOK'
  <2>1. txn' \in [Requests -> [cancels : Requests \cup {NoRequest},
                               holds : BOOLEAN, inserts : BOOLEAN]]
    BY <1>10 DEF TypeOK, InsertBooking
  <2>2. age' \in [Requests -> 0..BookingTTL]
    BY <1>10, ReservationAssumption DEF TypeOK, InsertBooking, ReservationAssumption
  <2>3. pc' \in [Requests -> PCs]
    BY <1>10, GotoTyped DEF InsertBooking, PCs, Reserving, InTxn
  <2> QED
    BY <1>10, <2>1, <2>2, <2>3 DEF TypeOK, InsertBooking
<1>11. ASSUME NEW r \in Requests, Commit(r) \/ CommitReplyLost(r)
       PROVE  TypeOK'
  <2>1. /\ EndTxn(r) /\ CommitBookings(r) /\ CommitSeats(r)
        /\ UNCHANGED <<seatOf, hold, age>>
    BY <1>11 DEF Commit, CommitReplyLost
  <2>2. pc' \in [Requests -> PCs]
    BY <1>11, GotoTyped DEF Commit, CommitReplyLost, PCs, Reserving, Ended
  <2>3. answer' \in [Requests -> {"none", "ok", "held", "taken", "error"}]
    BY <1>11, TellTyped DEF Commit, CommitReplyLost
  <2> QED
    BY <2>1, <2>2, <2>3, EndTxnTyped, CommitTyped DEF TypeOK
<1>12. ASSUME NEW r \in Requests, DbError(r) \/ Rollback(r) \/ Crash(r)
       PROVE  TypeOK'
  <2>1. /\ EndTxn(r) \/ UNCHANGED txnVars
        /\ UNCHANGED <<seatOf, hold, isHeld, booking, age>>
    BY <1>12 DEF DbError, Rollback, Crash, rowVars
  <2>2. pc' \in [Requests -> PCs]
    BY <1>12, GotoTyped DEF DbError, Rollback, Crash, PCs, Reserving, Ended
  <2>3. answer' \in [Requests -> {"none", "ok", "held", "taken", "error"}]
    <3>1. CASE DbError(r)
      BY <3>1, TellTyped DEF DbError
    <3>2. CASE Rollback(r) \/ Crash(r)
      BY <3>2 DEF TypeOK, Rollback, Crash
    <3> QED
      BY <1>12, <3>1, <3>2
  <2> QED
    BY <2>1, <2>2, <2>3, EndTxnTyped DEF TypeOK, txnVars
<1>13. ASSUME NEW r \in Requests, ReleaseHold(r) \/ ReleaseFails(r)
       PROVE  TypeOK'
  <2>1. hold' \in [SeatIds -> [by : Requests \cup {NoRequest}, ttl : 0..HoldTTL]]
    BY <1>13, ReservationAssumption
       DEF TypeOK, ReleaseHold, ReleaseFails, NoHold, ReservationAssumption
  <2>2. pc' \in [Requests -> PCs]
    BY <1>13, GotoTyped DEF ReleaseHold, ReleaseFails, PCs
  <2> QED
    BY <1>13, <2>1, <2>2 DEF TypeOK, ReleaseHold, ReleaseFails, rowVars, txnVars
<1>14. CASE Tick
  <2>1. hold' \in [SeatIds -> [by : Requests \cup {NoRequest}, ttl : 0..HoldTTL]]
    BY <1>14, DecayTyped DEF TypeOK, Tick
  <2>2. age' \in [Requests -> 0..BookingTTL]
    BY <1>14, ReservationAssumption DEF TypeOK, Tick, Older, ReservationAssumption
  <2> QED
    BY <1>14, <2>1, <2>2 DEF TypeOK, Tick, clientVars, txnVars
<1>15. CASE RedisRestart
  BY <1>15, ReservationAssumption
     DEF TypeOK, RedisRestart, NoHold, clientVars, rowVars, txnVars, ReservationAssumption
<1>16. CASE UNCHANGED vars
  BY <1>16 DEF TypeOK, vars, clientVars, rowVars, txnVars
<1>17. ASSUME NEW r \in Requests, Repeat(r)
       PROVE  TypeOK'
  <2>1. hold' \in [SeatIds -> [by : Requests \cup {NoRequest}, ttl : 0..HoldTTL]]
    BY <1>17, NewHoldTyped, ReservationAssumption
       DEF TypeOK, Repeat, RepeatAcquire, RepeatRelease, NoHold, ReservationAssumption
  <2> QED
    BY <1>17, <2>1
       DEF TypeOK, Repeat, RepeatAcquire, RepeatRelease, clientVars, rowVars, txnVars
<1> QED
  BY <1>1, <1>2, <1>3, <1>4, <1>5, <1>6, <1>7, <1>8, <1>9, <1>10, <1>11, <1>12,
     <1>13, <1>14, <1>15, <1>16, <1>17
     DEF Next, Step, Fail

\* Every variable keeps its type in every behaviour of reserve_booking.
THEOREM Typing == Spec => []TypeOK
BY InitTyped, NextTyped, PTL DEF Spec

-----------------------------------------------------------------------------
(* The row locks and the agreement of seats and bookings.                  *)

IInv == TypeOK /\ LockDiscipline /\ SeatRowMatchesBookings

\* At the start no transaction is open and no row is there to disagree.
LEMMA InitIInv == Init => IInv
<1> SUFFICES ASSUME Init
             PROVE  IInv
  OBVIOUS
<1>1. TypeOK
  BY InitTyped
<1>2. LockDiscipline
  BY ReservationAssumption
     DEF ReservationAssumption, Init, NoTxn, LockDiscipline, NotYetBooked, FoundIsExpired,
         CancelIsSecured, HolderIsAlone, TxnFollowsCode, LockOwners
<1>3. SeatRowMatchesBookings
  BY DEF Init, SeatRowMatchesBookings, PendingFor
<1> QED
  BY <1>1, <1>2, <1>3 DEF IInv

\* The tables are as they were.
LEMMA SameRows ==
  ASSUME SeatRowMatchesBookings, UNCHANGED <<seatOf, isHeld, booking>>
  PROVE  SeatRowMatchesBookings'
BY DEF SeatRowMatchesBookings, PendingFor

OwnsNoLock(r) ==
  /\ \A s \in SeatIds : seatLock[s] # r
  /\ \A b \in Requests : bookingLock[b] # r

\* A request has no row lock before its SELECT has found something, or after its end.
LEMMA LocklessOutside ==
  ASSUME IInv, NEW r \in Requests,
         pc[r] \in {"idle", "acquire", "select", "lockBooking"} \cup Ended
  PROVE  OwnsNoLock(r)
BY DEF IInv, LockDiscipline, LockOwners, OwnsNoLock, GivenUp, Ended

\* A step of r that touches no row and no transaction, and takes r to a label
\* where the transaction has not begun or is given up.
LEMMA QuietStep ==
  ASSUME IInv, NEW r \in Requests, UNCHANGED <<seatOf, rowVars, txnVars>>,
         NEW label \in {"acquire", "select", "release", "rollback"}, Goto(r, label),
         label \in {"acquire", "select"} =>
           pc[r] \in {"idle", "acquire"} /\ answer' = answer,
         \A q \in Requests \ {r} : answer'[q] = answer[q]
  PROVE  LockDiscipline' /\ SeatRowMatchesBookings'
<1> USE DEF IInv, TypeOK, Goto, rowVars, txnVars
<1>1. NotYetBooked'
  BY DEF LockDiscipline, NotYetBooked, InTxn
<1>2. FoundIsExpired'
  BY DEF LockDiscipline, FoundIsExpired, Expired, Secured
<1>3. CancelIsSecured'
  BY DEF LockDiscipline, CancelIsSecured, Expired, Secured
<1>4. HolderIsAlone'
  BY DEF LockDiscipline, HolderIsAlone
<1>5. TxnFollowsCode'
  BY DEF LockDiscipline, TxnFollowsCode, GivenUp
<1>6. SeatRowMatchesBookings'
  BY SameRows
<1>7. LockOwners'
  <2>1. CASE label \in {"acquire", "select"}
    <3>1. OwnsNoLock(r)
      BY <2>1, LocklessOutside
    <3> QED
      BY <3>1 DEF LockDiscipline, LockOwners, OwnsNoLock
  <2>2. CASE label \in GivenUp
    BY <2>2 DEF LockDiscipline, LockOwners, GivenUp
  <2> QED
    BY <2>1, <2>2 DEF GivenUp
<1> QED
  BY <1>1, <1>2, <1>3, <1>4, <1>5, <1>6, <1>7 DEF LockDiscipline

\* A transaction of r ends and nothing of it is published.
LEMMA AbortStep ==
  ASSUME IInv, NEW r \in Requests, EndTxn(r), UNCHANGED <<seatOf, rowVars>>,
         NEW label \in {"release", "done", "crashed"}, Goto(r, label),
         \A q \in Requests \ {r} : answer'[q] = answer[q]
  PROVE  LockDiscipline' /\ SeatRowMatchesBookings'
<1> USE DEF IInv, TypeOK, Goto, rowVars, EndTxn, FreeLocks, NoTxn
<1>1. NotYetBooked'
  BY DEF LockDiscipline, NotYetBooked, InTxn
<1>2. FoundIsExpired'
  BY DEF LockDiscipline, FoundIsExpired, Expired, Secured
<1>3. CancelIsSecured'
  BY DEF LockDiscipline, CancelIsSecured, Expired, Secured
<1>4. HolderIsAlone'
  BY DEF LockDiscipline, HolderIsAlone
<1>5. TxnFollowsCode'
  BY DEF LockDiscipline, TxnFollowsCode, GivenUp
<1>6. SeatRowMatchesBookings'
  BY SameRows
<1>7. LockOwners'
  BY ReservationAssumption DEF LockDiscipline, LockOwners, ReservationAssumption
<1> QED
  BY <1>1, <1>2, <1>3, <1>4, <1>5, <1>6, <1>7 DEF LockDiscipline

\* The SELECT picks an expired booking of the seat, or none.
LEMMA SelectStep ==
  ASSUME IInv, NEW r \in Requests, SelectExpired(r)
  PROVE  LockDiscipline' /\ SeatRowMatchesBookings'
<1> USE DEF IInv, TypeOK, SelectExpired, Goto, rowVars
<1>1. NotYetBooked'
  BY DEF LockDiscipline, NotYetBooked, InTxn
<1>2. FoundIsExpired'
  BY DEF LockDiscipline, NotYetBooked, InTxn, FoundIsExpired, Expired, Secured, ExpiredOn
<1>3. CancelIsSecured'
  BY DEF LockDiscipline, CancelIsSecured, Expired, Secured
<1>4. HolderIsAlone'
  BY DEF LockDiscipline, HolderIsAlone
<1>5. TxnFollowsCode'
  BY DEF LockDiscipline, TxnFollowsCode, GivenUp
<1>6. SeatRowMatchesBookings'
  BY SameRows
<1>7. LockOwners'
  BY DEF LockDiscipline, LockOwners, GivenUp
<1> QED
  BY <1>1, <1>2, <1>3, <1>4, <1>5, <1>6, <1>7 DEF LockDiscipline

\* The booking's row lock is taken on a row that is still pending.
LEMMA LockBookingStep ==
  ASSUME IInv, NEW r \in Requests, LockBooking(r)
  PROVE  LockDiscipline' /\ SeatRowMatchesBookings'
<1> USE DEF IInv, TypeOK, LockBooking, Goto, rowVars
<1>1. NotYetBooked'
  BY DEF LockDiscipline, NotYetBooked, InTxn
<1>2. FoundIsExpired'
  BY ReservationAssumption
     DEF LockDiscipline, FoundIsExpired, Expired, Secured, ReservationAssumption
<1>3. CancelIsSecured'
  BY ReservationAssumption
     DEF LockDiscipline, FoundIsExpired, CancelIsSecured, Expired, Secured,
         ReservationAssumption
<1>4. HolderIsAlone'
  BY DEF LockDiscipline, HolderIsAlone
<1>5. TxnFollowsCode'
  BY DEF LockDiscipline, TxnFollowsCode, GivenUp
<1>6. SeatRowMatchesBookings'
  BY SameRows
<1>7. LockOwners'
  BY ReservationAssumption
     DEF LockDiscipline, LockOwners, GivenUp, FoundIsExpired, Expired, ReservationAssumption
<1> QED
  BY <1>1, <1>2, <1>3, <1>4, <1>5, <1>6, <1>7 DEF LockDiscipline

\* The seat's row lock is taken when nobody has it.
LEMMA LockSeatStep ==
  ASSUME IInv, NEW r \in Requests, LockSeat(r)
  PROVE  LockDiscipline' /\ SeatRowMatchesBookings'
<1> USE DEF IInv, TypeOK, LockSeat, Goto, rowVars
<1>1. NotYetBooked'
  BY DEF LockDiscipline, NotYetBooked, InTxn
<1>2. FoundIsExpired'
  BY ReservationAssumption
     DEF LockDiscipline, FoundIsExpired, Expired, Secured, ReservationAssumption
<1>3. CancelIsSecured'
  BY ReservationAssumption
     DEF LockDiscipline, CancelIsSecured, Expired, Secured, ReservationAssumption
<1>4. HolderIsAlone'
  BY ReservationAssumption DEF LockDiscipline, HolderIsAlone, ReservationAssumption
<1>5. TxnFollowsCode'
  BY DEF LockDiscipline, TxnFollowsCode, GivenUp
<1>6. SeatRowMatchesBookings'
  BY SameRows
<1>7. LockOwners'
  BY ReservationAssumption DEF LockDiscipline, LockOwners, GivenUp, ReservationAssumption
<1> QED
  BY <1>1, <1>2, <1>3, <1>4, <1>5, <1>6, <1>7 DEF LockDiscipline

\* The flush writes down what is already locked.
LEMMA CancelStep ==
  ASSUME IInv, NEW r \in Requests, CancelExpired(r)
  PROVE  LockDiscipline' /\ SeatRowMatchesBookings'
<1> USE DEF IInv, TypeOK, CancelExpired, Goto, rowVars
<1>1. NotYetBooked'
  BY DEF LockDiscipline, NotYetBooked, InTxn
<1>2. FoundIsExpired'
  BY DEF LockDiscipline, FoundIsExpired, Expired, Secured
<1>3. CancelIsSecured'
  BY DEF LockDiscipline, FoundIsExpired, CancelIsSecured, Expired, Secured
<1>4. HolderIsAlone'
  BY DEF LockDiscipline, HolderIsAlone, TxnFollowsCode, GivenUp
<1>5. TxnFollowsCode'
  BY DEF LockDiscipline, TxnFollowsCode, GivenUp
<1>6. SeatRowMatchesBookings'
  BY SameRows
<1>7. LockOwners'
  BY ReservationAssumption
     DEF LockDiscipline, LockOwners, GivenUp, FoundIsExpired, Secured, Expired,
         ReservationAssumption
<1> QED
  BY <1>1, <1>2, <1>3, <1>4, <1>5, <1>6, <1>7 DEF LockDiscipline

\* A step of r within its transaction that takes no lock and writes nothing.
LEMMA TryHoldStep ==
  ASSUME IInv, NEW r \in Requests, TryHoldSeat(r)
  PROVE  LockDiscipline' /\ SeatRowMatchesBookings'
<1> USE DEF IInv, TypeOK, TryHoldSeat, Goto, rowVars, txnVars
<1>1. NotYetBooked'
  BY DEF LockDiscipline, NotYetBooked, InTxn
<1>2. FoundIsExpired'
  BY DEF LockDiscipline, FoundIsExpired, Expired, Secured
<1>3. CancelIsSecured'
  BY DEF LockDiscipline, CancelIsSecured, Expired, Secured
<1>4. HolderIsAlone'
  BY DEF LockDiscipline, HolderIsAlone
<1>5. TxnFollowsCode'
  BY DEF LockDiscipline, TxnFollowsCode, GivenUp
<1>6. SeatRowMatchesBookings'
  BY SameRows
<1>7. LockOwners'
  BY DEF LockDiscipline, LockOwners, GivenUp
<1> QED
  BY <1>1, <1>2, <1>3, <1>4, <1>5, <1>6, <1>7 DEF LockDiscipline

\* The UPDATE finds the seat free, or freed by its own transaction, and locks it.
LEMMA HoldSeatStep ==
  ASSUME IInv, NEW r \in Requests, HoldSeat(r)
  PROVE  LockDiscipline' /\ SeatRowMatchesBookings'
<1> USE DEF IInv, TypeOK, HoldSeat, SeatRowIsFree, Goto, rowVars
<1>1. NotYetBooked'
  BY DEF LockDiscipline, NotYetBooked, InTxn
<1>2. FoundIsExpired'
  BY ReservationAssumption
     DEF LockDiscipline, FoundIsExpired, Expired, Secured, ReservationAssumption
<1>3. CancelIsSecured'
  BY ReservationAssumption
     DEF LockDiscipline, CancelIsSecured, Expired, Secured, ReservationAssumption
<1>4. HolderIsAlone'
  BY ReservationAssumption
     DEF LockDiscipline, HolderIsAlone, SeatRowMatches, ReservationAssumption
<1>5. TxnFollowsCode'
  BY DEF LockDiscipline, TxnFollowsCode, GivenUp
<1>6. SeatRowMatchesBookings'
  BY SameRows
<1>7. LockOwners'
  BY ReservationAssumption DEF LockDiscipline, LockOwners, GivenUp, ReservationAssumption
<1> QED
  BY <1>1, <1>2, <1>3, <1>4, <1>5, <1>6, <1>7 DEF LockDiscipline

\* The UPDATE finds nothing; the row it may have waited for was nobody's, and is locked.
LEMMA SeatUnavailableStep ==
  ASSUME IInv, NEW r \in Requests, SeatUnavailable(r)
  PROVE  LockDiscipline' /\ SeatRowMatchesBookings'
<1> USE DEF IInv, TypeOK, SeatUnavailable, Goto, Tell, rowVars
<1>1. \A s \in SeatIds : \/ seatLock'[s] = seatLock[s]
                         \/ s = seatOf[r] /\ seatLock'[s] = r /\ seatLock[s] \in {r, NoRequest}
  BY DEF SeatRowIsFree
<1>2. NotYetBooked'
  BY DEF LockDiscipline, NotYetBooked, InTxn
<1>3. FoundIsExpired'
  BY <1>1, ReservationAssumption
     DEF LockDiscipline, FoundIsExpired, Expired, Secured, ReservationAssumption
<1>4. CancelIsSecured'
  BY <1>1, ReservationAssumption
     DEF LockDiscipline, CancelIsSecured, Expired, Secured, ReservationAssumption
<1>5. HolderIsAlone'
  BY <1>1, ReservationAssumption DEF LockDiscipline, HolderIsAlone, ReservationAssumption
<1>6. TxnFollowsCode'
  BY DEF LockDiscipline, TxnFollowsCode, GivenUp
<1>7. SeatRowMatchesBookings'
  BY SameRows
<1>8. LockOwners'
  BY <1>1, ReservationAssumption DEF LockDiscipline, LockOwners, GivenUp, ReservationAssumption
<1> QED
  BY <1>2, <1>3, <1>4, <1>5, <1>6, <1>7, <1>8 DEF LockDiscipline

\* The INSERT starts the age of a row that is nobody's expired booking.
LEMMA InsertStep ==
  ASSUME IInv, NEW r \in Requests, InsertBooking(r)
  PROVE  LockDiscipline' /\ SeatRowMatchesBookings'
<1> USE DEF IInv, TypeOK, InsertBooking, Goto
<1>1. booking[r] = "none"
  BY DEF LockDiscipline, NotYetBooked, InTxn
<1>2. NotYetBooked'
  BY DEF LockDiscipline, NotYetBooked, InTxn
<1>3. FoundIsExpired'
  BY <1>1 DEF LockDiscipline, FoundIsExpired, Expired, Secured
<1>4. CancelIsSecured'
  BY <1>1 DEF LockDiscipline, CancelIsSecured, Expired, Secured
<1>5. HolderIsAlone'
  BY DEF LockDiscipline, HolderIsAlone
<1>6. TxnFollowsCode'
  BY DEF LockDiscipline, TxnFollowsCode, GivenUp
<1>7. SeatRowMatchesBookings'
  BY SameRows
<1>8. LockOwners'
  BY DEF LockDiscipline, LockOwners, GivenUp
<1> QED
  BY <1>2, <1>3, <1>4, <1>5, <1>6, <1>7, <1>8 DEF LockDiscipline

\* Time makes no expired booking young again.
LEMMA TickStep ==
  ASSUME IInv, Tick
  PROVE  LockDiscipline' /\ SeatRowMatchesBookings'
<1> USE DEF IInv, TypeOK, Tick, clientVars, txnVars
<1>1. \A b \in Requests : age[b] = BookingTTL => age'[b] = BookingTTL
  BY ReservationAssumption DEF Older, ReservationAssumption
<1>2. NotYetBooked'
  BY DEF LockDiscipline, NotYetBooked, InTxn
<1>3. FoundIsExpired'
  BY <1>1 DEF LockDiscipline, FoundIsExpired, Expired, Secured
<1>4. CancelIsSecured'
  BY <1>1 DEF LockDiscipline, CancelIsSecured, Expired, Secured
<1>5. HolderIsAlone'
  BY DEF LockDiscipline, HolderIsAlone
<1>6. TxnFollowsCode'
  BY DEF LockDiscipline, TxnFollowsCode, GivenUp
<1>7. SeatRowMatchesBookings'
  BY SameRows
<1>8. LockOwners'
  BY DEF LockDiscipline, LockOwners, GivenUp
<1> QED
  BY <1>2, <1>3, <1>4, <1>5, <1>6, <1>7, <1>8 DEF LockDiscipline

\* All but the hold is as it was.
LEMMA IdleStep ==
  ASSUME IInv, UNCHANGED <<clientVars, rowVars, txnVars>>
  PROVE  LockDiscipline' /\ SeatRowMatchesBookings'
<1> USE DEF IInv, clientVars, rowVars, txnVars
<1>1. LockDiscipline'
  BY DEF LockDiscipline, NotYetBooked, FoundIsExpired, CancelIsSecured, HolderIsAlone,
         TxnFollowsCode, LockOwners, Expired, Secured
<1>2. SeatRowMatchesBookings'
  BY SameRows
<1> QED
  BY <1>1, <1>2

\* Who is about to commit is alone with its seat: what is pending there is what it
\* cancels.
LEMMA CommitterIsAlone ==
  ASSUME IInv, NEW r \in Requests, pc[r] \in {"insert", "commit"}
  PROVE  /\ booking[r] = "none" /\ answer[r] = "none"
         /\ seatOf[r] \in Seats
         /\ seatLock[seatOf[r]] = r
         /\ \A b \in Requests : booking[b] = "pending" /\ seatOf[b] = seatOf[r] =>
              b = txn[r].cancels
         /\ txn[r].cancels # NoRequest => Secured(r, txn[r].cancels)
<1>1. booking[r] = "none" /\ answer[r] = "none"
  BY DEF IInv, LockDiscipline, NotYetBooked, InTxn
<1>2. /\ seatOf[r] \in Seats
      /\ seatLock[seatOf[r]] = r
      /\ txn[r].cancels # NoRequest \/ ~isHeld[seatOf[r]]
  BY DEF IInv, LockDiscipline, TxnFollowsCode, HolderIsAlone
<1>3. txn[r].cancels # NoRequest => Secured(r, txn[r].cancels)
  BY DEF IInv, LockDiscipline, CancelIsSecured
<1>4. ASSUME NEW b \in Requests, booking[b] = "pending", seatOf[b] = seatOf[r]
      PROVE  b = txn[r].cancels
  <2>1. isHeld[seatOf[r]]
    BY <1>2, <1>4 DEF IInv, SeatRowMatchesBookings, PendingFor
  <2>2. Secured(r, txn[r].cancels)
    BY <2>1, <1>2, <1>3
  <2> QED
    BY <2>2, <1>4 DEF IInv, SeatRowMatchesBookings, Secured, Expired
<1> QED
  BY <1>1, <1>2, <1>3, <1>4

\* What the server does at COMMIT, whether or not the client hears of it.
LEMMA CommitStep ==
  ASSUME IInv, NEW r \in Requests, pc[r] = "commit",
         CommitBookings(r), CommitSeats(r), EndTxn(r), UNCHANGED <<seatOf, hold, age>>,
         NEW label \in {"release", "done"}, Goto(r, label),
         \A q \in Requests \ {r} : answer'[q] = answer[q]
  PROVE  LockDiscipline' /\ SeatRowMatchesBookings'
<1> USE DEF IInv, TypeOK, Goto, EndTxn, FreeLocks, NoTxn
<1> DEFINE c == txn[r].cancels
<1>1. /\ booking[r] = "none"
      /\ seatOf[r] \in Seats
      /\ seatLock[seatOf[r]] = r
      /\ \A b \in Requests : booking[b] = "pending" /\ seatOf[b] = seatOf[r] => b = c
      /\ c # NoRequest => Secured(r, c)
  BY CommitterIsAlone
<1>2. \A b \in Requests : booking'[b] = IF b = r THEN "pending"
                                        ELSE IF b = c THEN "canceled" ELSE booking[b]
  BY DEF CommitBookings
<1>3. \A q \in Requests \ {r} : pc'[q] = pc[q] /\ txn'[q] = txn[q] /\ found'[q] = found[q]
  OBVIOUS
<1>4. txn'[r] = NoTxn /\ pc'[r] = label
  OBVIOUS
<1>5. \A q \in Requests \ {r} : seatLock[seatOf[q]] = q => seatLock'[seatOf'[q]] = q
  OBVIOUS
<1>6. ASSUME NEW q \in Requests \ {r}, NEW b \in Requests, Expired(q, b)
      PROVE  Expired(q, b)'
  BY <1>1, <1>2, <1>6 DEF Expired
<1>7. ASSUME NEW q \in Requests \ {r}, NEW b \in Requests, Secured(q, b)
      PROVE  Secured(q, b)'
  <2>1. b # r /\ b # c
    BY <1>1, <1>7, ReservationAssumption DEF Secured, ReservationAssumption
  <2> QED
    BY <1>2, <1>6, <1>7, <2>1 DEF Secured
<1>8. NotYetBooked'
  <2>1. ASSUME NEW q \in Requests \ {r}, pc[q] \in {"idle", "acquire"} \cup InTxn
        PROVE  booking'[q] = "none" /\ answer'[q] = "none"
    <3>1. booking[q] = "none" /\ answer[q] = "none"
      BY <2>1 DEF LockDiscipline, NotYetBooked
    <3>2. q # c
      BY <1>1, <3>1, ReservationAssumption DEF Secured, ReservationAssumption
    <3> QED
      BY <1>2, <3>1, <3>2
  <2> QED
    BY <1>3, <1>4, <2>1 DEF NotYetBooked, InTxn
<1>9. FoundIsExpired'
  <2>1. ASSUME NEW q \in Requests \ {r}
        PROVE  /\ pc[q] \in {"lockBooking", "lockSeat"} => Expired(q, found[q])'
               /\ pc[q] = "lockSeat" => bookingLock'[found'[q]] = q
               /\ pc[q] = "cancel" => Secured(q, found[q])' /\ seatLock'[seatOf'[q]] = q
    BY <1>3, <1>5, <1>6, <1>7 DEF LockDiscipline, FoundIsExpired, Secured, Expired
  <2> QED
    BY <1>3, <1>4, <2>1 DEF FoundIsExpired
<1>10. CancelIsSecured'
  <2>1. ASSUME NEW q \in Requests \ {r}, txn[q].cancels # NoRequest
        PROVE  Secured(q, txn[q].cancels)' /\ seatLock'[seatOf'[q]] = q
    BY <1>3, <1>5, <1>7, <2>1 DEF LockDiscipline, CancelIsSecured, Secured, Expired
  <2> QED
    BY <1>3, <1>4, <2>1 DEF CancelIsSecured
<1>11. HolderIsAlone'
  <2>1. ASSUME NEW q \in Requests \ {r}, txn[q].holds
        PROVE  /\ seatOf'[q] \in Seats
               /\ seatLock'[seatOf'[q]] = q
               /\ txn'[q].cancels # NoRequest \/ ~isHeld'[seatOf'[q]]
    <3>1. /\ seatOf[q] \in Seats
          /\ seatLock[seatOf[q]] = q
          /\ txn[q].cancels # NoRequest \/ ~isHeld[seatOf[q]]
      BY <2>1 DEF LockDiscipline, HolderIsAlone
    <3>2. seatOf[q] # seatOf[r]
      BY <1>1, <3>1
    <3>3. isHeld'[seatOf[q]] = isHeld[seatOf[q]]
      BY <3>1, <3>2 DEF CommitSeats
    <3> QED
      BY <1>3, <1>5, <3>1, <3>3
  <2>2. ~txn'[r].holds
    BY <1>4
  <2>3. ASSUME NEW q \in Requests, txn'[q].holds
        PROVE  q # r /\ txn[q].holds
    BY <1>3, <2>2, <2>3
  <2> QED
    BY <2>1, <2>3 DEF HolderIsAlone
<1>12. TxnFollowsCode'
  BY <1>3, <1>4 DEF LockDiscipline, TxnFollowsCode, GivenUp
<1>13. SeatRowMatchesBookings'
  <2>1. ASSUME NEW b \in Requests, booking'[b] = "pending"
        PROVE  seatOf[b] \in Seats /\ (seatOf[b] = seatOf[r] => b = r)
    BY <1>1, <1>2, <2>1 DEF SeatRowMatchesBookings
  <2>2. ASSUME NEW s \in Seats
        PROVE  isHeld'[s] <=> \E b \in Requests : booking'[b] = "pending" /\ seatOf[b] = s
    <3>1. CASE s = seatOf[r]
      BY <1>2, <3>1 DEF CommitSeats
    <3>2. CASE s # seatOf[r]
      <4>1. isHeld'[s] <=> \E b \in Requests : booking[b] = "pending" /\ seatOf[b] = s
        BY <2>2, <3>2 DEF CommitSeats, SeatRowMatchesBookings, PendingFor
      <4>2. ASSUME NEW b \in Requests, seatOf[b] = s
            PROVE  booking'[b] = booking[b]
        <5>1. b # r
          BY <3>2, <4>2
        <5>2. b # c
          BY <1>1, <3>2, <4>2, ReservationAssumption
             DEF Secured, Expired, ReservationAssumption
        <5> QED
          BY <1>2, <5>1, <5>2
      <4> QED
        BY <4>1, <4>2
    <3> QED
      BY <3>1, <3>2
  <2>3. ASSUME NEW a \in Requests, NEW b \in Requests, booking'[a] = "pending",
               booking'[b] = "pending", seatOf[a] = seatOf[b]
        PROVE  a = b
    <3>1. CASE seatOf[a] = seatOf[r]
      BY <2>1, <2>3, <3>1
    <3>2. CASE seatOf[a] # seatOf[r]
      BY <1>2, <2>3, <3>2 DEF SeatRowMatchesBookings
    <3> QED
      BY <3>1, <3>2
  <2> QED
    BY <2>1, <2>2, <2>3 DEF SeatRowMatchesBookings, PendingFor
<1>14. LockOwners'
  BY ReservationAssumption DEF LockDiscipline, LockOwners, GivenUp, ReservationAssumption
<1> QED
  BY <1>8, <1>9, <1>10, <1>11, <1>12, <1>13, <1>14 DEF LockDiscipline

\* The inductive step: each statement of reserve_booking keeps the strengthened
\* invariant, whatever the other requests' transactions hold.
LEMMA NextIInv == IInv /\ [Next]_vars => IInv'
<1> SUFFICES ASSUME IInv, [Next]_vars
             PROVE  LockDiscipline' /\ SeatRowMatchesBookings'
  BY NextTyped DEF IInv
<1> USE DEF IInv, TypeOK
<1>1. ASSUME NEW r \in Requests,
             Arrive(r) \/ AcquireHold(r) \/ RefuseHeld(r) \/ AcquireFails(r)
      PROVE  LockDiscipline' /\ SeatRowMatchesBookings'
  BY <1>1, QuietStep DEF Arrive, AcquireHold, RefuseHeld, AcquireFails, Tell
<1>2. ASSUME NEW r \in Requests, ReleaseHold(r) \/ ReleaseFails(r)
      PROVE  LockDiscipline' /\ SeatRowMatchesBookings'
  BY <1>2, QuietStep DEF ReleaseHold, ReleaseFails
<1>3. ASSUME NEW r \in Requests, DbError(r) \/ Rollback(r) \/ Crash(r)
      PROVE  LockDiscipline' /\ SeatRowMatchesBookings'
  <2>1. CASE EndTxn(r)
    BY <1>3, <2>1, AbortStep DEF DbError, Rollback, Crash, Tell
  <2>2. CASE ~EndTxn(r)
    BY <1>3, <2>2, QuietStep DEF DbError, Rollback, Crash, Tell
  <2> QED
    BY <2>1, <2>2
<1>4. ASSUME NEW r \in Requests, Commit(r) \/ CommitReplyLost(r)
      PROVE  LockDiscipline' /\ SeatRowMatchesBookings'
  BY <1>4, CommitStep DEF Commit, CommitReplyLost, Tell
<1>5. CASE RedisRestart \/ UNCHANGED vars
  BY <1>5, IdleStep DEF RedisRestart, vars
<1>6. ASSUME NEW r \in Requests, Repeat(r)
      PROVE  LockDiscipline' /\ SeatRowMatchesBookings'
  BY <1>6, IdleStep DEF Repeat, RepeatAcquire, RepeatRelease
<1> QED
  BY <1>1, <1>2, <1>3, <1>4, <1>5, <1>6, SelectStep, LockBookingStep, LockSeatStep,
     CancelStep, TryHoldStep, HoldSeatStep, SeatUnavailableStep, InsertStep, TickStep
     DEF Next, Step, Fail

\* So it holds of every execution.
LEMMA Invariance == Spec => []IInv
BY InitIInv, NextIInv, PTL DEF Spec

\* The row locks hold what each transaction relies on.
THEOREM LocksHold == Spec => []LockDiscipline
BY Invariance, PTL DEF IInv

\* is_held tells whether the seat has a pending booking, and it has at most one.
THEOREM TablesAgree == Spec => []SeatRowMatchesBookings
BY Invariance, PTL DEF IInv

\* The row locks of a transaction about to INSERT exclude whatever the unique index
\* uc_seat_id_status would refuse.
LEMMA InsertIsAllowed == IInv => InsertNeverConflicts
<1> SUFFICES ASSUME IInv, NEW r \in Requests, pc[r] = "insert",
                    NEW b \in Requests \ {r}, seatOf[b] = seatOf[r]
             PROVE  ~txn[b].inserts /\ (booking[b] = "pending" => txn[r].cancels = b)
  BY DEF InsertNeverConflicts, UniqueIndexAllows
<1>1. seatLock[seatOf[r]] = r /\ (booking[b] = "pending" => txn[r].cancels = b)
  BY CommitterIsAlone
<1>2. ASSUME txn[b].inserts
      PROVE  FALSE
  <2>1. seatLock[seatOf[b]] = b
    BY <1>2 DEF IInv, LockDiscipline, TxnFollowsCode, HolderIsAlone
  <2> QED
    BY <1>1, <2>1
<1> QED
  BY <1>1, <1>2

\* The unique index is never met: the row locks alone keep a second booking out.
THEOREM IndexIsBackstop == Spec => []InsertNeverConflicts
BY Invariance, InsertIsAllowed, PTL

-----------------------------------------------------------------------------
(* The waits for row locks.                                                *)

\* Who has the lock of a seat is past every wait: its own lock is the only one the
\* UPDATE can meet, and the unique index admits its row.
LEMMA SeatOwnerRuns ==
  ASSUME IInv, NEW q \in Requests, NEW s \in SeatIds, seatLock[s] = q
  PROVE  Runs(q)
<1>1. /\ s = seatOf[q]
      /\ pc[q] \in {"cancel", "tryHold", "holdSeat", "insert", "commit"} \cup GivenUp
  BY DEF IInv, LockDiscipline, LockOwners
<1>2. ASSUME NEW p \in Requests, WaitsFor(q, p)
      PROVE  FALSE
  <2>1. CASE pc[q] = "holdSeat"
    BY <1>1, <1>2, <2>1 DEF WaitsFor
  <2>2. CASE pc[q] = "insert"
    <3>1. p # q /\ txn[p].inserts /\ seatOf[p] = seatOf[q]
      BY <1>2, <2>2 DEF WaitsFor
    <3>2. UniqueIndexAllows(q)
      BY <2>2, InsertIsAllowed DEF InsertNeverConflicts
    <3> QED
      BY <3>1, <3>2 DEF UniqueIndexAllows
  <2> QED
    BY <1>1, <1>2, <2>1, <2>2 DEF WaitsFor, GivenUp
<1> QED
  BY <1>1, <1>2 DEF Runs, HasSession, Reserving, InTxn, GivenUp

\* Who waits, but not for a booking, waits for the owner of the seat, and runs as soon
\* as that has ended.
LEMMA SeatWaitersMeetOwner ==
  ASSUME IInv, NEW r \in Requests, NEW q \in Requests, WaitsFor(r, q),
         pc[r] # "lockBooking"
  PROVE  Runs(q)
<1>1. seatOf[r] \in SeatIds /\ seatOf[q] \in SeatIds
  BY DEF IInv, TypeOK
<1>2. CASE pc[r] \in {"lockSeat", "holdSeat"}
  BY <1>1, <1>2, SeatOwnerRuns DEF WaitsFor
<1>3. CASE pc[r] = "insert"
  <2>1. txn[q].inserts
    BY <1>3 DEF WaitsFor
  <2>2. seatLock[seatOf[q]] = q
    BY <2>1 DEF IInv, LockDiscipline, TxnFollowsCode, HolderIsAlone
  <2> QED
    BY <1>1, <2>2, SeatOwnerRuns
<1> QED
  BY <1>2, <1>3 DEF WaitsFor

\* So a wait for a booking is a wait for a transaction that waits, if at all, for the
\* owner of the seat.
LEMMA OwnersRun == IInv => WaitsEnd
<1> SUFFICES ASSUME IInv, NEW r \in Requests, NEW q \in Requests, WaitsFor(r, q)
             PROVE  /\ HasSession(q)
                    /\ \A p \in Requests : WaitsFor(q, p) => pc[r] = "lockBooking" /\ Runs(p)
  BY DEF WaitsEnd
<1>1. CASE pc[r] # "lockBooking"
  BY <1>1, SeatWaitersMeetOwner DEF Runs
<1>2. CASE pc[r] = "lockBooking"
  <2>1. found[r] \in Requests /\ bookingLock[found[r]] = q
    BY <1>2 DEF WaitsFor, IInv, LockDiscipline, FoundIsExpired, Expired
  <2>2. pc[q] \in {"lockSeat", "cancel", "tryHold", "holdSeat", "insert", "commit"} \cup GivenUp
    BY <2>1 DEF IInv, LockDiscipline, LockOwners
  <2>3. HasSession(q)
    BY <2>2 DEF HasSession, Reserving, InTxn, GivenUp
  <2>4. ASSUME NEW p \in Requests, WaitsFor(q, p)
        PROVE  Runs(p)
    BY <2>2, <2>4, SeatWaitersMeetOwner DEF GivenUp
  <2> QED
    BY <1>2, <2>3, <2>4
<1> QED
  BY <1>1, <1>2

\* The row locks close no circle, whatever the number of requests and seats.
THEOREM WaitsAreForRunners == Spec => []WaitsEnd
BY Invariance, OwnersRun, PTL

-----------------------------------------------------------------------------
(* The promise to the client, and how a seat changes hands.                *)

\* Only a COMMIT changes bookings, and only the committer's own and the one it cancels.
LEMMA BookingChanges ==
  ASSUME IInv, [Next]_vars, NEW b \in Requests, booking'[b] # booking[b]
  PROVE  \E r \in Requests :
           /\ pc[r] = "commit"
           /\ Commit(r) \/ CommitReplyLost(r)
           /\ \/ b = r /\ booking[b] = "none" /\ booking'[b] = "pending"
              \/ b # r /\ b = txn[r].cancels /\ Secured(r, b) /\ booking'[b] = "canceled"
<1>1. CASE Tick \/ RedisRestart \/ UNCHANGED vars
  BY <1>1 DEF Tick, RedisRestart, vars, rowVars
<1>2. ASSUME NEW r \in Requests, Arrive(r) \/ Step(r) \/ Fail(r),
             ~(Commit(r) \/ CommitReplyLost(r))
      PROVE  FALSE
  BY <1>2 DEF Arrive, Step, Fail, AcquireHold, RefuseHeld, AcquireFails, SelectExpired,
              LockBooking, LockSeat, CancelExpired, TryHoldSeat, HoldSeat, SeatUnavailable,
              InsertBooking, DbError, ReleaseHold, ReleaseFails, Repeat, RepeatAcquire,
              RepeatRelease, Rollback, Crash, rowVars
<1>3. ASSUME NEW r \in Requests, Commit(r) \/ CommitReplyLost(r)
      PROVE  /\ pc[r] = "commit"
             /\ \/ b = r /\ booking[b] = "none" /\ booking'[b] = "pending"
                \/ b # r /\ b = txn[r].cancels /\ Secured(r, b) /\ booking'[b] = "canceled"
  <2>1. pc[r] = "commit" /\ CommitBookings(r)
    BY <1>3 DEF Commit, CommitReplyLost
  <2>2. booking[r] = "none" /\ (txn[r].cancels # NoRequest => Secured(r, txn[r].cancels))
    BY <2>1, CommitterIsAlone
  <2>3. booking'[b] = IF b = r THEN "pending"
                      ELSE IF b = txn[r].cancels THEN "canceled" ELSE booking[b]
    BY <2>1 DEF CommitBookings
  <2> QED
    BY <2>1, <2>2, <2>3, ReservationAssumption DEF ReservationAssumption
<1> QED
  BY <1>1, <1>2, <1>3 DEF Next

\* An expired booking is canceled only by the COMMIT of its successor, together with it.
THEOREM SeatsAreHandedOver == Spec => HandoverIsAtomic
<1> DEFINE Handover == \A b \in Requests :
             booking[b] = "pending" /\ booking'[b] # "pending" =>
               /\ booking'[b] = "canceled" /\ age[b] = BookingTTL
               /\ \E r \in Requests \ {b} :
                    /\ seatOf[r] = seatOf[b]
                    /\ booking[r] = "none" /\ booking'[r] = "pending"
<1>1. ASSUME IInv, [Next]_vars
      PROVE  Handover
  <2> SUFFICES ASSUME NEW b \in Requests, booking[b] = "pending", booking'[b] # "pending"
               PROVE  /\ booking'[b] = "canceled" /\ age[b] = BookingTTL
                      /\ \E r \in Requests \ {b} :
                           /\ seatOf[r] = seatOf[b]
                           /\ booking[r] = "none" /\ booking'[r] = "pending"
    OBVIOUS
  <2>1. PICK r \in Requests :
          /\ pc[r] = "commit"
          /\ Commit(r) \/ CommitReplyLost(r)
          /\ b # r /\ Secured(r, b) /\ booking'[b] = "canceled"
    BY <1>1, BookingChanges
  <2>2. booking[r] = "none" /\ booking'[r] = "pending"
    BY <1>1, <2>1, CommitterIsAlone
       DEF Commit, CommitReplyLost, CommitBookings
  <2> QED
    BY <2>1, <2>2 DEF Secured, Expired
<1>2. IInv /\ [Next]_vars => [Handover]_vars
  BY <1>1
<1> QED
  BY <1>2, Invariance, PTL DEF Spec, HandoverIsAtomic

\* Only create_one and time change an age, and neither makes a row of the table younger.
LEMMA AgesGrow ==
  ASSUME IInv, [Next]_vars, NEW b \in Requests, booking[b] # "none", age[b] = BookingTTL
  PROVE  age'[b] = BookingTTL
<1> USE DEF IInv, TypeOK
<1>1. CASE Tick
  BY <1>1, ReservationAssumption DEF Tick, Older, ReservationAssumption
<1>2. ASSUME NEW r \in Requests, InsertBooking(r)
      PROVE  age'[b] = BookingTTL
  <2>1. b # r
    BY <1>2 DEF InsertBooking, LockDiscipline, NotYetBooked, InTxn
  <2> QED
    BY <1>2, <2>1 DEF InsertBooking
<1>3. CASE RedisRestart \/ UNCHANGED vars
  BY <1>3 DEF RedisRestart, vars, rowVars
<1>4. ASSUME NEW r \in Requests, Arrive(r) \/ Step(r) \/ Fail(r), ~InsertBooking(r)
      PROVE  age'[b] = BookingTTL
  BY <1>4 DEF Arrive, Step, Fail, AcquireHold, RefuseHeld, AcquireFails, SelectExpired,
              LockBooking, LockSeat, CancelExpired, TryHoldSeat, HoldSeat, SeatUnavailable, Commit,
              CommitReplyLost, DbError, ReleaseHold, ReleaseFails, Repeat, RepeatAcquire,
              RepeatRelease, Rollback, Crash, rowVars
<1> QED
  BY <1>1, <1>2, <1>3, <1>4 DEF Next

\* The answer "ok" is given by the COMMIT and by nothing else.
LEMMA AnswersOk ==
  ASSUME IInv, [Next]_vars, NEW q \in Requests, answer'[q] = "ok", answer[q] # "ok"
  PROVE  booking'[q] = "pending"
<1> USE DEF IInv, TypeOK, Tell
<1>1. CASE Tick \/ RedisRestart \/ UNCHANGED vars
  BY <1>1 DEF Tick, RedisRestart, vars, clientVars
<1>2. ASSUME NEW r \in Requests, Arrive(r) \/ Step(r) \/ Fail(r), ~Commit(r)
      PROVE  FALSE
  BY <1>2 DEF Arrive, Step, Fail, AcquireHold, RefuseHeld, AcquireFails, SelectExpired,
              LockBooking, LockSeat, CancelExpired, TryHoldSeat, HoldSeat, SeatUnavailable,
              InsertBooking, CommitReplyLost, DbError, ReleaseHold, ReleaseFails,
              Repeat, RepeatAcquire, RepeatRelease, Rollback, Crash, clientVars
<1>3. ASSUME NEW r \in Requests, Commit(r)
      PROVE  booking'[q] = "pending"
  BY <1>3 DEF Commit, CommitBookings
<1> QED
  BY <1>1, <1>2, <1>3 DEF Next

\* Whoever is told of a reservation has the seat for as long as a booking lives.
THEOREM AcceptedSeatsAreKept == Spec => []AcceptedKeepsSeat
<1>1. Init => AcceptedKeepsSeat
  BY DEF Init, AcceptedKeepsSeat
<1>2. IInv /\ AcceptedKeepsSeat /\ [Next]_vars => AcceptedKeepsSeat'
  <2> SUFFICES ASSUME IInv, AcceptedKeepsSeat, [Next]_vars,
                      NEW q \in Requests, answer'[q] = "ok"
               PROVE  \/ booking'[q] = "pending"
                      \/ booking'[q] = "canceled" /\ age'[q] = BookingTTL
    BY ReservationAssumption DEF AcceptedKeepsSeat
  <2>1. CASE answer[q] # "ok"
    BY <2>1, AnswersOk
  <2>2. CASE answer[q] = "ok" /\ booking'[q] = booking[q]
    <3>1. booking[q] = "pending" \/ (booking[q] = "canceled" /\ age[q] = BookingTTL)
      BY <2>2 DEF AcceptedKeepsSeat
    <3> QED
      BY <2>2, <3>1, AgesGrow
  <2>3. CASE answer[q] = "ok" /\ booking'[q] # booking[q]
    <3>1. PICK r \in Requests :
            \/ booking'[q] = "pending"
            \/ Secured(r, q) /\ booking'[q] = "canceled"
      BY <2>3, BookingChanges
    <3> QED
      BY <3>1, AgesGrow DEF Secured, Expired
  <2> QED
    BY <2>1, <2>2, <2>3
<1> QED
  BY <1>1, <1>2, Invariance, PTL DEF Spec

-----------------------------------------------------------------------------
(* The hold in Redis.                                                      *)

\* What the hold of one key may become: gone, run down by a tick, as it was, or set
\* anew by a request that has no booking.
LEMMA HoldChanges ==
  ASSUME IInv, [Next]_vars, NEW s \in SeatIds
  PROVE  \/ hold'[s] = NoHold
         \/ hold'[s] = hold[s] /\ ~Tick
         \/ hold'[s] = Decay(hold[s]) /\ Tick
         \/ \E r \in Requests : /\ hold'[s] = NewHold(r) /\ booking'[r] = "none"
                                /\ ~txn'[r].inserts
<1> USE DEF IInv, TypeOK
<1>1. CASE Tick
  BY <1>1 DEF Tick
<1>2. CASE RedisRestart
  BY <1>2 DEF RedisRestart
<1>3. ASSUME NEW r \in Requests, AcquireHold(r) \/ AcquireFails(r) \/ RepeatAcquire(r), ~Tick
      PROVE  \/ hold'[s] = hold[s]
             \/ hold'[s] = NewHold(r) /\ booking'[r] = "none" /\ ~txn'[r].inserts
  BY <1>3 DEF AcquireHold, AcquireFails, RepeatAcquire, rowVars, txnVars,
              LockDiscipline, NotYetBooked, TxnFollowsCode, GivenUp
<1>4. ASSUME NEW r \in Requests, ReleaseHold(r) \/ ReleaseFails(r) \/ RepeatRelease(r)
      PROVE  hold'[s] = NoHold \/ hold'[s] = hold[s]
  BY <1>4 DEF ReleaseHold, ReleaseFails, RepeatRelease
<1>5. ASSUME NEW r \in Requests, Arrive(r) \/ Step(r) \/ Fail(r),
             ~(AcquireHold(r) \/ AcquireFails(r) \/ ReleaseHold(r) \/ ReleaseFails(r)),
             ~Repeat(r)
      PROVE  hold'[s] = hold[s]
  BY <1>5 DEF Arrive, Step, Fail, RefuseHeld, SelectExpired, LockBooking, LockSeat,
              CancelExpired, TryHoldSeat, HoldSeat, SeatUnavailable, InsertBooking, Commit,
              CommitReplyLost, DbError, Rollback, Crash
<1>6. CASE UNCHANGED vars /\ ~Tick
  BY <1>6 DEF vars
<1> QED
  BY <1>1, <1>2, <1>3, <1>4, <1>5, <1>6 DEF Next, Repeat

\* The other writes of a transaction, and its end, add no booking to it.
LEMMA OnlyInsertInserts ==
  ASSUME TypeOK, NEW q \in Requests, NEW r \in Requests,
         CancelExpired(q) \/ HoldSeat(q) \/ EndTxn(q), txn'[r].inserts
  PROVE  txn[r].inserts
<1> DEFINE T == [cancels : Requests \cup {NoRequest}, holds : BOOLEAN, inserts : BOOLEAN]
<1>1. txn \in [Requests -> T]
  BY DEF TypeOK
<1>2. CASE EndTxn(q)
  BY <1>1, <1>2 DEF EndTxn, NoTxn
<1>3. CASE CancelExpired(q)
  BY <1>1, <1>3 DEF CancelExpired
<1>4. CASE HoldSeat(q)
  BY <1>1, <1>4 DEF HoldSeat
<1> QED
  BY <1>2, <1>3, <1>4

\* A booking whose INSERT was done or that is pending was so before, unless this is
\* its INSERT.
LEMMA AgeChanges ==
  ASSUME IInv, [Next]_vars, NEW r \in Requests, booking'[r] = "pending" \/ txn'[r].inserts
  PROVE  \/ age'[r] = 0 /\ ~Tick
         \/ /\ booking[r] = "pending" \/ txn[r].inserts
            /\ age'[r] = IF Tick THEN Older(age[r]) ELSE age[r]
<1> USE DEF IInv, TypeOK
<1>1. CASE Tick
  BY <1>1 DEF Tick, HasRow, rowVars, txnVars
<1>2. CASE (RedisRestart \/ UNCHANGED vars) /\ ~Tick
  BY <1>2 DEF RedisRestart, vars, rowVars, txnVars
<1>3. ASSUME NEW q \in Requests, InsertBooking(q), ~Tick
      PROVE  \/ age'[r] = 0
             \/ (booking[r] = "pending" \/ txn[r].inserts) /\ age'[r] = age[r]
  BY <1>3 DEF InsertBooking
<1>4. ASSUME NEW q \in Requests, Commit(q) \/ CommitReplyLost(q)
      PROVE  (booking[r] = "pending" \/ txn[r].inserts) /\ age'[r] = age[r]
  BY <1>4 DEF Commit, CommitReplyLost, CommitBookings, EndTxn, NoTxn, LockDiscipline,
              TxnFollowsCode
<1>5. ASSUME NEW q \in Requests, Arrive(q) \/ Step(q) \/ Fail(q),
             ~(InsertBooking(q) \/ Commit(q) \/ CommitReplyLost(q))
      PROVE  (booking[r] = "pending" \/ txn[r].inserts) /\ age'[r] = age[r]
  <2>1. UNCHANGED <<booking, age>>
    BY <1>5 DEF Arrive, Step, Fail, AcquireHold, RefuseHeld, AcquireFails, SelectExpired,
                LockBooking, LockSeat, CancelExpired, TryHoldSeat, HoldSeat,
                SeatUnavailable, DbError,
                ReleaseHold, ReleaseFails, Repeat, RepeatAcquire, RepeatRelease,
                Rollback, Crash, rowVars
  <2>2. txn'[r].inserts => txn[r].inserts
    <3>1. CASE CancelExpired(q) \/ HoldSeat(q)
      BY <3>1, OnlyInsertInserts
    <3>2. CASE DbError(q) \/ Rollback(q) \/ Crash(q)
      BY <3>2, OnlyInsertInserts DEF DbError, Rollback, Crash, txnVars
    <3>3. CASE ~(\/ CancelExpired(q) \/ HoldSeat(q)
                 \/ DbError(q) \/ Rollback(q) \/ Crash(q))
      BY <1>5, <3>3 DEF Arrive, Step, Fail, AcquireHold, RefuseHeld, AcquireFails,
                        SelectExpired, LockBooking, LockSeat, TryHoldSeat,
                        SeatUnavailable, ReleaseHold, ReleaseFails, Repeat, RepeatAcquire,
                        RepeatRelease, txnVars
    <3> QED
      BY <3>1, <3>2, <3>3
  <2> QED
    BY <2>1, <2>2
<1> QED
  BY <1>1, <1>2, <1>3, <1>4, <1>5 DEF Next

\* A request keeps the seat_id of its path.
LEMMA SeatOfIsFixed ==
  ASSUME [Next]_vars
  PROVE  seatOf' = seatOf
BY DEF Next, Arrive, Step, Fail, AcquireHold, RefuseHeld, AcquireFails, SelectExpired,
       LockBooking, LockSeat, CancelExpired, TryHoldSeat, HoldSeat, SeatUnavailable, InsertBooking,
       Commit, CommitReplyLost, DbError, ReleaseHold, ReleaseFails, Repeat, RepeatAcquire,
       RepeatRelease, Rollback, Crash, Tick, RedisRestart, vars, clientVars

\* A hold is gone by the time its own booking has expired.
THEOREM HoldsEndWithBookings == Spec => []HoldWithinBooking
<1>1. Init => HoldWithinBooking
  BY ReservationAssumption DEF Init, HoldWithinBooking, NoTxn, ReservationAssumption
<1>2. IInv /\ HoldWithinBooking /\ [Next]_vars => HoldWithinBooking'
  <2> SUFFICES ASSUME IInv, HoldWithinBooking, [Next]_vars, NEW r \in Requests,
                      hold'[seatOf[r]].by = r, booking'[r] = "pending" \/ txn'[r].inserts
               PROVE  hold'[seatOf[r]].ttl + age'[r] <= BookingTTL
    BY SeatOfIsFixed DEF HoldWithinBooking
  <2> DEFINE h == hold[seatOf[r]]
  <2>1. /\ h \in [by : Requests \cup {NoRequest}, ttl : 0..HoldTTL]
        /\ age[r] \in 0..BookingTTL
        /\ seatOf[r] \in SeatIds
    BY DEF IInv, TypeOK
  <2>2. \/ hold'[seatOf[r]] = h /\ ~Tick
        \/ hold'[seatOf[r]] = [h EXCEPT !.ttl = @ - 1] /\ h.ttl > 1 /\ Tick
    <3>1. hold'[seatOf[r]] # NoHold
      BY ReservationAssumption DEF NoHold, ReservationAssumption
    <3>2. ASSUME NEW q \in Requests, hold'[seatOf[r]] = NewHold(q)
          PROVE  ~(booking'[q] = "none" /\ ~txn'[q].inserts)
      <4>1. q = r
        BY <3>2 DEF NewHold
      <4> QED
        BY <4>1
    <3>3. \/ hold'[seatOf[r]] = h /\ ~Tick
          \/ hold'[seatOf[r]] = Decay(h) /\ Tick
      BY <2>1, <3>1, <3>2, HoldChanges
    <3> QED
      BY <2>1, <3>1, <3>3 DEF Decay
  <2>3. \/ age'[r] = 0 /\ ~Tick
        \/ /\ booking[r] = "pending" \/ txn[r].inserts
           /\ age'[r] = IF Tick THEN Older(age[r]) ELSE age[r]
    BY AgeChanges
  <2>4. CASE ~Tick /\ age'[r] = 0
    BY <2>1, <2>2, <2>4, ReservationAssumption DEF ReservationAssumption
  <2>5. CASE ~Tick /\ age'[r] # 0
    BY <2>2, <2>3, <2>5 DEF HoldWithinBooking
  <2>6. CASE Tick
    <3>1. h.by = r /\ hold'[seatOf[r]].ttl = h.ttl - 1
      BY <2>1, <2>2, <2>6
    <3>2. h.ttl + age[r] <= BookingTTL
      BY <2>3, <2>6, <3>1 DEF HoldWithinBooking
    <3>3. age'[r] <= age[r] + 1 /\ age'[r] \in Nat
      BY <2>1, <2>3, <2>6, ReservationAssumption DEF Older, ReservationAssumption
    <3> QED
      BY <2>1, <3>1, <3>2, <3>3, ReservationAssumption DEF ReservationAssumption
  <2> QED
    BY <2>4, <2>5, <2>6
<1> QED
  BY <1>1, <1>2, Invariance, PTL DEF Spec

-----------------------------------------------------------------------------
(* Mutual exclusion by the hold, where no request is outlived by it.       *)

\* Whoever is in the critical section owns the key.
OwnsHold ==
  \A r \in Requests : pc[r] \in Reserving =>
    hold[seatOf[r]].by = r /\ hold[seatOf[r]].ttl > 0

\* Promptness only leaves out steps.
LEMMA PromptNextIsNext == [PromptNext]_vars => [Next]_vars
BY DEF PromptNext, Next

\* A step of r that leaves the hold alone and does not enter the critical section.
LEMMA SameHold ==
  ASSUME TypeOK, OwnsHold, NEW r \in Requests, NEW label, Goto(r, label),
         label \in Reserving => pc[r] \in Reserving,
         UNCHANGED <<seatOf, hold>>
  PROVE  OwnsHold'
BY DEF TypeOK, OwnsHold, Goto

\* While holds outlive their requests, a request inside reserve_booking owns its key:
\* nobody else can set it, and nobody else is there to delete it.
LEMMA PromptStep == TypeOK /\ OwnsHold /\ [PromptNext]_vars => OwnsHold'
<1> SUFFICES ASSUME TypeOK, OwnsHold, [PromptNext]_vars
             PROVE  OwnsHold'
  OBVIOUS
<1>1. ASSUME NEW r \in Requests, AcquireHold(r)
      PROVE  OwnsHold'
  <2>1. /\ hold[seatOf[r]].ttl = 0
        /\ hold' = [hold EXCEPT ![seatOf[r]] = NewHold(r)]
        /\ pc' = [pc EXCEPT ![r] = "select"] /\ seatOf' = seatOf
    BY <1>1 DEF AcquireHold, KeyIsFree, Goto
  <2>2. ASSUME NEW q \in Requests \ {r}, pc[q] \in Reserving
        PROVE  hold'[seatOf[q]] = hold[seatOf[q]]
    BY <2>1, <2>2 DEF TypeOK, OwnsHold
  <2>3. hold'[seatOf[r]].by = r /\ hold'[seatOf[r]].ttl > 0
    BY <2>1, ReservationAssumption DEF TypeOK, NewHold, ReservationAssumption
  <2>4. \A q \in Requests \ {r} : pc'[q] = pc[q]
    BY <2>1 DEF TypeOK
  <2> QED
    BY <2>1, <2>2, <2>3, <2>4 DEF OwnsHold
<1>2. ASSUME NEW r \in Requests, AcquireFails(r)
      PROVE  OwnsHold'
  <2>1. /\ hold' = hold \/ (hold[seatOf[r]].ttl = 0
                            /\ hold' = [hold EXCEPT ![seatOf[r]] = NewHold(r)])
        /\ pc' = [pc EXCEPT ![r] = "rollback"] /\ seatOf' = seatOf
    BY <1>2 DEF AcquireFails, KeyIsFree, Goto
  <2>2. ASSUME NEW q \in Requests \ {r}, pc[q] \in Reserving
        PROVE  hold'[seatOf[q]] = hold[seatOf[q]]
    BY <2>1, <2>2 DEF TypeOK, OwnsHold
  <2>3. pc'[r] \notin Reserving /\ \A q \in Requests \ {r} : pc'[q] = pc[q]
    BY <2>1 DEF TypeOK, Reserving, InTxn
  <2> QED
    BY <2>1, <2>2, <2>3 DEF OwnsHold
<1>3. ASSUME NEW r \in Requests, ReleaseHold(r)
      PROVE  OwnsHold'
  <2>1. /\ pc[r] = "release"
        /\ hold' = [hold EXCEPT ![seatOf[r]] = NoHold]
        /\ pc' = [pc EXCEPT ![r] = "rollback"] /\ seatOf' = seatOf
    BY <1>3 DEF ReleaseHold, Goto
  <2>2. ASSUME NEW q \in Requests \ {r}, pc[q] \in Reserving
        PROVE  hold'[seatOf[q]] = hold[seatOf[q]]
    <3>1. hold[seatOf[r]].by = r /\ hold[seatOf[q]].by = q
      BY <2>1, <2>2 DEF OwnsHold, Reserving
    <3> QED
      BY <2>1, <3>1 DEF TypeOK
  <2>3. pc'[r] \notin Reserving /\ \A q \in Requests \ {r} : pc'[q] = pc[q]
    BY <2>1 DEF TypeOK, Reserving, InTxn
  <2> QED
    BY <2>1, <2>2, <2>3 DEF OwnsHold
<1>4. ASSUME NEW r \in Requests,
             Arrive(r) \/ RefuseHeld(r) \/ ReleaseFails(r) \/ Rollback(r) \/ Crash(r)
      PROVE  OwnsHold'
  BY <1>4, SameHold
     DEF Arrive, RefuseHeld, ReleaseFails, Rollback, Crash, Reserving, InTxn
<1>5. ASSUME NEW r \in Requests,
             \/ SelectExpired(r) \/ LockBooking(r) \/ LockSeat(r) \/ CancelExpired(r)
             \/ TryHoldSeat(r) \/ HoldSeat(r) \/ SeatUnavailable(r) \/ InsertBooking(r)
             \/ Commit(r) \/ CommitReplyLost(r) \/ DbError(r)
      PROVE  OwnsHold'
  <2>1. pc[r] \in Reserving /\ UNCHANGED <<seatOf, hold>>
    BY <1>5 DEF SelectExpired, LockBooking, LockSeat, CancelExpired, TryHoldSeat, HoldSeat,
                SeatUnavailable, InsertBooking, Commit, CommitReplyLost, DbError,
                Reserving, InTxn
  <2>2. \E label : Goto(r, label)
    BY <1>5 DEF SelectExpired, LockBooking, LockSeat, CancelExpired, TryHoldSeat, HoldSeat,
                SeatUnavailable, InsertBooking, Commit, CommitReplyLost, DbError
  <2> QED
    BY <2>1, <2>2, SameHold
<1>6. CASE Tick /\ \A r \in Requests : ~HoldRunsOut(r)
  <2>1. UNCHANGED <<seatOf, pc>>
    BY <1>6 DEF Tick, clientVars
  <2>2. ASSUME NEW r \in Requests, pc[r] \in Reserving
        PROVE  hold'[seatOf[r]].by = r /\ hold'[seatOf[r]].ttl > 0
    <3>1. /\ hold[seatOf[r]] \in [by : Requests \cup {NoRequest}, ttl : 0..HoldTTL]
          /\ seatOf[r] \in SeatIds
      BY DEF TypeOK
    <3>2. hold[seatOf[r]].by = r /\ ~(hold[seatOf[r]].ttl <= 1)
      BY <1>6, <2>2 DEF OwnsHold, HoldRunsOut
    <3>3. hold'[seatOf[r]] = [hold[seatOf[r]] EXCEPT !.ttl = @ - 1]
      BY <1>6, <3>1, <3>2 DEF Tick, Decay
    <3> QED
      BY <3>1, <3>2, <3>3, ReservationAssumption DEF ReservationAssumption
  <2> QED
    BY <2>1, <2>2 DEF OwnsHold
<1>7. CASE UNCHANGED vars
  BY <1>7 DEF OwnsHold, vars, clientVars
<1> QED
  BY <1>1, <1>2, <1>3, <1>4, <1>5, <1>6, <1>7 DEF PromptNext, Step, Fail

\* So it holds of every execution in which no hold runs out under its request.
LEMMA PromptInvariance == PromptSpec => [](TypeOK /\ OwnsHold)
<1>1. Init => TypeOK /\ OwnsHold
  BY InitTyped DEF Init, OwnsHold, Reserving, InTxn
<1>2. TypeOK /\ OwnsHold /\ [PromptNext]_vars => TypeOK' /\ OwnsHold'
  BY PromptStep, PromptNextIsNext, NextTyped
<1> QED
  BY <1>1, <1>2, PTL DEF PromptSpec

\* If every request leaves before its hold runs out, Redis stays up and no command is
\* repeated, the hold admits one request per seat to the database.
THEOREM HoldIsALock == PromptSpec => []HoldSerialises
<1>1. OwnsHold => HoldSerialises
  BY DEF OwnsHold, HoldSerialises
<1> QED
  BY <1>1, PromptInvariance, PTL

\* Then the DEL of release_hold meets the key that its own request has set, which is what
\* its comment promises and what a late request breaks.
THEOREM OwnHoldIsReleased == PromptSpec => ReleaseOnlyOwnHold
<1>1. OwnsHold => \A r \in Requests : ReleaseHold(r) =>
                    hold[seatOf[r]].by \in {r, NoRequest}
  BY DEF OwnsHold, ReleaseHold, Reserving
<1>2. OwnsHold /\ [PromptNext]_vars =>
        [\A r \in Requests : ReleaseHold(r) =>
           hold[seatOf[r]].by \in {r, NoRequest}]_vars
  BY <1>1
<1> QED
  BY <1>2, PromptInvariance, PTL DEF PromptSpec, ReleaseOnlyOwnHold
=============================================================================
