----------------------- MODULE ReservationRefinement -----------------------
(***************************************************************************)
(* Proof that module Reservation implements module SeatLedger: whatever    *)
(* happens to holds, transactions and replies, seats are granted one by    *)
(* one, kept for the life of a booking, and told of only when granted.     *)
(***************************************************************************)
EXTENDS ReservationProofs

\* The refinement mapping, name by name.
Owner == [s \in Seats |-> OwnerOf(s)]

GrantAge == [r \in Requests |-> IF booking[r] = "none" THEN 0 ELSE age[r]]

Granted == {r \in Requests : booking[r] # "none"}

Told == {r \in Requests : answer[r] = "ok"}

\* No booking at the start: nobody owns a seat.
LEMMA InitRefines == Init => Ledger!Init
BY DEF Init, Ledger!Init, OwnerOf, PendingFor

\* The steps that publish nothing.
Silent ==
  \/ \E r \in Requests : /\ Arrive(r) \/ Step(r) \/ Fail(r)
                         /\ ~Commit(r) /\ ~CommitReplyLost(r)
  \/ RedisRestart
  \/ UNCHANGED vars

\* They are stuttering steps of the ledger.
LEMMA SilentStep ==
  ASSUME IInv, Silent
  PROVE  UNCHANGED <<seatOf, Owner, GrantAge, Granted, Told>>
<1>0. [Next]_vars
  BY DEF Silent, Next
<1>1. booking' = booking
  <2>1. ASSUME NEW r \in Requests, Arrive(r) \/ Step(r) \/ Fail(r),
               ~Commit(r), ~CommitReplyLost(r)
        PROVE  booking' = booking
    BY <2>1 DEF Arrive, Step, Fail, AcquireHold, RefuseHeld, AcquireFails, SelectExpired,
                LockBooking, LockSeat, CancelExpired, TryHoldSeat, HoldSeat, SeatUnavailable,
                InsertBooking, DbError, ReleaseHold, ReleaseFails, Repeat, RepeatAcquire,
                RepeatRelease, Rollback, Crash, rowVars
  <2> QED
    BY <2>1 DEF Silent, RedisRestart, vars, rowVars
<1>2. seatOf' = seatOf
  BY <1>0, SeatOfIsFixed
<1>3. Owner' = Owner
  BY <1>1, <1>2 DEF Owner, OwnerOf, PendingFor
<1>4. ASSUME NEW b \in Requests, booking[b] # "none"
      PROVE  age'[b] = age[b]
  <2>1. ASSUME NEW r \in Requests, InsertBooking(r)
        PROVE  age'[b] = age[b]
    <3>1. b # r
      BY <1>4, <2>1 DEF InsertBooking, IInv, LockDiscipline, NotYetBooked, InTxn
    <3> QED
      BY <2>1, <3>1 DEF InsertBooking, IInv, TypeOK
  <2>2. ASSUME NEW r \in Requests, Arrive(r) \/ Step(r) \/ Fail(r), ~InsertBooking(r)
        PROVE  age' = age
    BY <2>2 DEF Arrive, Step, Fail, AcquireHold, RefuseHeld, AcquireFails, SelectExpired,
                LockBooking, LockSeat, CancelExpired, TryHoldSeat, HoldSeat, SeatUnavailable,
                Commit, CommitReplyLost, DbError, ReleaseHold, ReleaseFails, Repeat, RepeatAcquire,
                RepeatRelease, Rollback, Crash, rowVars
  <2>3. CASE RedisRestart \/ UNCHANGED vars
    BY <2>3 DEF RedisRestart, vars, rowVars
  <2> QED
    BY <2>1, <2>2, <2>3 DEF Silent
<1>5. GrantAge' = GrantAge
  BY <1>1, <1>4 DEF GrantAge
<1>6. Granted' = Granted
  BY <1>1 DEF Granted
<1>7. ASSUME NEW q \in Requests
      PROVE  answer'[q] = "ok" <=> answer[q] = "ok"
  <2>1. ASSUME NEW r \in Requests, Arrive(r) \/ Step(r) \/ Fail(r),
               ~Commit(r), ~CommitReplyLost(r)
        PROVE  answer'[q] = "ok" <=> answer[q] = "ok"
    <3>1. CASE AcquireFails(r) \/ RefuseHeld(r) \/ SeatUnavailable(r) \/ DbError(r)
      <4>1. pc[r] \in {"idle", "acquire"} \cup InTxn
        BY <3>1 DEF AcquireFails, RefuseHeld, SeatUnavailable, DbError, InTxn
      <4>2. answer[r] = "none"
        BY <4>1 DEF IInv, LockDiscipline, NotYetBooked
      <4>3. \E what \in {"held", "taken", "error"} : Tell(r, what)
        BY <3>1 DEF AcquireFails, RefuseHeld, SeatUnavailable, DbError
      <4> QED
        BY <4>2, <4>3 DEF Tell, IInv, TypeOK
    <3>2. CASE ~(AcquireFails(r) \/ RefuseHeld(r) \/ SeatUnavailable(r) \/ DbError(r))
      BY <2>1, <3>2
         DEF Arrive, Step, Fail, AcquireHold, SelectExpired, LockBooking, LockSeat,
             CancelExpired, TryHoldSeat, HoldSeat, InsertBooking, ReleaseHold, ReleaseFails,
             Repeat, RepeatAcquire, RepeatRelease, Rollback, Crash, clientVars
    <3> QED
      BY <3>1, <3>2
  <2>2. CASE RedisRestart \/ UNCHANGED vars
    BY <2>2 DEF RedisRestart, vars, clientVars
  <2> QED
    BY <2>1, <2>2 DEF Silent
<1>8. Told' = Told
  BY <1>7 DEF Told
<1> QED
  BY <1>2, <1>3, <1>5, <1>6, <1>8

\* A COMMIT grants the seat, and tells the client or fails to.
LEMMA CommitGrants ==
  ASSUME IInv, NEW r \in Requests, Commit(r) \/ CommitReplyLost(r)
  PROVE  Ledger!Grant(r)
<1> DEFINE s == seatOf[r]
           c == txn[r].cancels
<1>1. /\ pc[r] = "commit" /\ CommitBookings(r) /\ UNCHANGED <<seatOf, age>>
      /\ Tell(r, "ok") \/ Tell(r, "error")
  BY DEF Commit, CommitReplyLost
<1>2. /\ booking[r] = "none" /\ answer[r] = "none"
      /\ s \in Seats
      /\ \A b \in Requests : booking[b] = "pending" /\ seatOf[b] = s => b = c
      /\ c # NoRequest => Secured(r, c)
  BY <1>1, CommitterIsAlone
<1>3. \A b \in Requests : booking'[b] = IF b = r THEN "pending"
                                        ELSE IF b = c THEN "canceled" ELSE booking[b]
  BY <1>1 DEF CommitBookings
<1>4. c \in Requests => c # r /\ booking[c] = "pending" /\ age[c] = BookingTTL /\ seatOf[c] = s
  BY <1>2, ReservationAssumption DEF Secured, Expired, ReservationAssumption
<1>5. r \notin Granted
  BY <1>2 DEF Granted
<1>6. Owner[s] = NoRequest \/ GrantAge[Owner[s]] = BookingTTL
  <2>1. CASE PendingFor(s) = {}
    BY <1>2, <2>1 DEF Owner, OwnerOf
  <2>2. CASE PendingFor(s) # {}
    <3>1. OwnerOf(s) \in PendingFor(s)
      BY <2>2 DEF OwnerOf
    <3>2. OwnerOf(s) = c /\ c \in Requests
      BY <1>2, <3>1 DEF PendingFor
    <3> QED
      BY <1>2, <1>4, <3>2 DEF Owner, GrantAge
  <2> QED
    BY <2>1, <2>2
<1>7. Owner' = [Owner EXCEPT ![s] = r]
  <2>1. ASSUME NEW z \in Seats, z = s
        PROVE  OwnerOf(z)' = r
    <3>1. PendingFor(z)' = {r}
      <4>1. booking'[r] = "pending" /\ seatOf'[r] = z
        BY <1>1, <1>3, <2>1
      <4>2. ASSUME NEW b \in Requests, booking'[b] = "pending", seatOf'[b] = z
            PROVE  b = r
        BY <1>1, <1>2, <1>3, <2>1, <4>2
      <4> QED
        BY <1>1, <4>1, <4>2 DEF PendingFor
    <3> QED
      BY <3>1 DEF OwnerOf
  <2>2. ASSUME NEW z \in Seats \ {s}
        PROVE  OwnerOf(z)' = OwnerOf(z)
    <3>1. ASSUME NEW b \in Requests, seatOf[b] = z
          PROVE  booking'[b] = booking[b]
      BY <1>3, <1>4, <2>2, <3>1
    <3>2. PendingFor(z)' = PendingFor(z)
      BY <1>1, <3>1 DEF PendingFor
    <3> QED
      BY <3>2 DEF OwnerOf
  <2>3. \A z \in Seats : OwnerOf(z)' = IF z = s THEN r ELSE OwnerOf(z)
    BY <2>1, <2>2
  <2>4. \A z \in Seats : Owner'[z] = OwnerOf(z)' /\ Owner[z] = OwnerOf(z)
    BY DEF Owner
  <2>5. /\ Owner' = [z \in Seats |-> Owner'[z]]
        /\ Owner = [z \in Seats |-> Owner[z]]
    BY DEF Owner
  <2> HIDE DEF Owner
  <2> QED
    BY <2>3, <2>4, <2>5
<1>8. age[r] \in 0..BookingTTL /\ GrantAge' = [GrantAge EXCEPT ![r] = age[r]]
  <2>1. age[r] \in 0..BookingTTL
    BY DEF IInv, TypeOK
  <2>2. \A b \in Requests \ {r} : booking'[b] = "none" <=> booking[b] = "none"
    BY <1>3, <1>4
  <2>3. booking'[r] # "none"
    BY <1>3
  <2> QED
    BY <1>1, <2>1, <2>2, <2>3 DEF GrantAge
<1>9. Granted' = Granted \cup {r}
  BY <1>3, <1>4 DEF Granted
<1>10. Told' \in {Told, Told \cup {r}}
  <2>1. CASE Tell(r, "ok")
    BY <2>1 DEF Told, Tell, IInv, TypeOK
  <2>2. CASE Tell(r, "error")
    BY <1>2, <2>2 DEF Told, Tell, IInv, TypeOK
  <2> QED
    BY <1>1, <2>1, <2>2
<1> QED
  BY <1>1, <1>2, <1>5, <1>6, <1>7, <1>8, <1>9, <1>10
     DEF Ledger!Grant, Ledger!Grantable, Owner, GrantAge, Granted, Told

\* Time passes alike for bookings and for grants.
LEMMA TickRefines ==
  ASSUME IInv, Tick
  PROVE  Ledger!Tick
<1>1. UNCHANGED <<seatOf, booking, answer>>
  BY DEF Tick, clientVars
<1>2. Owner' = Owner /\ Granted' = Granted /\ Told' = Told
  BY <1>1 DEF Owner, OwnerOf, PendingFor, Granted, Told
<1>3. GrantAge' = [r \in Requests |->
                     IF r \in Granted THEN Older(GrantAge[r]) ELSE GrantAge[r]]
  BY <1>1 DEF Tick, HasRow, GrantAge, Granted
<1> QED
  BY <1>1, <1>2, <1>3
     DEF Ledger!Tick, Ledger!Older, Older, Owner, GrantAge, Granted, Told

\* reserve_booking, with Redis, Postgres and their failures, implements the ledger.
THEOREM ReservationImplementsLedger == Spec => LedgerSpec
<1>1. IInv /\ IInv' /\ [Next]_vars => [Ledger!Next]_Ledger!vars
  <2> SUFFICES ASSUME IInv, IInv', [Next]_vars
               PROVE  [Ledger!Next]_Ledger!vars
    OBVIOUS
  <2>1. CASE Tick
    BY <2>1, TickRefines DEF Ledger!Next
  <2>2. ASSUME NEW r \in Requests, Commit(r) \/ CommitReplyLost(r)
        PROVE  Ledger!Next
    BY <2>2, CommitGrants DEF Ledger!Next
  <2>3. CASE Silent
    BY <2>3, SilentStep DEF Ledger!vars, Owner, GrantAge, Granted, Told
  <2> QED
    BY <2>1, <2>2, <2>3 DEF Next, Silent
<1> QED
  BY <1>1, InitRefines, Invariance, PTL DEF Spec, LedgerSpec, Ledger!Spec
=============================================================================
