---------------------------- MODULE Reservation ----------------------------
(***************************************************************************)
(* POST /bookings/reserve/{seat_id} from the seat hold in Redis to the     *)
(* COMMIT in Postgres: SeatHoldGuard, ReservationHoldout.reserve_booking,  *)
(* SeatRepository.try_hold_seat, BookingRepository.create_one and the end  *)
(* of the database session.                                                *)
(*                                                                         *)
(* A request is one execution of reserve_booking.  It creates at most one  *)
(* row of the bookings table, so the request also names that row and       *)
(* stands for its user.  A step is one call to Redis or one statement to   *)
(* Postgres; steps of different requests interleave freely.                *)
(*                                                                         *)
(* Postgres runs at READ COMMITTED.  What a transaction wrote is private   *)
(* to it (txn) until COMMIT; a row it updated or selected FOR UPDATE stays *)
(* locked until the transaction ends.                                      *)
(*                                                                         *)
(* Time is relative: Redis counts a key's remaining life down, a booking   *)
(* counts its age up to BookingTTL, where the cutoff of the repository     *)
(* calls it expired.                                                       *)
(***************************************************************************)
EXTENDS Naturals

CONSTANTS
  Requests,    \* executions of reserve_booking
  SeatIds,     \* the seat ids a client may name
  Seats,       \* those that are rows of the seats table
  HoldTTL,     \* ReservationHoldout._booking_hold_ttl
  BookingTTL,  \* the cutoff of _validate_held_seat_booking
  NoRequest    \* no request, no booking

ASSUME ReservationAssumption ==
  /\ Seats \subseteq SeatIds
  /\ NoRequest \notin Requests
  /\ HoldTTL \in Nat \ {0}
  /\ BookingTTL \in Nat \ {0}
  /\ HoldTTL <= BookingTTL

VARIABLES
  seatOf,       \* request -> the seat_id of its path
  pc,           \* request -> where reserve_booking is
  answer,       \* request -> what the client is told
  hold,         \* Redis: seat id -> the key booking_hold:{seat_id}
  isHeld,       \* Postgres, committed: seats.is_held
  booking,      \* Postgres, committed: bookings.status, "none" for no row
  age,          \* request -> time since bookings.reserved_at, up to BookingTTL
  found,        \* request -> the expired booking its SELECT has picked
  txn,          \* request -> what its open transaction wrote
  seatLock,     \* seat id -> the request whose transaction locks the row
  bookingLock   \* booking -> the request whose transaction locks the row

clientVars == <<seatOf, pc, answer>>
rowVars    == <<isHeld, booking, age>>
txnVars    == <<found, txn, seatLock, bookingLock>>
vars       == <<clientVars, hold, rowVars, txnVars>>

NoHold == [by |-> NoRequest, ttl |-> 0]

NoTxn == [cancels |-> NoRequest, holds |-> FALSE, inserts |-> FALSE]

\* seats.is_booked: the server default FALSE, which no code writes.
IsBooked(s) == FALSE

InTxn == {"select", "lockBooking", "lockSeat", "cancel",
          "tryHold", "holdSeat", "insert", "commit"}

\* From acquire_hold to the return or the re-raise of reserve_booking.
Reserving == InTxn \cup {"release"}

Ended == {"done", "crashed"}

PCs == {"idle", "acquire", "rollback"} \cup Reserving \cup Ended

TypeOK ==
  /\ seatOf \in [Requests -> SeatIds]
  /\ pc \in [Requests -> PCs]
  /\ answer \in [Requests -> {"none", "ok", "held", "taken", "error"}]
  /\ hold \in [SeatIds -> [by : Requests \cup {NoRequest}, ttl : 0..HoldTTL]]
  /\ isHeld \in [Seats -> BOOLEAN]
  /\ booking \in [Requests -> {"none", "pending", "canceled"}]
  /\ age \in [Requests -> 0..BookingTTL]
  /\ found \in [Requests -> Requests \cup {NoRequest}]
  /\ txn \in [Requests -> [cancels : Requests \cup {NoRequest},
                           holds : BOOLEAN, inserts : BOOLEAN]]
  /\ seatLock \in [SeatIds -> Requests \cup {NoRequest}]
  /\ bookingLock \in [Requests -> Requests \cup {NoRequest}]

Init ==
  /\ seatOf \in [Requests -> SeatIds]
  /\ pc = [r \in Requests |-> "idle"]
  /\ answer = [r \in Requests |-> "none"]
  /\ hold = [s \in SeatIds |-> NoHold]
  /\ isHeld = [s \in Seats |-> FALSE]
  /\ booking = [r \in Requests |-> "none"]
  /\ age = [r \in Requests |-> 0]
  /\ found = [r \in Requests |-> NoRequest]
  /\ txn = [r \in Requests |-> NoTxn]
  /\ seatLock = [s \in SeatIds |-> NoRequest]
  /\ bookingLock = [r \in Requests |-> NoRequest]

Goto(r, label) == pc' = [pc EXCEPT ![r] = label]

Tell(r, what) == answer' = [answer EXCEPT ![r] = what]

-----------------------------------------------------------------------------
(* STEP 1 of reserve_booking: the hold in Redis.                           *)

Arrive(r) ==
  /\ pc[r] = "idle"
  /\ Goto(r, "acquire")
  /\ UNCHANGED <<seatOf, answer, hold, rowVars, txnVars>>

\* MUTANT of NewHold: a hold that outlives the booking it protects.
NewHoldTooLong(r) == [by |-> r, ttl |-> BookingTTL + 1]

NewHold(r) == [by |-> r, ttl |-> HoldTTL]

\* MUTANT of KeyIsFree: SET without NX.
KeyAlwaysFree(s) == TRUE

KeyIsFree(s) == hold[s].ttl = 0

\* SET booking_hold:{seat_id} NX EX, answered OK.
AcquireHold(r) ==
  /\ pc[r] = "acquire"
  /\ KeyIsFree(seatOf[r])
  /\ hold' = [hold EXCEPT ![seatOf[r]] = NewHold(r)]
  /\ Goto(r, "select")
  /\ UNCHANGED <<seatOf, answer, rowVars, txnVars>>

\* SET ... NX on a key that exists: 409, and the hold is not released.
RefuseHeld(r) ==
  /\ pc[r] = "acquire"
  /\ ~KeyIsFree(seatOf[r])
  /\ Tell(r, "held")
  /\ Goto(r, "rollback")
  /\ UNCHANGED <<seatOf, hold, rowVars, txnVars>>

\* RedisClient.set swallows every error and returns False, which reads as a
\* refusal; the server may have executed the SET all the same.
AcquireFails(r) ==
  /\ pc[r] = "acquire"
  /\ \/ UNCHANGED hold
     \/ /\ KeyIsFree(seatOf[r])
        /\ hold' = [hold EXCEPT ![seatOf[r]] = NewHold(r)]
  /\ Tell(r, "held")
  /\ Goto(r, "rollback")
  /\ UNCHANGED <<seatOf, rowVars, txnVars>>

\* The pool is built with retry_on_timeout, and redis-py repeats a command whose
\* reply is lost: the SET has been executed and goes out again, so that the client
\* may meet its own key.
RepeatAcquire(r) ==
  /\ pc[r] = "acquire"
  /\ KeyIsFree(seatOf[r])
  /\ hold' = [hold EXCEPT ![seatOf[r]] = NewHold(r)]
  /\ UNCHANGED <<clientVars, rowVars, txnVars>>

-----------------------------------------------------------------------------
(* STEP 2: try_hold_seat and, before it, _validate_held_seat_booking.      *)

\* MUTANT of ExpiredOn: the cutoff is left out of the WHERE clause.
PendingOn(s) == {b \in Requests : seatOf[b] = s /\ booking[b] = "pending"}

ExpiredOn(s) ==
  {b \in Requests : seatOf[b] = s /\ booking[b] = "pending" /\ age[b] = BookingTTL}

\* SELECT ... FOR UPDATE takes its snapshot and picks the row to lock.
SelectExpired(r) ==
  /\ pc[r] = "select"
  /\ \/ \E b \in ExpiredOn(seatOf[r]) :
          /\ found' = [found EXCEPT ![r] = b]
          /\ Goto(r, "lockBooking")
     \/ /\ ExpiredOn(seatOf[r]) = {}
        /\ Goto(r, "tryHold")
        /\ UNCHANGED found
  /\ UNCHANGED <<seatOf, answer, hold, rowVars, txn, seatLock, bookingLock>>

\* FOR UPDATE OF bookings, seats: the SELECT waits for the booking's row and locks
\* its newest version, whatever that says by now ...
LockBooking(r) ==
  /\ pc[r] = "lockBooking"
  /\ bookingLock[found[r]] = NoRequest
  /\ bookingLock' = [bookingLock EXCEPT ![found[r]] = r]
  /\ Goto(r, "lockSeat")
  /\ UNCHANGED <<seatOf, answer, hold, rowVars, found, txn, seatLock>>

\* ... then does the same with the joined seat row, and only then checks the WHERE
\* clause again: a booking canceled meanwhile is dropped from the result, and both
\* locks stay.
LockSeat(r) ==
  /\ pc[r] = "lockSeat"
  /\ seatLock[seatOf[r]] = NoRequest
  /\ seatLock' = [seatLock EXCEPT ![seatOf[r]] = r]
  /\ \/ /\ booking[found[r]] = "pending"
        /\ Goto(r, "cancel")
        /\ UNCHANGED found
     \/ /\ booking[found[r]] # "pending"
        /\ found' = [found EXCEPT ![r] = NoRequest]
        /\ Goto(r, "tryHold")
  /\ UNCHANGED <<seatOf, answer, hold, rowVars, txn, bookingLock>>

\* MUTANT of CancelExpired: commit() where the code has flush().
CancelExpiredAndCommit(r) ==
  /\ pc[r] = "cancel"
  /\ booking' = [booking EXCEPT ![found[r]] = "canceled"]
  /\ isHeld' = [isHeld EXCEPT ![seatOf[r]] = FALSE]
  /\ Goto(r, "tryHold")
  /\ UNCHANGED <<seatOf, answer, hold, age, txnVars>>

\* status = CANCELED and is_held = False, flushed inside the transaction.
CancelExpired(r) ==
  /\ pc[r] = "cancel"
  /\ txn' = [txn EXCEPT ![r].cancels = found[r]]
  /\ Goto(r, "tryHold")
  /\ UNCHANGED <<seatOf, answer, hold, rowVars, found, seatLock, bookingLock>>

\* MUTANT of SeatRowMatches: is_held is left out of the WHERE clause.
SeatRowExists(r) == seatOf[r] \in Seats /\ ~IsBooked(seatOf[r])

\* The WHERE clause of the UPDATE on the row as the transaction sees it: its own
\* is_held = False, or else the committed value.
SeatRowMatches(r) ==
  /\ seatOf[r] \in Seats
  /\ ~IsBooked(seatOf[r])
  /\ txn[r].cancels # NoRequest \/ ~isHeld[seatOf[r]]

\* UPDATE seats SET is_held = TRUE finds the row in its snapshot.
TryHoldSeat(r) ==
  /\ pc[r] = "tryHold"
  /\ SeatRowMatches(r)
  /\ Goto(r, "holdSeat")
  /\ UNCHANGED <<seatOf, answer, hold, rowVars, txnVars>>

SeatRowIsFree(r) == seatLock[seatOf[r]] \in {r, NoRequest}

\* MUTANT of HoldSeat: commit() where the code has none, before the booking is inserted.
HoldSeatAndCommit(r) ==
  /\ pc[r] = "holdSeat"
  /\ SeatRowIsFree(r)
  /\ SeatRowMatches(r)
  /\ isHeld' = [isHeld EXCEPT ![seatOf[r]] = TRUE]
  /\ txn' = [txn EXCEPT ![r].holds = TRUE]
  /\ Goto(r, "insert")
  /\ UNCHANGED <<seatOf, answer, hold, booking, age, found, seatLock, bookingLock>>

\* A row that is locked by another transaction is waited for, and matched again on
\* its newest version.
HoldSeat(r) ==
  /\ pc[r] = "holdSeat"
  /\ SeatRowIsFree(r)
  /\ SeatRowMatches(r)
  /\ seatLock' = [seatLock EXCEPT ![seatOf[r]] = r]
  /\ txn' = [txn EXCEPT ![r].holds = TRUE]
  /\ Goto(r, "insert")
  /\ UNCHANGED <<seatOf, answer, hold, rowVars, found, bookingLock>>

\* rowcount = 0: 409, raised inside the try.  The row did not match the snapshot and is
\* left alone, or no longer matches after the wait and stays locked; either way nothing
\* the transaction has locked is free before its rollback.
SeatUnavailable(r) ==
  /\ ~SeatRowMatches(r)
  /\ \/ pc[r] = "tryHold" /\ UNCHANGED seatLock
     \/ /\ pc[r] = "holdSeat"
        /\ SeatRowIsFree(r)
        /\ seatLock' = [seatLock EXCEPT ![seatOf[r]] = r]
  /\ Tell(r, "taken")
  /\ Goto(r, "release")
  /\ UNCHANGED <<seatOf, hold, rowVars, found, txn, bookingLock>>

-----------------------------------------------------------------------------
(* STEP 3: the booking row and the COMMIT.                                 *)

\* The partial unique index uc_seat_id_status lets r insert a pending booking.
UniqueIndexAllows(r) ==
  \A b \in Requests \ {r} : seatOf[b] = seatOf[r] =>
    /\ ~txn[b].inserts
    /\ booking[b] = "pending" => txn[r].cancels = b

\* MUTANT of InsertBooking: create_one sends the fields that were not set as well, and
\* with them the reserved_at of BookingBase, which is the time of the import.
InsertDatedAtImport(r) ==
  /\ pc[r] = "insert"
  /\ UniqueIndexAllows(r)
  /\ txn' = [txn EXCEPT ![r].inserts = TRUE]
  /\ age' = [age EXCEPT ![r] = BookingTTL]
  /\ Goto(r, "commit")
  /\ UNCHANGED <<seatOf, answer, hold, isHeld, booking, found, seatLock, bookingLock>>

\* create_one: INSERT, flushed, with reserved_at = datetime.now().
InsertBooking(r) ==
  /\ pc[r] = "insert"
  /\ UniqueIndexAllows(r)
  /\ txn' = [txn EXCEPT ![r].inserts = TRUE]
  /\ age' = [age EXCEPT ![r] = 0]
  /\ Goto(r, "commit")
  /\ UNCHANGED <<seatOf, answer, hold, isHeld, booking, found, seatLock, bookingLock>>

\* MUTANT of CommitBookings: the expired booking is not canceled.
CommitOnlyInsert(r) == booking' = [booking EXCEPT ![r] = "pending"]

\* What COMMIT publishes of the bookings table ...
CommitBookings(r) ==
  booking' = [b \in Requests |-> IF b = r THEN "pending"
                                 ELSE IF b = txn[r].cancels THEN "canceled"
                                 ELSE booking[b]]

\* ... and of the seats table.
CommitSeats(r) == isHeld' = [isHeld EXCEPT ![seatOf[r]] = TRUE]

FreeLocks(r) ==
  /\ seatLock' = [s \in SeatIds |-> IF seatLock[s] = r THEN NoRequest ELSE seatLock[s]]
  /\ bookingLock' = [b \in Requests |->
                       IF bookingLock[b] = r THEN NoRequest ELSE bookingLock[b]]

\* The end of a transaction, committed or not.
EndTxn(r) ==
  /\ txn' = [txn EXCEPT ![r] = NoTxn]
  /\ found' = [found EXCEPT ![r] = NoRequest]
  /\ FreeLocks(r)

\* session.commit() and the return of the booking.
Commit(r) ==
  /\ pc[r] = "commit"
  /\ CommitBookings(r)
  /\ CommitSeats(r)
  /\ EndTxn(r)
  /\ Tell(r, "ok")
  /\ Goto(r, "done")
  /\ UNCHANGED <<seatOf, hold, age>>

\* MUTANT of CommitReplyLost: any failure of the COMMIT is taken for a conflict.
CommitReplyLostAs409(r) ==
  /\ pc[r] = "commit"
  /\ CommitBookings(r)
  /\ CommitSeats(r)
  /\ EndTxn(r)
  /\ Tell(r, "taken")
  /\ Goto(r, "release")
  /\ UNCHANGED <<seatOf, hold, age>>

\* The server commits, but the connection is lost before the reply: commit()
\* raises and the except clause runs.
CommitReplyLost(r) ==
  /\ pc[r] = "commit"
  /\ CommitBookings(r)
  /\ CommitSeats(r)
  /\ EndTxn(r)
  /\ Tell(r, "error")
  /\ Goto(r, "release")
  /\ UNCHANGED <<seatOf, hold, age>>

-----------------------------------------------------------------------------
(* Failures and the way out.                                               *)

\* A statement or the COMMIT raises: on the server, which aborts the transaction and
\* frees its row locks at once, or on the client, and then the transaction is open and
\* has its locks until the rollback.
DbError(r) ==
  /\ pc[r] \in InTxn
  /\ EndTxn(r) \/ UNCHANGED txnVars
  /\ Tell(r, "error")
  /\ Goto(r, "release")
  /\ UNCHANGED <<seatOf, hold, rowVars>>

\* release_hold: DEL booking_hold:{seat_id}, whoever owns the key now.
ReleaseHold(r) ==
  /\ pc[r] = "release"
  /\ hold' = [hold EXCEPT ![seatOf[r]] = NoHold]
  /\ Goto(r, "rollback")
  /\ UNCHANGED <<seatOf, answer, rowVars, txnVars>>

\* release_hold swallows a Redis error and returns False, which nobody reads.
ReleaseFails(r) ==
  /\ pc[r] = "release"
  /\ Goto(r, "rollback")
  /\ UNCHANGED <<seatOf, answer, hold, rowVars, txnVars>>

\* The DEL has been executed, its reply is lost, and redis-py sends it again, to
\* whatever key is there by then.
RepeatRelease(r) ==
  /\ pc[r] = "release"
  /\ hold' = [hold EXCEPT ![seatOf[r]] = NoHold]
  /\ UNCHANGED <<clientVars, rowVars, txnVars>>

\* MUTANT of Rollback: the session is left neither rolled back nor closed.
LeaveOpen(r) ==
  /\ pc[r] = "rollback"
  /\ Goto(r, "done")
  /\ UNCHANGED <<seatOf, answer, hold, rowVars, txnVars>>

\* SessionManager.session: the exception passes through rollback() and close().
Rollback(r) ==
  /\ pc[r] = "rollback"
  /\ EndTxn(r)
  /\ Goto(r, "done")
  /\ UNCHANGED <<seatOf, answer, hold, rowVars>>

\* The server process dies: Postgres aborts, Redis keeps what it has.
Crash(r) ==
  /\ pc[r] \notin {"idle"} \cup Ended
  /\ EndTxn(r)
  /\ Goto(r, "crashed")
  /\ UNCHANGED <<seatOf, answer, hold, rowVars>>

\* MUTANT of Decay: a hold set without EX.
NoDecay(h) == h

\* What a unit of time makes of a Redis key.
Decay(h) == IF h.ttl <= 1 THEN NoHold ELSE [h EXCEPT !.ttl = @ - 1]

Older(a) == IF a < BookingTTL THEN a + 1 ELSE a

HasRow(r) == booking[r] # "none" \/ txn[r].inserts

Tick ==
  /\ hold' = [s \in SeatIds |-> Decay(hold[s])]
  /\ age' = [r \in Requests |-> IF HasRow(r) THEN Older(age[r]) ELSE age[r]]
  /\ UNCHANGED <<clientVars, isHeld, booking, txnVars>>

\* Redis keeps nothing on disk (docker-compose.yml gives it no volume).
RedisRestart ==
  /\ hold' = [s \in SeatIds |-> NoHold]
  /\ UNCHANGED <<clientVars, rowVars, txnVars>>

-----------------------------------------------------------------------------

\* The steps reserve_booking takes when nothing fails.
Step(r) ==
  \/ AcquireHold(r) \/ RefuseHeld(r)
  \/ SelectExpired(r) \/ LockBooking(r) \/ LockSeat(r) \/ CancelExpired(r)
  \/ TryHoldSeat(r) \/ HoldSeat(r) \/ SeatUnavailable(r)
  \/ InsertBooking(r) \/ Commit(r)
  \/ ReleaseHold(r) \/ Rollback(r)

\* redis-py repeats once; that it may do so more often here loses nothing.
Repeat(r) == RepeatAcquire(r) \/ RepeatRelease(r)

Fail(r) ==
  \/ AcquireFails(r) \/ DbError(r) \/ CommitReplyLost(r)
  \/ ReleaseFails(r) \/ Repeat(r) \/ Crash(r)

Next ==
  \/ \E r \in Requests : Arrive(r) \/ Step(r) \/ Fail(r)
  \/ Tick
  \/ RedisRestart

Spec == Init /\ [][Next]_vars

\* The event loop runs every ready request, Postgres and Redis answer, and time
\* passes.  Nothing obliges a client to send a request, or anything to fail.
Fairness ==
  /\ \A r \in Requests : WF_vars(Step(r))
  /\ WF_vars(Tick)

FairSpec == Spec /\ Fairness

\* Nothing takes a request longer between its hold and its exit than the hold
\* lives, Redis stays up and no command is repeated: what the choice of 60 seconds
\* relies on.
HoldRunsOut(r) == pc[r] \in Reserving /\ hold[seatOf[r]].ttl <= 1

PromptNext ==
  \/ \E r \in Requests : Arrive(r) \/ Step(r) \/ (Fail(r) /\ ~Repeat(r))
  \/ Tick /\ \A r \in Requests : ~HoldRunsOut(r)

PromptSpec == Init /\ [][PromptNext]_vars

-----------------------------------------------------------------------------
(* Safety.                                                                 *)

PendingFor(s) == {b \in Requests : booking[b] = "pending" /\ seatOf[b] = s}

\* The two tables agree: is_held says whether the seat has a pending booking,
\* and it never has two.  try_hold_seat and create_one write one table each and
\* only the COMMIT of reserve_booking ties them; a seat held without a booking
\* could never be booked again.
SeatRowMatchesBookings ==
  /\ \A b \in Requests : booking[b] = "pending" => seatOf[b] \in Seats
  /\ \A s \in Seats : isHeld[s] <=> PendingFor(s) # {}
  /\ \A a, b \in Requests :
       booking[a] = "pending" /\ booking[b] = "pending" /\ seatOf[a] = seatOf[b] => a = b

\* The row locks alone keep a second pending booking out, also when Redis has
\* lost the hold or let it run out: the INSERT of create_one never meets the
\* unique index uc_seat_id_status, which is only a backstop.
InsertNeverConflicts ==
  \A r \in Requests : pc[r] = "insert" => UniqueIndexAllows(r)

\* r's transaction waits for q's: for the booking or the seat row q has locked, or
\* for the fate of a row q has inserted under the unique index.
WaitsFor(r, q) ==
  \/ pc[r] = "lockBooking" /\ bookingLock[found[r]] = q
  \/ pc[r] = "lockSeat" /\ seatLock[seatOf[r]] = q
  \/ pc[r] = "holdSeat" /\ seatLock[seatOf[r]] = q /\ q # r
  \/ pc[r] = "insert" /\ txn[q].inserts /\ seatOf[q] = seatOf[r] /\ q # r

\* From the first statement to the commit or the rollback.
HasSession(q) == pc[q] \in Reserving \cup {"rollback"}

Runs(q) == HasSession(q) /\ \A p \in Requests : ~WaitsFor(q, p)

\* A chain of waits has two links at most: whoever waits for a booking may wait for one
\* that waits for the seat, and who has the seat runs, be it on its way out through
\* release_hold and the rollback.  So there is no circle of waits, for any number of
\* requests, and no lock that nobody gives back.  The SELECT ... FOR UPDATE locks the
\* booking before the seat and keeps both also when it returns nothing; the UPDATE of
\* try_hold_seat locks only the seat.
WaitsEnd ==
  \A r, q \in Requests : WaitsFor(r, q) =>
    /\ HasSession(q)
    /\ \A p \in Requests : WaitsFor(q, p) => pc[r] = "lockBooking" /\ Runs(p)

\* A client whose reservation was accepted has the seat for the whole life of the
\* booking: no other request's _validate_held_seat_booking cancels it earlier.
AcceptedKeepsSeat ==
  \A r \in Requests : answer[r] = "ok" =>
    booking[r] = "pending" \/ (booking[r] = "canceled" /\ age[r] = BookingTTL)

\* The hold is set before reserved_at and lives no longer than the booking: once
\* the booking has expired, its own key no longer turns the next client away.
HoldWithinBooking ==
  \A r \in Requests :
    hold[seatOf[r]].by = r /\ (booking[r] = "pending" \/ txn[r].inserts) =>
      hold[seatOf[r]].ttl + age[r] <= BookingTTL

\* Where a request is outlived by its hold (PromptSpec), the key serialises the
\* seat: one request at a time is between acquire_hold and its exit, so none
\* ever waits for another's row lock or deletes another's key.
HoldSerialises ==
  \A a, b \in Requests :
    pc[a] \in Reserving /\ pc[b] \in Reserving /\ seatOf[a] = seatOf[b] => a = b

-----------------------------------------------------------------------------
(* Action properties.                                                      *)

\* A pending booking changes only when it has expired, and only in the very step
\* that makes another request's booking of the seat pending: the flush of
\* _validate_held_seat_booking never becomes visible on its own, whichever later
\* step of the taker fails.
HandoverIsAtomic ==
  [][\A b \in Requests : booking[b] = "pending" /\ booking'[b] # "pending" =>
       /\ booking'[b] = "canceled" /\ age[b] = BookingTTL
       /\ \E r \in Requests \ {b} :
            /\ seatOf[r] = seatOf[b]
            /\ booking[r] = "none" /\ booking'[r] = "pending"]_vars

\* release_hold deletes "the seat hold key" (seat_guard.py:30) "safely": the key
\* a request deletes on its way out is the one that it set.  It is so under PromptSpec
\* and not under Spec.
ReleaseOnlyOwnHold ==
  [][\A r \in Requests : ReleaseHold(r) =>
       hold[seatOf[r]].by \in {r, NoRequest}]_vars

-----------------------------------------------------------------------------
(* Liveness.                                                               *)

\* Every request that arrives is answered or dies with its process: the waits
\* for row locks, first a booking's then a seat's, never close a circle.
EveryRequestEnds ==
  \A r \in Requests : pc[r] = "acquire" ~> pc[r] \in Ended

\* No seat is lost: it comes back again and again, with no key in Redis and either no
\* is_held or an expired booking that the next client can take over, whatever crashes,
\* errors and lost replies leave behind.
SeatComesBack ==
  \A s \in Seats : []<>(hold[s].ttl = 0 /\ (isHeld[s] => ExpiredOn(s) # {}))

-----------------------------------------------------------------------------
(* Refinement.                                                             *)

\* The owner of a seat is the request with the pending booking, if any.
OwnerOf(s) == IF PendingFor(s) = {} THEN NoRequest
              ELSE CHOOSE b \in PendingFor(s) : TRUE

Ledger == INSTANCE SeatLedger WITH
  Customers <- Requests,
  Life <- BookingTTL,
  Nobody <- NoRequest,
  wants <- seatOf,
  owner <- [s \in Seats |-> OwnerOf(s)],
  age <- [r \in Requests |-> IF booking[r] = "none" THEN 0 ELSE age[r]],
  granted <- {r \in Requests : booking[r] # "none"},
  told <- {r \in Requests : answer[r] = "ok"}

\* Every step of the code, with its holds, transactions and failures, is a grant,
\* a tick or nothing to the ledger of seats.
LedgerSpec == Ledger!Spec

-----------------------------------------------------------------------------
(* Why it is so: the row locks guard what a transaction has seen and written. *)

\* b was an expired booking of r's seat when r's SELECT picked it, and it is not r's own.
Expired(r, b) ==
  /\ b \in Requests \ {r}
  /\ seatOf[b] = seatOf[r]
  /\ booking[b] # "none"
  /\ age[b] = BookingTTL

\* ... and r's row lock keeps it pending.
Secured(r, b) == Expired(r, b) /\ booking[b] = "pending" /\ bookingLock[b] = r

\* A request makes its row and its answer at the end.
NotYetBooked ==
  \A r \in Requests :
    pc[r] \in {"idle", "acquire"} \cup InTxn => booking[r] = "none" /\ answer[r] = "none"

\* What the SELECT of _validate_held_seat_booking has found, step by step.
FoundIsExpired ==
  \A r \in Requests :
    /\ pc[r] \in {"lockBooking", "lockSeat"} => Expired(r, found[r])
    /\ pc[r] = "lockSeat" => bookingLock[found[r]] = r
    /\ pc[r] = "cancel" => Secured(r, found[r]) /\ seatLock[seatOf[r]] = r

CancelIsSecured ==
  \A r \in Requests : txn[r].cancels # NoRequest =>
    Secured(r, txn[r].cancels) /\ seatLock[seatOf[r]] = r

\* A transaction that set is_held keeps the seat row locked, and nothing is pending
\* for the seat but what it cancels itself.
HolderIsAlone ==
  \A r \in Requests : txn[r].holds =>
    /\ seatOf[r] \in Seats
    /\ seatLock[seatOf[r]] = r
    /\ txn[r].cancels # NoRequest \/ ~isHeld[seatOf[r]]

\* A transaction given up by the client still has what it wrote, up to the rollback.
GivenUp == {"release", "rollback"}

TxnFollowsCode ==
  \A r \in Requests :
    /\ pc[r] \in {"insert", "commit"} => txn[r].holds
    /\ pc[r] = "commit" => txn[r].inserts
    /\ txn[r].holds => pc[r] \in {"insert", "commit"} \cup GivenUp
    /\ txn[r].inserts => txn[r].holds /\ pc[r] \in {"commit"} \cup GivenUp

\* A row lock belongs to a transaction that is past the statement which takes it and
\* has not ended, a seat is locked by a request for that seat, and past the SELECT
\* nobody has the lock of a booking without that of its seat.
LockOwners ==
  \A r \in Requests :
    /\ \A s \in SeatIds : seatLock[s] = r =>
         /\ s = seatOf[r]
         /\ pc[r] \in {"cancel", "tryHold", "holdSeat", "insert", "commit"} \cup GivenUp
    /\ \A b \in Requests : bookingLock[b] = r =>
         /\ seatOf[b] = seatOf[r]
         /\ \/ pc[r] \in {"lockSeat"} \cup GivenUp
            \/ /\ pc[r] \in {"cancel", "tryHold", "holdSeat", "insert", "commit"}
               /\ seatLock[seatOf[r]] = r

\* The row locks do their work: together with the agreement of the two tables, this
\* is inductive.
LockDiscipline ==
  /\ NotYetBooked
  /\ FoundIsExpired
  /\ CancelIsSecured
  /\ HolderIsAlone
  /\ TxnFollowsCode
  /\ LockOwners
=============================================================================
