# A TLA+ model of the seat booking service

This directory holds TLA+ specifications of the booking service in `src/app`, the TLC
configurations that check them on small instances, and theorems about them with proofs
checked by TLAPS. The service lets an authenticated user reserve a seat for 60 seconds:
the seat is held in Redis, the booking is a row in Postgres, and an `Idempotency-Key`
header makes a repeated request harmless.

Contents: [parts of the system](#the-parts-of-the-system) ·
[modules](#the-modules-and-the-code) · [runs](#the-runs) ·
[fairness](#fairness-and-promptness) · [proofs](#what-is-proved) ·
[disagreements](#where-the-code-disagrees-with-its-own-words) ·
[limits](#what-is-only-model-checked-and-what-is-not-modelled) · [plan](#plan)

## The parts of the system

| Part | State it keeps | Operations | Talks to |
|---|---|---|---|
| Seat hold (`services/booking/seat_guard.py`) | Redis key `booking_hold:{seat_id}`, 60 s | `acquire_hold` (SET NX EX), `release_hold` (DEL) | Redis client |
| Seat reservation (`services/booking/reservation.py`, `service.py`) | none | `reserve_booking`, `create_reservation`, `get_booking` | seat hold, repositories, database session |
| Seat and booking rows (`repositories/seat_repository.py`, `booking_repository.py`, `models.py`) | tables `seats` (`is_held`, `is_booked`), `bookings` (`status`, `reserved_at`), a partial unique index | `try_hold_seat`, `_validate_held_seat_booking`, `create_one` | Postgres |
| Database session (`core/database/session.py`) | one transaction per request; the engine and its pool of 15 connections | commit, rollback, close; wait for a connection, at most 30 s | Postgres |
| Idempotency pipeline (`dependencies/idempotency.py`, `booking.py`) | Redis keys `…cache:{key}` (60 s) and `…lock:{key}` (10 s) | `check_idempotency`, `cache_booking_response`, `clear_booking_cache_lock` | Redis client |
| Booking routes (`api/v1/booking.py`) | none | `POST /bookings/reserve/{seat_id}`, `GET /bookings/{id}` | all of the above |
| Redis client (`redis_client/client.py`) | the client and its pool, which repeats a command after a time-out and raises when it is full | `connect`, `disconnect`, `set` (turns errors into `False`), `get` and `delete` (raise) | Redis |
| Authentication (`services/auth.py`, `api/v1/auth.py`) | table `users` | register, login, refresh, logout | sessions, tokens |
| Sessions (`services/session.py`) | table `sessions` (token hashes, `is_active`) | create, find, `logout_from_session` (swallows errors) | Postgres |
| Current user (`dependencies/auth.py`) | none | `get_current_user` | sessions |
| Tokens and cookies (`core/security/`) | none | create, verify, sign, load | the clock |
| Base repository (`repositories/base_repository.py`) | none | queries shared by all repositories | Postgres |
| Pagination (`core/pagination/`) | none | query string to WHERE and ORDER BY | no route uses it |
| Application lifecycle (`core/setup.py`) | whether the process starts, serves, drains or stops | connect before the first request, close the engine and disconnect after the last | Redis client, database session |
| Configuration, schemas, migrations, playground, tests | – | wiring | – |

One reservation runs through them like this. `get_current_user` finds the session of the
access token. `BookingIdempotency` looks the cache up and takes the lock of the
`Idempotency-Key`. The route calls `reserve_booking`, which sets the hold of the seat in
Redis, cancels an expired booking of the seat, marks the seat held, inserts the booking and
commits. The route caches the response and, in its `finally`, releases the lock. The
database session of the request ends last.

What is hard about it:

* **Two stores, two kinds of lock.** The hold in Redis can vanish (expiry, restart) or stay
  behind (crash, lost reply) whatever the transaction in Postgres does. Which of the two
  keeps two clients off one seat, and when?
* **A seat changes hands inside a longer transaction.** The expired booking is cancelled and
  the seat freed by a flush, some statements before the new booking is committed.
* **READ COMMITTED.** A `SELECT … FOR UPDATE` picks a row from a snapshot, waits, and goes on
  with a newer version of it; a plain `UPDATE` matches its row again after a wait. A row that no longer
  matches is left out of the result, but its lock stays until the transaction ends, which after a 409
  is later than the DEL of the hold.
* **Clocks that end together.** Hold, booking and cached response all live for 60 seconds, but
  from different moments: the cached response outlives the booking by the time between INSERT and SET.
* **Errors that are swallowed.** `RedisClient.set`, `release_hold`, `clear_booking_cache_lock`
  and `logout_from_session` turn failures into values that nobody reads.
* **An answer that is lost.** A COMMIT may be done although `commit()` raises.
* **Answers that come late.** redis-py sends a command again whose answer has timed out: a SET NX
  may be refused by its own first execution, a DEL may delete what came in between.
* **Two pools and the rows behind them.** A request waits for a connection to Postgres, then for rows
  of a request that talks to Redis. Do pools and rows together close a circle?
* **Equal tokens.** A JWT has no identifier of its own, only the seconds of its making; two of one second
  are the same, and the two of one login may be of different seconds.

What makes each part correct: a seat has at most one pending booking and its row says so; an
accepted booking lasts its 60 seconds; a cancellation is visible only together with its
successor; a client that is refused has nothing; a replay shows the client's own booking; locks
left behind go away; every request gets an answer; an email has one account; a session is
ended only with its own tokens; nobody holds what others need while waiting for a
connection. `PROJECT.json` lists the hazards line by line, with the
property that watches each.

## The modules and the code

| Module | Models | Extends |
|---|---|---|
| `SeatLedger` | what reservation promises: grants of seats, with an age | – |
| `BookingLedger` | what the endpoint promises: the ledger, and one true response per request | `SeatLedger` |
| `AccountLedger` | what the `/auth` routes promise: accounts, and sessions opened, continued and ended | – |
| `Reservation` | `reserve_booking`, the seat hold, the seat and booking rows, the end of the transaction | – |
| `BookingApi` | the whole of `POST /bookings/reserve/{seat_id}` | `Reservation` |
| `AuthSession` | the `/auth` routes and `get_current_user` | – |
| `Repository` | the methods of `BaseRepository` for many rows | – |
| `Service` | one process: its life, the Redis client, the engine, the two pools | – |
| `MC…` | instances of each for TLC | its module |
| `ReservationProofs`, `BookingApiProofs`, `AuthSessionProofs`, `RepositoryProofs`, `ServiceProofs` | theorems about the module of that name | that module; `BookingApiProofs` also `ReservationProofs` |
| `ReservationRefinement` | `Reservation` implements `SeatLedger` | `ReservationProofs` |
| `BookingApiRefinement` | `BookingApi` implements `BookingLedger` | `BookingApiProofs`, `ReservationRefinement` |
| `AuthSessionRefinement` | `AuthSession` implements `AccountLedger` | `AuthSessionProofs` |

**Reservation.** A request is one execution of `reserve_booking`; since it inserts at most one
row, it also names its booking. `hold` is the Redis key of each seat id; `isHeld`, `booking` and
`age` are the committed rows; `txn` is what an open transaction has written and nobody else
sees; `seatLock` and `bookingLock` are the row locks; `found` is the expired booking that the
`SELECT … FOR UPDATE` has picked. One action is one call to Redis or one statement, so everything
that can interleave does:

| Code | Actions |
|---|---|
| `acquire_hold`, 409 | `AcquireHold`, `RefuseHeld`, `AcquireFails` |
| `_validate_held_seat_booking` | `SelectExpired`, `LockBooking`, `LockSeat`, `CancelExpired` |
| `try_hold_seat`, 409 | `TryHoldSeat`, `HoldSeat`, `SeatUnavailable` |
| `create_one`, `commit()` | `InsertBooking`, `Commit`, `CommitReplyLost` |
| `except`, `release_hold` | `DbError`, `ReleaseHold`, `ReleaseFails` |
| `SessionManager.session` | `Rollback` |
| environment | `Tick`, `RedisRestart`, `Crash`, `RepeatAcquire`, `RepeatRelease` |

Row locks are those of Postgres. The SELECT waits for the booking and locks it (`LockBooking`), does the
same with its seat (`LockSeat`), and only then looks at its WHERE clause again: a booking canceled meanwhile is
dropped, and both locks stay. The UPDATE of `try_hold_seat` looks for its row in a snapshot (`TryHoldSeat`), waits
for it and matches it again (`HoldSeat`); where it does not match any more, the 409 keeps the lock
(`SeatUnavailable`). What a transaction has locked is free again when it ends: at COMMIT, at an error of the
server, or at the `Rollback` that follows `release_hold`, which is also the end of it after an error that the
server knows nothing of (`DbError` has both).

`CommitReplyLost` is the COMMIT that the server executes although the client sees an error;
`AcquireFails` is the SET that may or may not have been executed, which `RedisClient.set` reports
as `False` and `reserve_booking` as "held by another user". The pool is built with `retry_on_timeout`, so
redis-py may send the SET or the DEL again (`RepeatAcquire`, `RepeatRelease`): the second SET NX is
refused by the first, and the second DEL takes whatever hold is there by then. `is_booked` is never written by the code and is the
constant `FALSE`; the unused status `confirmed` does not occur.
Seat ids that are no rows of `seats` are in `SeatIds \ Seats`: they get a hold all the same.

**BookingApi** adds the dependency and the route around each request: `stage` says where the
handling is, `cache` and `lock` are the two Redis keys of an operation (the pair of user and
`Idempotency-Key`), `reply` is the response. The steps inside `reserve_booking` are the very
actions of `Reservation`. FastAPI runs the dependencies before it rejects an invalid body
(`RejectBody`), so that a 422 leaves the lock behind, and ends the database session after the
route's `finally` (`Exit`). A lock's random token is the request that set it. The three
commands of the pipeline may be repeated by redis-py too (`RepeatTakeLock`, `RepeatCacheResponse`,
`RepeatClearLock`).

**AuthSession** takes each route apart into its statements: the check of an email, the insert
of a user or a session, the lookup by token hash, the update that ends a session. A token is the
email and a stamp, the two seconds that `create_token` reads from the clock for `exp` and for `iat`. `MintTokens`
makes an access and a refresh token by four readings in a row, each of which may be in the same second as the one
before or in a later one. `issued` is what clients have received, with the second the cookies were
signed; a client may present any of it at any later time. `get_current_user` finds sessions by the access token
(`Current`), all others by the refresh token (`Matching`). `Patient` is the set of
emails whose users wait for each answer before they call again; the others call whenever they like. A process whose local
time is ahead of UTC would refuse its own tokens (`iat` is naive local time); the model
assumes UTC, as in the container.

**Repository** is about the methods of the shared repository class for many rows, apart from any table. No route,
service or script calls `create_many`, `get_many`, `update_many_by_pk`, `delete` or `upsert` yet: the module says what a
first caller could rely on, and no hazard of the service stands behind it. A list may name a key twice, as the code
does not remove doubles: `create_many` then fails on its unique key (`Taken`), and ON CONFLICT DO UPDATE fails unless the
driver has sent the two records in different batches. A row is its key and the call
that wrote it last; a call visits its records one by one, and rows and keys it writes stay locked
until its transaction ends. A call that waits for itself through others is failed by Postgres
(`BreakDeadlock`). `update_many_by_pk` selects its rows again (`Refetch`), after the commit if it is
asked to commit and before its caller's commit if not. When one of its rows is missing, SQLAlchemy
raises or not, depending on what the driver counts: both outcomes are in the model. DELETE goes through
a snapshot; a row that goes away while it waits is dropped from it (`DropRemoved`), also if the key is
inserted again. `get_many` is two statements, `Count` and `Page`; the page has the length that OFFSET and
LIMIT leave, and any rows, since the order is up to the caller.

**Service** is one process and what its requests share. `process`, `client`, `engine` and
`redisUp` are its life; `place` says where a request may have to wait, `dbInUse` and `redisInUse`
are the connections given out, `locks` and `rowLock` the idempotency locks and the row lock
taken meanwhile. What the statements do is left to the other modules; what matters here is when
a connection is taken and given back:

| Code | Actions |
|---|---|
| import, `_lifespan`, signals | `Start`, `Connect`, `Terminate`, `CloseEngine`, `Disconnect`, `Kill` |
| first statement of a session | `Checkout`, `CheckoutFails` |
| `get_current_user`, `refresh_session`, `create_session` | `Find`, `Insert` |
| `try_hold_seat`, `commit()` | `Write`, `Commit`, `StatementFails` |
| the end of `SessionManager.session` | `Close` |
| a command to Redis | `Send`, `Receive`, `CommandFails`, `Outage` |

`connect()` keeps the client whether the ping succeeds or not, and nobody reads its result; so the service
starts without Redis and finds it later. A session's connection goes back with COMMIT; `expire_on_commit`
is off, so that caching the response does not take another one. `refresh_session` gives its connection back
with the COMMIT of `logout_from_session`, or goes on with it where that call has failed before its COMMIT and swallowed the
error (`Find` has both). A 409 after a wait leaves `Write` with the row's lock, which goes with the session.

**SeatLedger** is the abstract specification: a customer is granted a seat if it has no owner or its
owner's grant has reached the end of its life; the owner changes in one step. The refinement
mapping (end of `Reservation`) makes the owner of a seat the request with the pending booking
and forgets Redis, transactions and locks. **BookingLedger** adds the responses: a confirmation follows
a grant, a refusal is final, a replay shows a grant of the same operation and seat, an error says nothing, and
nothing is granted to who has been answered. `LiveSpec` is the stronger promise that who is told of a new grant
has the seat at that moment; of a replay it asks no more than the ledger does. `BookingApi` implements the first always (`PromiseKept`) and the second
where handling is prompt (`LivePromiseKept`): the cache, the locks, the pipeline and the repeats are gone
from it.

**AccountLedger** has no requests, statements or failures: an account is made where there is none; a session is
opened for an account, by a login or as what continues a session that was live when it was claimed; it is closed
for good; and a session that no client has tokens of is neither continued nor closed. For the users in
`Careful` (the patient ones), a session is opened only when its login has no live one left. The two tables, the
tokens sent and the clock are mapped by name; calls, tokens in use and answers are gone.

## The runs

Every constant is a bound: `Requests`, `SeatIds`, `Emails`, `Operations` are the model values
named in the `.cfg`; `HoldTTL`, `BookingTTL`, `LockTTL`, `CacheTTL` are the lives of keys and
bookings in units of the model's clock; ages stop at `BookingTTL`, where the code no longer tells
them apart; only `AuthSession` has an absolute clock, bounded by `MaxTime`.

| Run | Instance | What it shows |
|---|---|---|
| `reservation_safety` | 3 requests, one seat and one id without a row, lives 2 and 2 | types; row locks do their work; tables agree; the unique index is never hit; accepted bookings last; a hold ends with its booking; hand-over is atomic; chains of waits are of two at most and end at a request that runs; every step is a step of `SeatLedger` or a stutter |
| `reservation_liveness` | 3 requests, one seat, lives 1 and 1, fair | every request ends; a seat comes back when its requests have ended, whatever they left in Redis |
| `reservation_release` | 2 requests | **violated**: the hold that is released is one's own (where handling is prompt it is: `OwnHoldIsReleased`) |
| `api_safety` | 3 requests, one operation, one seat, lives 1 | replays are one's own; a refusal leaves nothing; no step of a request frees another's lock |
| `api_prompt` | 3 requests, 2 operations, hold, booking, cache and lock 2, `PromptApiSpec` | a cached booking has expired for less than a lock lives; duplicates do not run side by side; the hold serialises the seat; every step is one of `BookingLedger`'s `LiveSpec` or a stutter |
| `api_liveness` | 2 requests, 2 operations, fair | every request is answered; a leaked lock expires; every step is one of `BookingLedger` or a stutter |
| `api_duplicate` | 2 requests, one operation | **violated**: a duplicate of a cached response is not let through |
| `auth_safety` | 4 calls, 2 emails, one of them of a patient user, 3 seconds | types; one account per email; a session ends only with its own tokens; a patient user has one live session per login |
| `auth_ledger` | 5 calls, the same emails, 2 seconds | every step is a step of `AccountLedger` or a stutter |
| `auth_single` | 4 calls, one email | **violated**: a token hash finds one session or none |
| `repository_safety` | 3 calls, 2 rows, lists of up to 2, pages of 1 | lists are published whole; inserts replace nothing; what a call returns is what it does to the table; an update returns its own rows; a page has no old row that its total misses |
| `service` | 3 requests, 2 connections to each store, fair | who waits for a connection holds nothing; who talks to Redis before its COMMIT was admitted by the pool of Postgres; no connection leaks; client and engine are there; every request ends, and every shutdown |

Three requests are what the races need: an owner whose booking expires, a taker, and a third that
meets either. A life of 1 or 2 units lets every order of expiry and statement happen, because any
number of units may pass between two statements. The second seat id of `reservation_safety` is
there for a hold without a row; seats do not interact otherwise. Three requests and two connections
make a pool that is full with someone waiting while one of its users waits for the other's row.
Three requests of one operation are the duplicates that `api_safety` is about; requests of two operations meet in
`api_prompt` and `api_liveness`, and share nothing but the seat's hold and row. Four calls and three seconds let a pair of
tokens straddle a second and a session be opened, refreshed and ended; a fifth call, for a second refresh, is in
`auth_ledger`. The largest runs are `api_prompt` (1.0 million distinct states), `repository_safety` (723 thousand), `auth_ledger`
(463 585) and `api_safety` (457 402); the slowest, with two workers, are `auth_ledger` and `service` with two minutes.
The `auth_…` runs and `repository_safety` use a VIEW that leaves out what a request or call that has ended no longer
needs. Requests (and operations, emails) are
interchangeable, which the symmetry sets use; runs with liveness properties have no symmetry.
The `auth_…` and `repository_…` runs switch TLC's deadlock check off: there, the state in which all calls
have been answered is the end. In the others time always passes.

Four properties are left to their theorems, which say more than another run would: `ApiTypeOK`, `DeletedOnce` (a row is
reported deleted once), which `ReturnsWhatItDid` implies, `WaitsEnd` of `Service`, which rests on
`WaitersHoldNothing`, and `ReleaseOnlyOwnHold` under `PromptSpec`. TLC finds them true on the instances of `api_safety`,
`repository_safety`, `service` and `api_prompt`.

Every property of a passing run has a mutant in `PROJECT.json`: a definition marked `MUTANT`,
placed before the one it replaces, that breaks the code the way a plausible change would
(SET without NX, `commit()` for `flush()`, a session that is not rolled back, a booking dated at the import, a WHERE
clause too short) and makes TLC refute the property.

## Fairness and promptness

The fair specifications ask for weak fairness of each request's own next step and of time.
The event loop resumes every ready coroutine, and Postgres and Redis answer or fail; no client is obliged to
call, and no failure is obliged to happen. `Service` asks the same of a process that starts, drains or
stops; nothing obliges it to be stopped. It assumes that Redis answers or that the connection breaks, and
that the pool serves who waits; the pool's 30 seconds never have to be over. The first is an assumption about the
network: the code sets no `socket_timeout`, so that a Redis that is silent keeps its requests for
ever (a hazard without a property). A step that waits for a row lock is not enabled until the lock is
free, so weak fairness does not assume away a deadlock.

`PromptSpec` says that time does not pass while a request inside `reserve_booking` has its hold in its
last unit, that Redis does not restart, and that no command to it has to be repeated. Nothing in the
code enforces it: it is the assumption that the choice of 60 seconds makes, stated so that what depends on it is visible. Without it the row
locks still keep the seat (`reservation_safety`), but the hold does not. `PromptApiSpec` is the same
thought for the 10 seconds of the idempotency lock (`Overruns`): a request is through with its `finally` before its lock
runs out, and answered before its booking is as old as a lock gets. Time passes at any of its steps; `BookingApiAssumption`
asks that a lock lives no longer than a booking. What is then true of the cache is less than one might wish: its 60 seconds
start later than the booking's, so an entry outlives its booking by the time of handling, which is shorter than
a lock lives (`CachedBookingIsRecent`), and a replay in that time may show a seat that is another's by now. `PatientSpec` is a user who waits for each
answer (`Patient`); without it two concurrent refreshes both open a session.

## What is proved

For any sets of requests and seats and any lives that satisfy `ReservationAssumption`
(`HoldTTL <= BookingTTL`, both positive; the code has 60 and 60):

| Theorem | Statement |
|---|---|
| `Typing` | `Spec => []TypeOK` |
| `LocksHold` | `Spec => []LockDiscipline` |
| `TablesAgree` | `Spec => []SeatRowMatchesBookings` |
| `IndexIsBackstop` | `Spec => []InsertNeverConflicts` |
| `SeatsAreHandedOver` | `Spec => HandoverIsAtomic` |
| `AcceptedSeatsAreKept` | `Spec => []AcceptedKeepsSeat` |
| `HoldsEndWithBookings` | `Spec => []HoldWithinBooking` |
| `WaitsAreForRunners` | `Spec => []WaitsEnd` |
| `HoldIsALock` | `PromptSpec => []HoldSerialises` |
| `OwnHoldIsReleased` | `PromptSpec => ReleaseOnlyOwnHold` |
| `ReservationImplementsLedger` | `Spec => LedgerSpec` |
| `ApiIsReservation` | `ApiSpec => Spec` |
| `ApiTyping` | `ApiSpec => []ApiTypeOK` |
| `RefusalsAreTrue` | `ApiSpec => []RefusedLeavesNothing` |
| `ReplaysAreTrue` | `ApiSpec => []ReplayIsOwn` |
| `LocksAreLeftAlone` | `ApiSpec => ReleaseOnlyOwnLock` |
| `OperationsAreExclusive` | `PromptApiSpec => []ProcessingIsExclusive` |
| `CachedBookingsAreRecent` | `PromptApiSpec => []CachedBookingIsRecent` |
| `ApiHoldIsALock` | `PromptApiSpec => []HoldSerialises` |
| `ApiReleasesOwnHold` | `PromptApiSpec => ReleaseOnlyOwnHold` |
| `PromiseIsKept` | `ApiSpec => PromiseKept` |
| `LivePromiseIsKept` | `PromptApiSpec => LivePromiseKept` |
| `AuthTyping` | `AuthSession!Spec => []TypeOK` |
| `EmailsAreUnique` | `AuthSession!Spec => []OneAccountPerEmail` |
| `SessionsEndByTheirTokens` | `AuthSession!Spec => OnlyOwnSessionEnds` |
| `PatientUsersToo` | `PatientSpec => []TypeOK /\ []OneAccountPerEmail /\ OnlyOwnSessionEnds` |
| `RefreshNeverDoubles` | `PatientSpec => []OneLivePerLogin` |
| `AuthImplementsLedger` | `PatientSpec => AccountsKept` |
| `RepositoryTyping` | `Repository!Spec => []TypeOK` |
| `DeletesCountOnce` | `Repository!Spec => []DeletedOnce` |
| `UpdatesReturnTheirRows` | `Repository!Spec => []UpdateReturnsOwn` |
| `PagesAreCounted` | `Repository!Spec => []PageIsCounted` |
| `InsertsKeepRows` | `Repository!Spec => InsertsNeverReplace` |
| `ListsAreWhole` | `Repository!Spec => ListIsWhole` |
| `ReportsAreTrue` | `Repository!Spec => ReturnsWhatItDid` |
| `ServiceTyping` | `Service!Spec => []TypeOK`, with both pools within their bounds |
| `NothingHeldWhileWaiting` | `Service!Spec => []WaitersHoldNothing` |
| `NoCircleOfWaits` | `Service!Spec => []WaitsEnd` |
| `PoolGuardsPool` | `Service!Spec => []RedisUsersAreAdmitted` |
| `NoConnectionLeaks` | `Service!Spec => []ConnectionsAreReturned` |
| `OpenWhileServing` | `Service!Spec => []ServiceIsOpen` |

The inductive invariant is `IInv == TypeOK /\ LockDiscipline /\ SeatRowMatchesBookings`.
That the tables agree is not inductive alone: a COMMIT publishes what its transaction wrote, so
one must know that what it wrote still fits. `LockDiscipline` says that: the booking a transaction
cancels is still pending and expired and its row is locked; one that has set `is_held` has the seat's row
locked and found it free, or frees it itself; and code positions and writes go together. The
lemmas have one step per statement (`SelectStep`, `LockBookingStep`, …); `CommitterIsAlone` gathers what
the locks leave to a COMMIT, and `CommitStep` uses it. The action properties and the
refinement then follow from `IInv` step by step. The mapping's owner is a `CHOOSE`; since
a seat has at most one pending booking, it is that booking.
`HoldWithinBooking` and `HoldSerialises` have small invariants of their own (`OwnsHold`: a request
inside `reserve_booking` owns its key).
TLC checks every part of `IInv` in `reservation_safety`.

`WaitsEnd` needs to know who a lock's owner is. `LockOwners`, a part of `LockDiscipline`, says that a row lock
belongs to a request past the statement that takes it whose transaction has not ended, be it in `release_hold` or
before its rollback, and that past the SELECT nobody has a booking without its seat. Who owns the seat's
row waits for nobody: it never asks for a booking again, its own lock does not stop it, and the unique index lets it in
(`SeatOwnerRuns`). Who owns the booking's row waits for the seat's owner at most, so a chain has two links
(`SeatWaitersMeetOwner`), the first of them a wait for a booking.
`OwnHoldIsReleased` is the other half of the run `reservation_release`: `ReleaseOnlyOwnHold` is false under `Spec`
and true under `PromptSpec`, by the invariant of `HoldIsALock` (`PromptInvariance`).

The theorems about the endpoint (`BookingApiProofs`) also assume `BookingApiAssumption` (both lives
positive and at most `BookingTTL`; the code has 60 for the cache, 10 for the lock and 60 for the booking). Their first fact is
`ApiIsReservation`: each action of `BookingApi` is an action of `Reservation` or leaves its variables alone,
so every theorem above carries over. `StageFollowsPc` ties the handling to the reservation inside it.
A refusal is true because an answer is given once (`AnswersOnce`) and never by a request whose COMMIT
is done; a replay is true because what is cached is an accepted booking with the same key (`CacheIsOwn`)
and accepted bookings last. A lock is left alone because every step that deletes one compares its token, the repeated ones
included (`LocksAreLeftAlone`). Under `PromptApiSpec`, a request past the lock owns it (`OwnsOperation`), and its
booking is younger than a lock as long as it is at work (`YoungWhileWorking`), so also when it is cached; after that the
booking and its entry grow old together (`CacheWithinBooking`).

The two refinements of `BookingApi` map each action to a step of `BookingLedger` or a stutter. A COMMIT is
`Serve`; the answer of a request that has committed is `Confirm`; everything before is a stutter or a `Refuse`,
which needs that who is refused was never granted. `LivePromiseIsKept` adds `YoungWhileWorking`: a
booking that is confirmed has not expired, so nobody can have taken its seat.

`AuthSessionProofs` assumes `AuthAssumption` (lives are naturals, requests finite). An account is unique because the insert
of a user meets the unique index; `OneLivePerLogin` needs more: `PatientInv` adds that a patient user has one call at
a time (`OneCallEach`), and that what a refresh presents are all the live sessions of its login until it has ended
them, after which there is none (`RefreshReplaces`).

`AuthSessionRefinement` needs three more parts: what a request presents has been sent, and tokens are not of the future
(`TokensFit`, which also keeps the readings of the clock in order); every login past its check and every session has an account behind it (`AccountsFit`), which holds
because no code deletes users; and only a refresh has an origin before it has a session (`ClaimsFit`). Then
`FindRefresh` is `Claim`, an insert of a session is `Open`, the update of `logout_from_session` is `Close`, since
`Single` leaves one row to it, and the rest are stutters. With `Patient = {}` the theorem is about users of any
manners, with `Patient = Emails` about careful ones.

`RepositoryProofs` assumes `RepositoryAssumption` (keys finite, bounds positive). Its invariant says what row locks
mean (`LocksFit`: what a call has written is locked by it and in its list), that a writer of a committed row
writes no more (`WritersFit`), that inserts found no row (`InsertsFit`), and that what a delete reports is there until it
commits and gone afterwards, for good (`DeletesFit` with `Gone`). Steps are grouped by what they do to the
table (`StepShapes`): write a row, pass one by, undo, publish, read. `ReportsAreTrue` adds `ReportsFit`: what a call has
collected to return are the rows it has written, in the version its COMMIT leaves or takes away; the row locks
keep those versions from changing in between.

`ServiceProofs` assumes `ServiceAssumption` (requests finite, pools not empty). The invariant ties each place of a
request to the connections and locks it has there, and the process to its client and engine. `NoCircleOfWaits`
follows from it: who has a connection that another waits for is not waiting for one, so it waits for the row at
most, and the row's owner is past its last wait (`RowOwnerRuns`).

## Where the code disagrees with its own words

* `release_hold` "safely" deletes the seat hold key (`seat_guard.py:30`), but whoever's it is: run
  `reservation_release`. The row locks limit the damage to a client being let in earlier. Where handling is prompt
  it cannot happen (`OwnHoldIsReleased`).
* `check_idempotency` returns the cached response "if duplicate" (`idempotency.py:61`), except to a
  duplicate that looked before the response was cached and locked after the lock was freed: run
  `api_duplicate`. Such a duplicate then meets the seat's hold and gets 409.
* `get_one_or_none` retrieves "a single record or `None`" (`base_repository.py:114`), but raises on two,
  which equal tokens bring about: run `auth_single`. Both logins are then refused with 401 until
  one second later the user logs in again.

## What is only model-checked, and what is not modelled

The liveness properties (`EveryRequestEnds` of `Reservation` and `Service`, `SeatComesBack`, `EveryRequestReplied`,
`LeakedLockExpires`, `EveryShutdownEnds`) are checked by TLC only: the prover has no rules for
fairness and ENABLED. Every other property of a passing run is proved for all values of the constants. The three disagreements are
counterexamples that TLC finds.

Not modelled:

* Pagination (`core/pagination/`): no route uses it, it keeps no state, and `PaginationFactory.create` cannot be called
  as it stands: it subtracts a set from a `ColumnCollection` (`factory.py:103`), which raises `TypeError`.
* `count` and `exists_or_not` of `BaseRepository`, and `exists` of `RedisClient`: single reads that nothing calls.
* That an admitted request finds room in the pool of Redis: `RedisUsersAreAdmitted` bounds the requests before their
  COMMIT, those after it have no bound (a hazard without a property).
* Configuration, logging, domain models and DTOs, exceptions and the response schema: constants, declarations and
  layout. The models name the kinds of response and of fault.
* Migrations: run once, before the service; `models.py` has the schema they leave.
* The playground script, which the service does not import, and the tests, most of which are about a todo service that
  is no longer in the tree.

Within the modelled parts: passwords (a login may fail), signatures and hashes (unforgeable, without
collisions), prices and names (never tested), the 400 for an empty `Idempotency-Key`, and `GET /bookings/{id}`, which
only reads. Sessions of the reservation module belong to different users; that one user may send several requests
matters only to the idempotency keys, where an operation stands for it.
Some behaviours of the code have no property because nothing promises otherwise: an error of Redis is
reported as 409, logout answers 204 when it was not done, a refresh that fails half-way leaves the user
logged out, two concurrent refreshes both succeed and a logout between them stops neither, a replay may show a
booking that has expired, a time-out of the pool in `get_current_user` reads as 401, and
`update_many_by_pk` with `commit` may return what another call has written since. `PROJECT.json` has their lines.

## Plan

Done: `SeatLedger`, `Reservation`, `BookingLedger`, `BookingApi`, `AccountLedger`, `AuthSession`, `Repository`, `Service`,
with the proofs of their safety properties and of the four refinements.

What a later change of the code would call for:

1. A route that uses `get_many` and pagination: the query's clauses as operators, checked against a reference over
   bounded queries.
2. A code path that writes `confirmed` or `is_booked`: `SeatLedger` gets a grant that does not age.
3. A `socket_timeout` for Redis: a time-out in `Service` in place of the assumption that an answer comes or the
   connection breaks.
