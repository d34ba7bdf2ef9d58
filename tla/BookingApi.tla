----------------------------- MODULE BookingApi -----------------------------
(***************************************************************************)
(* The whole of POST /bookings/reserve/{seat_id}: the Idempotency-Key      *)
(* pipeline (BookingIdempotency, IdempotencyChecker) around the reservation *)
(* of module Reservation, the cached response and the way out.             *)
(*                                                                         *)
(* A request carries an operation: the pair of user and Idempotency-Key.   *)
(* Requests of one operation for one seat share two Redis keys, a cache    *)
(* and a lock.  FastAPI runs the dependencies, and so takes the lock,      *)
(* before it validates the body; the route clears the lock in its finally, *)
(* and the database session is rolled back after that.                     *)
(***************************************************************************)
EXTENDS Reservation

CONSTANTS
  Operations,  \* the pairs of user id and Idempotency-Key
  LockTTL,     \* BookingIdempotency._lock_timeout_seconds
  CacheTTL     \* BookingIdempotency._cache_ttl_seconds

ASSUME BookingApiAssumption ==
  /\ LockTTL \in Nat \ {0}
  /\ CacheTTL \in Nat \ {0}
  /\ CacheTTL <= BookingTTL
  /\ LockTTL <= BookingTTL

VARIABLES
  operation,  \* request -> its operation
  stage,      \* request -> where the handling of it is
  cache,      \* Redis: key -> the request whose booking is cached, and its life
  lock,       \* Redis: key -> the request that set the lock, and its life
  reply       \* request -> the response, and whose booking it shows

handling == <<operation, stage, cache, lock, reply>>
apiVars  == <<vars, handling>>

Working == {"lookup", "lock", "admitted", "reserve", "clear", "exit"}

Over == {"sent", "crashed"}

\* Those who have the lock, as far as they know.
Processing == {"admitted", "reserve", "clear"}

Keys == SeatIds \X Operations

NoReply == [kind |-> "none", of |-> NoRequest]

ReplyKinds == {"none", "created", "replayed", "busy", "refused", "invalid", "error"}

ApiTypeOK ==
  /\ TypeOK
  /\ operation \in [Requests -> Operations]
  /\ stage \in [Requests -> {"new"} \cup Working \cup Over]
  /\ cache \in [Keys -> [by : Requests \cup {NoRequest}, ttl : 0..CacheTTL]]
  /\ lock \in [Keys -> [by : Requests \cup {NoRequest}, ttl : 0..LockTTL]]
  /\ reply \in [Requests -> [kind : ReplyKinds, of : Requests \cup {NoRequest}]]

ApiInit ==
  /\ Init
  /\ operation \in [Requests -> Operations]
  /\ stage = [r \in Requests |-> "new"]
  /\ cache = [k \in Keys |-> NoHold]
  /\ lock = [k \in Keys |-> NoHold]
  /\ reply = [r \in Requests |-> NoReply]

\* MUTANT of Key: the user and the header are left out of the key.
KeyOfSeat(r) == <<seatOf[r], CHOOSE o \in Operations : TRUE>>

\* build_redis_key of seat, user and Idempotency-Key: UUIDs have a fixed length,
\* so that different triples never make the same string.
Key(r) == <<seatOf[r], operation[r]>>

Enter(r, where) == stage' = [stage EXCEPT ![r] = where]

Send(r, kind, of) ==
  /\ reply' = [reply EXCEPT ![r] = [kind |-> kind, of |-> of]]
  /\ Enter(r, "sent")

-----------------------------------------------------------------------------
(* The dependency: check_idempotency.                                      *)

Receive(r) ==
  /\ stage[r] = "new"
  /\ Enter(r, "lookup")
  /\ UNCHANGED <<vars, operation, cache, lock, reply>>

\* A cached response is replayed, unless the body of this request is invalid.
CacheHit(r) ==
  /\ stage[r] = "lookup"
  /\ cache[Key(r)].ttl > 0
  /\ Send(r, "replayed", cache[Key(r)].by) \/ Send(r, "invalid", NoRequest)
  /\ UNCHANGED <<vars, operation, cache, lock>>

CacheMiss(r) ==
  /\ stage[r] = "lookup"
  /\ cache[Key(r)].ttl = 0
  /\ Enter(r, "lock")
  /\ UNCHANGED <<vars, operation, cache, lock, reply>>

\* RedisClient.get raises, and nobody catches.
LookupFails(r) ==
  /\ stage[r] = "lookup"
  /\ Send(r, "error", NoRequest)
  /\ UNCHANGED <<vars, operation, cache, lock>>

NewLock(r) == [by |-> r, ttl |-> LockTTL]

\* MUTANT of LockIsFree: SET without NX.
LockAlwaysFree(k) == TRUE

LockIsFree(k) == lock[k].ttl = 0

\* SET ... NX PX with a fresh token, answered OK.
TakeLock(r) ==
  /\ stage[r] = "lock"
  /\ LockIsFree(Key(r))
  /\ lock' = [lock EXCEPT ![Key(r)] = NewLock(r)]
  /\ Enter(r, "admitted")
  /\ UNCHANGED <<vars, operation, cache, reply>>

RefuseBusy(r) ==
  /\ stage[r] = "lock"
  /\ ~LockIsFree(Key(r))
  /\ Send(r, "busy", NoRequest)
  /\ UNCHANGED <<vars, operation, cache, lock>>

\* RedisClient.set makes an error of it a refusal, executed or not.
TakeLockFails(r) ==
  /\ stage[r] = "lock"
  /\ \/ UNCHANGED lock
     \/ LockIsFree(Key(r)) /\ lock' = [lock EXCEPT ![Key(r)] = NewLock(r)]
  /\ Send(r, "busy", NoRequest)
  /\ UNCHANGED <<vars, operation, cache>>

\* redis-py repeats the SET, with the same token.
RepeatTakeLock(r) ==
  /\ stage[r] = "lock"
  /\ LockIsFree(Key(r))
  /\ lock' = [lock EXCEPT ![Key(r)] = NewLock(r)]
  /\ UNCHANGED <<vars, operation, stage, cache, reply>>

-----------------------------------------------------------------------------
(* The route.                                                              *)

\* The body is validated once the dependencies are through: 422, and neither the
\* route nor its finally runs, so the lock stays.
RejectBody(r) ==
  /\ stage[r] = "admitted"
  /\ Send(r, "invalid", NoRequest)
  /\ UNCHANGED <<vars, operation, cache, lock>>

CallService(r) ==
  /\ stage[r] = "admitted"
  /\ Arrive(r)
  /\ Enter(r, "reserve")
  /\ UNCHANGED <<operation, cache, lock, reply>>

\* One step of reserve_booking; the session is rolled back later, by Exit.
Reserve(r) ==
  /\ stage[r] = "reserve"
  /\ pc[r] # "rollback"
  /\ Step(r)
  /\ UNCHANGED handling

ReserveFails(r) ==
  /\ stage[r] = "reserve"
  /\ AcquireFails(r) \/ DbError(r) \/ CommitReplyLost(r) \/ ReleaseFails(r)
  /\ UNCHANGED handling

\* A call that redis-py repeats, as in Reservation.
RepeatInside(r) ==
  /\ stage[r] = "reserve"
  /\ Repeat(r)
  /\ UNCHANGED handling

\* MUTANT of CacheEntry: a cache that is made to live longer than the booking.
CacheEntryTooLong(r) == [by |-> r, ttl |-> BookingTTL + 1]

CacheEntry(r) == [by |-> r, ttl |-> CacheTTL]

\* MUTANT of Succeeded: the response is cached before the commit.
ReachedCommit(r) == pc[r] \in {"commit", "done"}

\* create_reservation has returned.
Succeeded(r) == pc[r] = "done"

CacheResponse(r) ==
  /\ stage[r] = "reserve"
  /\ Succeeded(r)
  /\ cache' = [cache EXCEPT ![Key(r)] = CacheEntry(r)]
  /\ Enter(r, "clear")
  /\ UNCHANGED <<vars, operation, lock, reply>>

\* RedisClient.set returns False, which cache_booking_response does not read.
CacheResponseFails(r) ==
  /\ stage[r] = "reserve"
  /\ Succeeded(r)
  /\ Enter(r, "clear")
  /\ UNCHANGED <<vars, operation, cache, lock, reply>>

\* redis-py repeats the SET: the response is cached anew, and for longer.
RepeatCacheResponse(r) ==
  /\ stage[r] = "reserve"
  /\ Succeeded(r)
  /\ cache' = [cache EXCEPT ![Key(r)] = CacheEntry(r)]
  /\ UNCHANGED <<vars, operation, stage, lock, reply>>

\* The finally clause is next: after the cache, or on an exception.
Leaving(r) == stage[r] = "clear" \/ (stage[r] = "reserve" /\ pc[r] = "rollback")

\* MUTANT of OwnsLock: DEL instead of the compare-and-delete script.
LockExists(r) == lock[Key(r)].ttl > 0

\* What the Lua script of clear_booking_cache_lock compares.
OwnsLock(r) == lock[Key(r)].by = r

ClearLock(r) ==
  /\ Leaving(r)
  /\ \/ OwnsLock(r) /\ lock' = [lock EXCEPT ![Key(r)] = NoHold]
     \/ ~OwnsLock(r) /\ UNCHANGED lock
  /\ Enter(r, "exit")
  /\ UNCHANGED <<vars, operation, cache, reply>>

\* redis-py repeats the script, which compares the token again.
RepeatClearLock(r) ==
  /\ Leaving(r)
  /\ OwnsLock(r)
  /\ lock' = [lock EXCEPT ![Key(r)] = NoHold]
  /\ UNCHANGED <<vars, operation, stage, cache, reply>>

\* clear_booking_cache_lock swallows every error and returns False.
ClearLockFails(r) ==
  /\ Leaving(r)
  /\ Enter(r, "exit")
  /\ UNCHANGED <<vars, operation, cache, lock, reply>>

\* The session dependency ends, and the response goes out.
Exit(r) ==
  /\ stage[r] = "exit"
  /\ \/ Rollback(r)
     \/ pc[r] = "done" /\ UNCHANGED vars
  /\ \/ answer[r] = "ok" /\ Send(r, "created", r)
     \/ answer[r] \in {"held", "taken"} /\ Send(r, "refused", NoRequest)
     \/ answer[r] = "error" /\ Send(r, "error", NoRequest)
  /\ UNCHANGED <<operation, cache, lock>>

-----------------------------------------------------------------------------
(* The environment.                                                        *)

\* The process dies at any point of the handling.
Die(r) ==
  /\ stage[r] \in Working
  /\ Crash(r) \/ (pc[r] \in {"idle", "done"} /\ UNCHANGED vars)
  /\ Enter(r, "crashed")
  /\ UNCHANGED <<operation, cache, lock, reply>>

ApiTick ==
  /\ Tick
  /\ cache' = [k \in Keys |-> Decay(cache[k])]
  /\ lock' = [k \in Keys |-> Decay(lock[k])]
  /\ UNCHANGED <<operation, stage, reply>>

ApiRedisRestart ==
  /\ RedisRestart
  /\ cache' = [k \in Keys |-> NoHold]
  /\ lock' = [k \in Keys |-> NoHold]
  /\ UNCHANGED <<operation, stage, reply>>

-----------------------------------------------------------------------------

Handle(r) ==
  \/ CacheHit(r) \/ CacheMiss(r) \/ TakeLock(r) \/ RefuseBusy(r)
  \/ RejectBody(r) \/ CallService(r) \/ Reserve(r)
  \/ CacheResponse(r) \/ ClearLock(r) \/ Exit(r)

HandleFails(r) ==
  \/ LookupFails(r) \/ TakeLockFails(r) \/ ReserveFails(r)
  \/ CacheResponseFails(r) \/ ClearLockFails(r) \/ Die(r)

HandleRepeats(r) ==
  \/ RepeatTakeLock(r) \/ RepeatInside(r)
  \/ RepeatCacheResponse(r) \/ RepeatClearLock(r)

Requested == \E r \in Requests : Receive(r) \/ Handle(r) \/ HandleFails(r)

Repeated == \E r \in Requests : HandleRepeats(r)

ApiNext == Requested \/ Repeated \/ ApiTick \/ ApiRedisRestart

ApiSpec == ApiInit /\ [][ApiNext]_apiVars

\* As in Reservation: what is at work goes on, and time passes.
ApiFairSpec ==
  /\ ApiSpec
  /\ \A r \in Requests : WF_apiVars(Handle(r))
  /\ WF_apiVars(ApiTick)

\* A request is through before its 10 seconds are over, counted from its lock up to the
\* finally and from its INSERT up to the response, and its hold does not run out either.
\* Time passes at any step of it.
Overruns(r) ==
  \/ HoldRunsOut(r)
  \/ stage[r] \in Processing /\ lock[Key(r)].ttl <= 1
  \/ stage[r] \in Working /\ HasRow(r) /\ age[r] + 1 >= LockTTL

\* What the choice of the times relies on: no request overruns them, Redis stays up, and
\* no command is repeated.
PromptApiNext ==
  \/ Requested
  \/ ApiTick /\ \A r \in Requests : ~Overruns(r)

PromptApiSpec == ApiInit /\ [][PromptApiNext]_apiVars

-----------------------------------------------------------------------------
(* Safety.                                                                 *)

SameOperation(a, b) == seatOf[a] = seatOf[b] /\ operation[a] = operation[b]

\* A replayed response shows a booking that was committed and accepted, made by
\* the same user with the same Idempotency-Key for the same seat, whatever was
\* cached, evicted, crashed or retried in between.
ReplayIsOwn ==
  \A r \in Requests : reply[r].kind = "replayed" =>
    LET b == reply[r].of IN
      b \in Requests /\ SameOperation(b, r) /\ answer[b] = "ok" /\ booking[b] # "none"

\* A client that is told 409 or 422 has no booking from that request: what the
\* response refuses was never committed, on any path through holds, rollbacks
\* and lost replies.
RefusedLeavesNothing ==
  \A r \in Requests :
    reply[r].kind \in {"refused", "busy", "invalid"} => booking[r] = "none"

\* The cache's time starts with the SET after the COMMIT, the booking's with the INSERT,
\* so that a replay may show a booking that has expired.  Where handling is prompt
\* (PromptApiSpec) it does so for less than a lock lives, and only in that last part of
\* the entry's life may the seat be another's.
CachedBookingIsRecent ==
  \A k \in Keys : cache[k].ttl > 0 =>
    LET b == cache[k].by IN
      /\ cache[k].ttl + age[b] < CacheTTL + LockTTL
      /\ \/ booking[b] = "pending"
         \/ booking[b] = "canceled" /\ cache[k].ttl < LockTTL

\* Where handling is prompt, one request of an operation at a time is between the lock and
\* its release: duplicates never run reserve_booking side by side.
ProcessingIsExclusive ==
  \A a, b \in Requests :
    stage[a] \in Processing /\ stage[b] \in Processing /\ SameOperation(a, b) => a = b

-----------------------------------------------------------------------------
(* Action properties.                                                      *)

HasLock(o) == lock[Key(o)].by = o /\ lock[Key(o)].ttl > 0

\* A request that is being processed loses its lock to the clock, to Redis or to its own
\* release, sent once or twice, never to a step of another request: not to a late duplicate
\* whose own lock has run out, nor to one whose script is sent again after that, which is
\* what the token is for, nor to one that finds the lock taken.
ReleaseOnlyOwnLock ==
  [][\A o \in Requests :
       stage[o] \in Processing /\ HasLock(o) /\ ~HasLock(o)' =>
         \/ ApiTick /\ lock[Key(o)].ttl <= 1
         \/ ApiRedisRestart
         \/ ClearLock(o) \/ RepeatClearLock(o)]_apiVars

\* check_idempotency "returns cached response dict if duplicate, or None if
\* request should proceed" (idempotency.py:61): no request is let through while
\* the response of its operation is cached.
DuplicateIsReplayed ==
  [][\A r \in Requests : TakeLock(r) => cache[Key(r)].ttl = 0]_apiVars

-----------------------------------------------------------------------------
(* Liveness.                                                               *)

\* Every request gets a response or dies with its process.
EveryRequestReplied ==
  \A r \in Requests : stage[r] = "lookup" ~> stage[r] \in Over

\* A lock left behind, by a body that is invalid, a crash or an error of the
\* release script, goes away by itself: the operation can be retried.
LeakedLockExpires ==
  \A r \in Requests : stage[r] \in Over ~> lock[Key(r)].by # r
-----------------------------------------------------------------------------
(* Refinement.                                                             *)

Promise == INSTANCE BookingLedger WITH
  Customers <- Requests,
  Life <- BookingTTL,
  Nobody <- NoRequest,
  wants <- seatOf,
  owner <- [s \in Seats |-> OwnerOf(s)],
  age <- [r \in Requests |-> IF booking[r] = "none" THEN 0 ELSE age[r]],
  granted <- {r \in Requests : booking[r] # "none"},
  told <- {r \in Requests : answer[r] = "ok"}

\* The endpoint with its cache, its locks and every failure is a ledger that answers
\* each request once: it confirms what it granted, refuses for good, and replays a
\* grant of the same operation.
PromiseKept == Promise!PromiseSpec

\* Where handling is prompt, whoever is told of a new booking has the seat at that moment.
LivePromiseKept == Promise!LiveSpec
=============================================================================
