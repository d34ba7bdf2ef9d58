-------------------------- MODULE BookingApiProofs --------------------------
(***************************************************************************)
(* Proofs about module BookingApi.  Every step of the whole request is a   *)
(* step of the reservation or leaves it alone, so that what is proved of   *)
(* Reservation holds of BookingApi; on top of it, what the responses say.  *)
(***************************************************************************)
EXTENDS BookingApi, ReservationProofs

-----------------------------------------------------------------------------
(* The pipeline only calls the reservation.                                *)

\* The steps that only the pipeline takes.
Around(r) ==
  \/ Receive(r) \/ CacheHit(r) \/ CacheMiss(r) \/ LookupFails(r)
  \/ TakeLock(r) \/ RefuseBusy(r) \/ TakeLockFails(r) \/ RejectBody(r)
  \/ CacheResponse(r) \/ CacheResponseFails(r) \/ ClearLock(r) \/ ClearLockFails(r)

\* The steps in which reserve_booking moves, or the process ends.
Inside(r) == CallService(r) \/ Reserve(r) \/ ReserveFails(r) \/ Exit(r) \/ Die(r)

\* A request moves around the reservation or inside it.
LEMMA RequestSteps ==
  ASSUME Requested
  PROVE  \E r \in Requests : Around(r) \/ Inside(r)
BY DEF Requested, Handle, HandleFails, Around, Inside

\* What is done around the reservation leaves Redis holds and Postgres alone.
LEMMA AroundKeeps ==
  ASSUME NEW r \in Requests, Around(r)
  PROVE  UNCHANGED <<vars, operation>>
BY DEF Around, Receive, CacheHit, CacheMiss, LookupFails, TakeLock, RefuseBusy,
       TakeLockFails, RejectBody, CacheResponse, CacheResponseFails, ClearLock,
       ClearLockFails

\* What is done inside is a step of the reservation, and touches neither the cache nor
\* the lock of the operation.
LEMMA InsideReserves ==
  ASSUME NEW r \in Requests, Inside(r)
  PROVE  /\ Arrive(r) \/ Step(r) \/ Fail(r) \/ UNCHANGED vars
         /\ UNCHANGED <<operation, cache, lock>>
BY DEF Inside, CallService, Reserve, ReserveFails, Exit, Die, Step, Fail, handling

\* A command that goes out again moves no request on and leaves Postgres alone.
LEMMA RepeatKeeps ==
  ASSUME NEW r \in Requests, HandleRepeats(r)
  PROVE  /\ Repeat(r) \/ UNCHANGED vars
         /\ UNCHANGED <<clientVars, rowVars, txnVars, operation, stage, reply>>
BY DEF HandleRepeats, RepeatTakeLock, RepeatInside, RepeatCacheResponse, RepeatClearLock,
       Repeat, RepeatAcquire, RepeatRelease, handling, vars

\* Every step of the API is a step of the reservation or a stutter.
LEMMA ApiNextIsNext == [ApiNext]_apiVars => [Next]_vars
<1> SUFFICES ASSUME [ApiNext]_apiVars
             PROVE  [Next]_vars
  OBVIOUS
<1>1. CASE Requested
  BY <1>1, RequestSteps, AroundKeeps, InsideReserves DEF Next
<1>4. CASE Repeated
  BY <1>4, RepeatKeeps DEF Repeated, Next, Fail
<1>2. CASE ApiTick \/ ApiRedisRestart
  BY <1>2 DEF ApiTick, ApiRedisRestart, Next
<1>3. CASE UNCHANGED apiVars
  BY <1>3 DEF apiVars
<1> QED
  BY <1>1, <1>2, <1>3, <1>4 DEF ApiNext

\* The idempotency pipeline adds no behaviour to the reservation: whatever is proved
\* of reserve_booking called at any time is true of the whole endpoint.
THEOREM ApiIsReservation == ApiSpec => Spec
BY ApiNextIsNext, PTL DEF ApiSpec, Spec, ApiInit

\* So the seats and the bookings agree behind the endpoint too.
THEOREM ApiTablesAgree == ApiSpec => []SeatRowMatchesBookings
BY ApiIsReservation, TablesAgree, PTL

-----------------------------------------------------------------------------
(* Type correctness.                                                       *)

\* A lock or a cache entry stays well formed as its life runs down.
LEMMA KeyDecays ==
  ASSUME NEW T \in Nat, NEW h \in [by : Requests \cup {NoRequest}, ttl : 0..T]
  PROVE  Decay(h) \in [by : Requests \cup {NoRequest}, ttl : 0..T]
<1>1. CASE h.ttl <= 1
  BY <1>1 DEF Decay, NoHold
<1>2. CASE ~(h.ttl <= 1)
  <2>1. h.ttl - 1 \in 0..T
    BY <1>2
  <2> QED
    BY <1>2, <2>1 DEF Decay
<1> QED
  BY <1>1, <1>2

\* The key of a request is one of the keys.
LEMMA KeyTyped ==
  ASSUME ApiTypeOK, NEW r \in Requests
  PROVE  Key(r) \in Keys
BY DEF ApiTypeOK, TypeOK, Key, Keys

\* No request is received and no key is set at the start.
LEMMA InitApiTyped == ApiInit => ApiTypeOK
<1> SUFFICES ASSUME ApiInit
             PROVE  ApiTypeOK
  OBVIOUS
<1>1. TypeOK
  BY InitTyped DEF ApiInit
<1>2. NoHold \in [by : Requests \cup {NoRequest}, ttl : 0..CacheTTL]
      /\ NoHold \in [by : Requests \cup {NoRequest}, ttl : 0..LockTTL]
  BY BookingApiAssumption DEF BookingApiAssumption, NoHold
<1> QED
  BY <1>1, <1>2 DEF ApiInit, ApiTypeOK, NoReply, ReplyKinds

\* A response is one of those the endpoint gives.
LEMMA SendTyped ==
  ASSUME ApiTypeOK, NEW r \in Requests, NEW kind \in ReplyKinds,
         NEW of \in Requests \cup {NoRequest}, Send(r, kind, of)
  PROVE  reply' \in [Requests -> [kind : ReplyKinds, of : Requests \cup {NoRequest}]]
BY DEF ApiTypeOK, Send

\* Every step keeps the stages, the keys and the replies well formed.
LEMMA ApiNextTyped == ApiTypeOK /\ [ApiNext]_apiVars => ApiTypeOK'
<1> SUFFICES ASSUME ApiTypeOK, [ApiNext]_apiVars
             PROVE  ApiTypeOK'
  OBVIOUS
<1>t. TypeOK'
  BY ApiNextIsNext, NextTyped DEF ApiTypeOK
<1>1. ASSUME NEW r \in Requests, Around(r)
      PROVE  ApiTypeOK'
  <2>1. /\ Key(r) \in Keys
        /\ cache[Key(r)].by \in Requests \cup {NoRequest}
    BY KeyTyped DEF ApiTypeOK
  <2>2. /\ CacheEntry(r) \in [by : Requests \cup {NoRequest}, ttl : 0..CacheTTL]
        /\ NewLock(r) \in [by : Requests \cup {NoRequest}, ttl : 0..LockTTL]
        /\ NoHold \in [by : Requests \cup {NoRequest}, ttl : 0..LockTTL]
    BY BookingApiAssumption DEF BookingApiAssumption, CacheEntry, NewLock, NoHold
  <2>3. stage' \in [Requests -> {"new"} \cup Working \cup Over]
    BY <1>1
       DEF ApiTypeOK, Around, Receive, CacheHit, CacheMiss, LookupFails, TakeLock,
           RefuseBusy, TakeLockFails, RejectBody, CacheResponse, CacheResponseFails,
           ClearLock, ClearLockFails, Enter, Send, Working, Over
  <2>4. reply' \in [Requests -> [kind : ReplyKinds, of : Requests \cup {NoRequest}]]
    <3>1. CASE UNCHANGED reply
      BY <3>1 DEF ApiTypeOK
    <3>2. CASE ~UNCHANGED reply
      <4>1. \E kind \in ReplyKinds, of \in Requests \cup {NoRequest} : Send(r, kind, of)
        BY <1>1, <2>1, <3>2
           DEF Around, Receive, CacheHit, CacheMiss, LookupFails, TakeLock, RefuseBusy,
               TakeLockFails, RejectBody, CacheResponse, CacheResponseFails, ClearLock,
               ClearLockFails, ReplyKinds
      <4> QED
        BY <4>1, SendTyped
    <3> QED
      BY <3>1, <3>2
  <2>5. cache' \in [Keys -> [by : Requests \cup {NoRequest}, ttl : 0..CacheTTL]]
    BY <1>1, <2>2
       DEF ApiTypeOK, Around, Receive, CacheHit, CacheMiss, LookupFails, TakeLock,
           RefuseBusy, TakeLockFails, RejectBody, CacheResponse, CacheResponseFails,
           ClearLock, ClearLockFails
  <2>6. lock' \in [Keys -> [by : Requests \cup {NoRequest}, ttl : 0..LockTTL]]
    BY <1>1, <2>2
       DEF ApiTypeOK, Around, Receive, CacheHit, CacheMiss, LookupFails, TakeLock,
           RefuseBusy, TakeLockFails, RejectBody, CacheResponse, CacheResponseFails,
           ClearLock, ClearLockFails
  <2> QED
    BY <1>1, <1>t, <2>3, <2>4, <2>5, <2>6, AroundKeeps DEF ApiTypeOK
<1>2. ASSUME NEW r \in Requests, Inside(r)
      PROVE  ApiTypeOK'
  <2>1. stage' \in [Requests -> {"new"} \cup Working \cup Over]
    BY <1>2 DEF ApiTypeOK, Inside, CallService, Reserve, ReserveFails, Exit, Die, Enter,
                Send, handling, Working, Over
  <2>2. reply' \in [Requests -> [kind : ReplyKinds, of : Requests \cup {NoRequest}]]
    BY <1>2 DEF ApiTypeOK, Inside, CallService, Reserve, ReserveFails, Exit, Die, Send,
                handling, ReplyKinds
  <2> QED
    BY <1>2, <1>t, <2>1, <2>2, InsideReserves DEF ApiTypeOK
<1>3. CASE ApiTick
  <2>1. /\ \A k \in Keys :
             /\ Decay(cache[k]) \in [by : Requests \cup {NoRequest}, ttl : 0..CacheTTL]
             /\ Decay(lock[k]) \in [by : Requests \cup {NoRequest}, ttl : 0..LockTTL]
    BY KeyDecays, BookingApiAssumption DEF BookingApiAssumption, ApiTypeOK
  <2> QED
    BY <1>3, <1>t, <2>1 DEF ApiTick, ApiTypeOK
<1>4. CASE ApiRedisRestart
  <2>1. NoHold \in [by : Requests \cup {NoRequest}, ttl : 0..CacheTTL]
        /\ NoHold \in [by : Requests \cup {NoRequest}, ttl : 0..LockTTL]
    BY BookingApiAssumption DEF BookingApiAssumption, NoHold
  <2> QED
    BY <1>4, <1>t, <2>1 DEF ApiRedisRestart, ApiTypeOK
<1>5. CASE UNCHANGED apiVars
  BY <1>5, <1>t DEF apiVars, handling, ApiTypeOK
<1>6. ASSUME NEW r \in Requests, HandleRepeats(r)
      PROVE  ApiTypeOK'
  <2>1. /\ CacheEntry(r) \in [by : Requests \cup {NoRequest}, ttl : 0..CacheTTL]
        /\ NewLock(r) \in [by : Requests \cup {NoRequest}, ttl : 0..LockTTL]
        /\ NoHold \in [by : Requests \cup {NoRequest}, ttl : 0..LockTTL]
    BY BookingApiAssumption DEF BookingApiAssumption, CacheEntry, NewLock, NoHold
  <2>2. cache' \in [Keys -> [by : Requests \cup {NoRequest}, ttl : 0..CacheTTL]]
    BY <1>6, <2>1
       DEF ApiTypeOK, HandleRepeats, RepeatTakeLock, RepeatInside, RepeatCacheResponse,
           RepeatClearLock, handling
  <2>3. lock' \in [Keys -> [by : Requests \cup {NoRequest}, ttl : 0..LockTTL]]
    BY <1>6, <2>1
       DEF ApiTypeOK, HandleRepeats, RepeatTakeLock, RepeatInside, RepeatCacheResponse,
           RepeatClearLock, handling
  <2> QED
    BY <1>6, <1>t, <2>2, <2>3, RepeatKeeps DEF ApiTypeOK
<1> QED
  BY <1>1, <1>2, <1>3, <1>4, <1>5, <1>6, RequestSteps DEF ApiNext, Repeated

\* The variables of the endpoint keep their types, for any number of requests, seats
\* and operations and any life times.
THEOREM ApiTyping == ApiSpec => []ApiTypeOK
BY InitApiTyped, ApiNextTyped, PTL DEF ApiSpec

-----------------------------------------------------------------------------
(* What the stage of the handling says about the reservation.              *)

\* Nothing is reserved before the service is called, a request that is over is out of
\* the reservation, and the response is cached only after an accepted one.
StageFollowsPc ==
  \A r \in Requests :
    /\ stage[r] \in {"new", "lookup", "lock", "admitted"} => pc[r] = "idle"
    /\ stage[r] \in Over => pc[r] \in {"idle"} \cup Ended
    /\ stage[r] = "reserve" /\ pc[r] = "done" => answer[r] = "ok"
    /\ reply[r].kind # "none" => stage[r] = "sent"

\* A step of one reservation leaves where the others are and what they were told.
LEMMA OthersStay ==
  ASSUME TypeOK, NEW r \in Requests, Arrive(r) \/ Step(r) \/ Fail(r),
         NEW q \in Requests \ {r}
  PROVE  pc'[q] = pc[q] /\ answer'[q] = answer[q]
BY DEF TypeOK, Arrive, Step, Fail, AcquireHold, RefuseHeld, AcquireFails, SelectExpired,
       LockBooking, LockSeat, CancelExpired, TryHoldSeat, HoldSeat, SeatUnavailable, InsertBooking,
       Commit, CommitReplyLost, DbError, ReleaseHold, ReleaseFails, Repeat,
       RepeatAcquire, RepeatRelease, Rollback, Crash, clientVars, Goto, Tell

\* Inside the reservation, a step of one request leaves the others as they are.
LEMMA InsideOthersStay ==
  ASSUME TypeOK, NEW r \in Requests, Inside(r), NEW q \in Requests \ {r}
  PROVE  pc'[q] = pc[q] /\ answer'[q] = answer[q]
BY InsideReserves, OthersStay DEF vars, clientVars

\* Wherever a request steps, the handling of the others stays where it is.
LEMMA OthersHandling ==
  ASSUME ApiTypeOK, NEW r \in Requests, Around(r) \/ Inside(r), NEW q \in Requests \ {r}
  PROVE  stage'[q] = stage[q] /\ reply'[q] = reply[q]
BY DEF ApiTypeOK, Around, Receive, CacheHit, CacheMiss, LookupFails, TakeLock, RefuseBusy,
       TakeLockFails, RejectBody, CacheResponse, CacheResponseFails, ClearLock,
       ClearLockFails, Inside, CallService, Reserve, ReserveFails, Exit, Die, Enter, Send,
       handling

\* Only the COMMIT takes a reservation to "done" unless it is rolled back, and it accepts.
LEMMA DoneIsAccepted ==
  ASSUME TypeOK, NEW r \in Requests, stage[r] = "reserve", Reserve(r) \/ ReserveFails(r),
         pc'[r] = "done"
  PROVE  answer'[r] = "ok"
BY DEF TypeOK, Reserve, ReserveFails, Step, AcquireHold, RefuseHeld, AcquireFails,
       SelectExpired, LockBooking, LockSeat, CancelExpired, TryHoldSeat, HoldSeat, SeatUnavailable,
       InsertBooking, Commit, CommitReplyLost, DbError, ReleaseHold, ReleaseFails,
       Rollback, Goto, Tell

\* Every step of the handling keeps stage and reservation together.
LEMMA StageStep ==
  ASSUME ApiTypeOK, StageFollowsPc, [ApiNext]_apiVars
  PROVE  StageFollowsPc'
<1> DEFINE Follows(q) ==
      /\ stage[q] \in {"new", "lookup", "lock", "admitted"} => pc[q] = "idle"
      /\ stage[q] \in Over => pc[q] \in {"idle"} \cup Ended
      /\ stage[q] = "reserve" /\ pc[q] = "done" => answer[q] = "ok"
      /\ reply[q].kind # "none" => stage[q] = "sent"
<1>1. ASSUME NEW r \in Requests, Around(r)
      PROVE  StageFollowsPc'
  <2>1. ASSUME NEW q \in Requests \ {r}
        PROVE  Follows(q)'
    BY <1>1, <2>1, AroundKeeps, OthersHandling DEF StageFollowsPc, vars, clientVars
  <2>2. Follows(r) /\ pc'[r] = pc[r] /\ answer'[r] = answer[r]
    BY <1>1, AroundKeeps DEF StageFollowsPc, vars, clientVars
  <2>3. /\ stage'[r] \in {"new", "lookup", "lock", "admitted"} => pc[r] = "idle"
        /\ stage'[r] \in Over => pc[r] = "idle"
        /\ stage'[r] # "reserve"
    BY <1>1, <2>2
       DEF ApiTypeOK, Around, Receive, CacheHit, CacheMiss, LookupFails, TakeLock,
           RefuseBusy, TakeLockFails, RejectBody, CacheResponse, CacheResponseFails,
           ClearLock, ClearLockFails, Enter, Send, Over
  <2>4. stage[r] # "sent"
    BY <1>1
       DEF Around, Receive, CacheHit, CacheMiss, LookupFails, TakeLock, RefuseBusy,
           TakeLockFails, RejectBody, CacheResponse, CacheResponseFails, ClearLock,
           ClearLockFails, Leaving
  <2>5. stage'[r] = "sent" \/ reply'[r] = reply[r]
    BY <1>1
       DEF ApiTypeOK, Around, Receive, CacheHit, CacheMiss, LookupFails, TakeLock,
           RefuseBusy, TakeLockFails, RejectBody, CacheResponse, CacheResponseFails,
           ClearLock, ClearLockFails, Enter, Send
  <2> QED
    BY <2>1, <2>2, <2>3, <2>4, <2>5 DEF StageFollowsPc
<1>2. ASSUME NEW r \in Requests, Inside(r)
      PROVE  StageFollowsPc'
  <2>1. ASSUME NEW q \in Requests \ {r}
        PROVE  Follows(q)'
    BY <1>2, <2>1, InsideOthersStay, OthersHandling DEF StageFollowsPc, ApiTypeOK
  <2>2. ASSUME CallService(r)
        PROVE  Follows(r)'
    BY <2>2 DEF StageFollowsPc, ApiTypeOK, TypeOK, CallService, Arrive, Goto, Enter, Over
  <2>3. ASSUME Reserve(r) \/ ReserveFails(r)
        PROVE  Follows(r)'
    BY <2>3, DoneIsAccepted
       DEF StageFollowsPc, ApiTypeOK, Reserve, ReserveFails, handling, Over
  <2>4. ASSUME Exit(r)
        PROVE  Follows(r)'
    <3>1. pc'[r] = "done"
      BY <2>4 DEF ApiTypeOK, TypeOK, Exit, Rollback, Goto, vars, clientVars
    <3> QED
      BY <2>4, <3>1 DEF ApiTypeOK, Exit, Send, Enter, Over, Ended
  <2>5. ASSUME Die(r)
        PROVE  Follows(r)'
    <3>1. pc'[r] \in {"idle"} \cup Ended
      BY <2>5 DEF ApiTypeOK, TypeOK, Die, Crash, Goto, vars, clientVars, Ended
    <3>2. stage[r] # "sent" /\ reply' = reply /\ stage'[r] = "crashed"
      BY <2>5 DEF ApiTypeOK, Die, Working, Enter
    <3> QED
      BY <3>1, <3>2 DEF StageFollowsPc, Over
  <2>6. Follows(r)'
    BY <1>2, <2>2, <2>3, <2>4, <2>5 DEF Inside
  <2> QED
    BY <2>1, <2>6 DEF StageFollowsPc
<1>3. CASE ApiTick \/ ApiRedisRestart \/ UNCHANGED apiVars
  BY <1>3 DEF ApiTick, Tick, ApiRedisRestart, RedisRestart, apiVars, handling, vars,
              clientVars, StageFollowsPc
<1>4. CASE Repeated
  BY <1>4, RepeatKeeps DEF Repeated, clientVars, StageFollowsPc
<1> QED
  BY <1>1, <1>2, <1>3, <1>4, RequestSteps DEF ApiNext

\* What the reservation guarantees, as the steps of the endpoint use it.
ReservationIInv == IInv /\ AcceptedKeepsSeat

\* Behind the endpoint, the reservation keeps what it keeps by itself.
LEMMA ReservationInvariance == ApiSpec => []ReservationIInv
BY ApiIsReservation, Invariance, AcceptedSeatsAreKept, PTL DEF ReservationIInv

\* ... and no stage of the handling gets out of step with it.
LEMMA StageInvariance == ApiSpec => [](ApiTypeOK /\ StageFollowsPc)
<1>1. ApiInit => StageFollowsPc
  <2> SUFFICES ASSUME ApiInit, NEW r \in Requests
               PROVE  pc[r] = "idle" /\ stage[r] = "new" /\ reply[r].kind = "none"
    BY DEF StageFollowsPc, Over
  <2> QED
    BY DEF ApiInit, Init, NoReply
<1> QED
  BY <1>1, InitApiTyped, ApiNextTyped, StageStep, PTL DEF ApiSpec

-----------------------------------------------------------------------------
(* A refusal leaves nothing.                                               *)

\* An answer is given once, at the end of a reservation.
LEMMA AnswersOnce ==
  ASSUME IInv, [Next]_vars, NEW q \in Requests, answer'[q] # answer[q]
  PROVE  /\ answer[q] = "none" /\ booking[q] = "none"
         /\ answer'[q] \in {"held", "taken"} => pc[q] # "commit"
<1> USE DEF IInv, TypeOK, Tell
<1>1. CASE Tick \/ RedisRestart \/ UNCHANGED vars
  BY <1>1 DEF Tick, RedisRestart, vars, clientVars
<1>2. ASSUME NEW r \in Requests, Arrive(r) \/ Step(r) \/ Fail(r)
      PROVE  /\ pc[q] \in {"acquire"} \cup InTxn
             /\ answer'[q] \in {"held", "taken"} => pc[q] # "commit"
  BY <1>2 DEF Arrive, Step, Fail, AcquireHold, RefuseHeld, AcquireFails, SelectExpired,
              LockBooking, LockSeat, CancelExpired, TryHoldSeat, HoldSeat, SeatUnavailable,
              InsertBooking, Commit, CommitReplyLost, DbError, ReleaseHold, ReleaseFails,
              Repeat, RepeatAcquire, RepeatRelease, Rollback, Crash, clientVars, InTxn
<1> QED
  BY <1>1, <1>2 DEF Next, LockDiscipline, NotYetBooked

\* A request that is not about to commit does not get a booking in this step.
LEMMA NoneStays ==
  ASSUME IInv, [Next]_vars, NEW q \in Requests, booking[q] = "none", pc[q] # "commit"
  PROVE  booking'[q] = "none"
BY BookingChanges DEF Secured

\* The service tells nobody "held" or "taken" whose booking it has committed.
DeniedIsNone ==
  \A r \in Requests : answer[r] \in {"held", "taken"} => booking[r] = "none"

\* A refusal by the service is given before any COMMIT of the request.
LEMMA DeniedStep ==
  ASSUME IInv, DeniedIsNone, [Next]_vars
  PROVE  DeniedIsNone'
<1> SUFFICES ASSUME NEW r \in Requests, answer'[r] \in {"held", "taken"}
             PROVE  booking'[r] = "none"
  BY DEF DeniedIsNone
<1>1. booking[r] = "none" /\ pc[r] # "commit"
  <2>1. CASE answer'[r] = answer[r]
    BY <2>1 DEF DeniedIsNone, IInv, LockDiscipline, NotYetBooked, InTxn
  <2>2. CASE answer'[r] # answer[r]
    BY <2>2, AnswersOnce
  <2> QED
    BY <2>1, <2>2
<1> QED
  BY <1>1, NoneStays

\* A response that refuses is sent before the service is called, or after the service
\* has refused.
LEMMA RefusalIsSent ==
  ASSUME ApiTypeOK, StageFollowsPc, [ApiNext]_apiVars, NEW q \in Requests,
         reply'[q] # reply[q], reply'[q].kind \in {"refused", "busy", "invalid"}
  PROVE  pc[q] = "idle" \/ answer[q] \in {"held", "taken"}
<1>1. ASSUME NEW r \in Requests, Around(r) \/ Inside(r)
      PROVE  r = q
  BY <1>1, OthersHandling
<1>2. CASE Around(q)
  BY <1>2
     DEF StageFollowsPc, Around, Receive, CacheHit, CacheMiss, LookupFails, TakeLock,
         RefuseBusy, TakeLockFails, RejectBody, CacheResponse, CacheResponseFails,
         ClearLock, ClearLockFails
<1>3. CASE Inside(q)
  <2>1. Exit(q)
    BY <1>3 DEF Inside, CallService, Reserve, ReserveFails, Die, handling
  <2> QED
    BY <2>1 DEF Exit, Send, ApiTypeOK
<1>4. CASE ApiTick \/ ApiRedisRestart \/ UNCHANGED apiVars
  BY <1>4 DEF ApiTick, ApiRedisRestart, apiVars, handling
<1>5. CASE Repeated
  BY <1>5, RepeatKeeps DEF Repeated
<1> QED
  BY <1>1, <1>2, <1>3, <1>4, <1>5, RequestSteps DEF ApiNext

\* So neither the service nor the endpoint refuses what is, or will be, booked.
LEMMA RefusalInvariance == ApiSpec => [](DeniedIsNone /\ RefusedLeavesNothing)
<1> DEFINE Inv == DeniedIsNone /\ RefusedLeavesNothing
<1>1. ApiInit => Inv
  BY DEF ApiInit, Init, DeniedIsNone, RefusedLeavesNothing
<1>2. /\ ReservationIInv /\ ApiTypeOK /\ StageFollowsPc
      /\ Inv /\ [ApiNext]_apiVars
      => Inv'
  <2> SUFFICES ASSUME ReservationIInv, ApiTypeOK, StageFollowsPc, Inv, [ApiNext]_apiVars
               PROVE  Inv'
    OBVIOUS
  <2>1. IInv /\ [Next]_vars
    BY ApiNextIsNext DEF ReservationIInv
  <2>2. ASSUME NEW r \in Requests, reply'[r].kind \in {"refused", "busy", "invalid"}
        PROVE  booking[r] = "none" /\ pc[r] # "commit"
    <3>1. CASE reply'[r] = reply[r]
      BY <2>2, <3>1 DEF RefusedLeavesNothing, StageFollowsPc, Over, Ended
    <3>2. CASE reply'[r] # reply[r]
      BY <2>1, <2>2, <3>2, RefusalIsSent
         DEF IInv, LockDiscipline, NotYetBooked, DeniedIsNone, InTxn
    <3> QED
      BY <3>1, <3>2
  <2> QED
    BY <2>1, <2>2, DeniedStep, NoneStays DEF RefusedLeavesNothing
<1> QED
  BY <1>1, <1>2, ReservationInvariance, StageInvariance, PTL DEF ApiSpec

\* A client that is told 409 or 422 has no booking from that request.
THEOREM RefusalsAreTrue == ApiSpec => []RefusedLeavesNothing
BY RefusalInvariance, PTL

-----------------------------------------------------------------------------
(* A replay shows one's own booking.                                       *)

\* What is cached under a key is the accepted booking of a request with that key.
CacheIsOwn ==
  \A k \in Keys : cache[k].ttl > 0 =>
    /\ cache[k].by \in Requests
    /\ Key(cache[k].by) = k
    /\ answer[cache[k].by] = "ok"

\* What was replayed is such a booking.
ReplayIsAccepted ==
  \A r \in Requests : reply[r].kind = "replayed" =>
    /\ reply[r].of \in Requests
    /\ Key(reply[r].of) = Key(r)
    /\ answer[reply[r].of] = "ok"

\* The keys of requests do not change.
LEMMA KeyIsFixed ==
  ASSUME [ApiNext]_apiVars
  PROVE  UNCHANGED <<seatOf, operation>>
<1>1. seatOf' = seatOf
  BY ApiNextIsNext, SeatOfIsFixed
<1>2. operation' = operation
  BY RequestSteps, AroundKeeps, InsideReserves, RepeatKeeps
     DEF ApiNext, Repeated, ApiTick, ApiRedisRestart, apiVars, handling
<1> QED
  BY <1>1, <1>2

\* A cached response is written by its request once the reservation is accepted; apart
\* from that, entries only run down.
LEMMA CacheChanges ==
  ASSUME ApiTypeOK, [ApiNext]_apiVars, NEW k \in Keys, cache'[k].ttl > 0
  PROVE  \/ /\ cache'[k].by = cache[k].by /\ cache[k].ttl > 0
            /\ \/ cache'[k].ttl = cache[k].ttl
               \/ ApiTick /\ cache'[k].ttl = cache[k].ttl - 1
         \/ \E r \in Requests : /\ CacheResponse(r) \/ RepeatCacheResponse(r)
                                /\ k = Key(r) /\ cache'[k] = CacheEntry(r)
<1>0. cache[k] \in [by : Requests \cup {NoRequest}, ttl : 0..CacheTTL]
  BY DEF ApiTypeOK
<1>1. ASSUME NEW r \in Requests, CacheResponse(r) \/ RepeatCacheResponse(r)
      PROVE  cache'[k] = cache[k] \/ (k = Key(r) /\ cache'[k] = CacheEntry(r))
  BY <1>1 DEF ApiTypeOK, CacheResponse, RepeatCacheResponse
<1>2. ASSUME NEW r \in Requests, Around(r) \/ Inside(r), ~CacheResponse(r)
      PROVE  cache' = cache
  BY <1>2, InsideReserves
     DEF Around, Receive, CacheHit, CacheMiss, LookupFails, TakeLock, RefuseBusy,
         TakeLockFails, RejectBody, CacheResponseFails, ClearLock, ClearLockFails
<1>6. ASSUME NEW r \in Requests, HandleRepeats(r), ~RepeatCacheResponse(r)
      PROVE  cache' = cache
  BY <1>6 DEF HandleRepeats, RepeatTakeLock, RepeatInside, RepeatClearLock, handling
<1>3. CASE ApiTick
  <2>1. cache'[k] = Decay(cache[k])
    BY <1>3 DEF ApiTick
  <2>2. ~(cache[k].ttl <= 1)
    BY <2>1 DEF Decay, NoHold
  <2>3. cache'[k] = [cache[k] EXCEPT !.ttl = @ - 1]
    BY <2>1, <2>2 DEF Decay
  <2> QED
    BY <1>0, <1>3, <2>2, <2>3
<1>4. CASE ApiRedisRestart
  BY <1>4 DEF ApiRedisRestart, NoHold
<1>5. CASE UNCHANGED apiVars
  BY <1>5 DEF apiVars, handling
<1> QED
  BY <1>1, <1>2, <1>3, <1>4, <1>5, <1>6, RequestSteps DEF ApiNext, Repeated

\* Only a cache hit replays, and what it replays is in the cache.
LEMMA ReplayIsHit ==
  ASSUME ApiTypeOK, [ApiNext]_apiVars, NEW q \in Requests,
         reply'[q] # reply[q], reply'[q].kind = "replayed"
  PROVE  cache[Key(q)].ttl > 0 /\ reply'[q].of = cache[Key(q)].by
<1>1. ASSUME NEW r \in Requests, Around(r) \/ Inside(r)
      PROVE  r = q
  BY <1>1, OthersHandling
<1>2. CASE Around(q)
  <2>1. CacheHit(q)
    BY <1>2
       DEF ApiTypeOK, Around, Receive, CacheMiss, LookupFails, TakeLock, RefuseBusy,
           TakeLockFails, RejectBody, CacheResponse, CacheResponseFails, ClearLock,
           ClearLockFails, Send
  <2> QED
    BY <2>1 DEF ApiTypeOK, CacheHit, Send
<1>3. CASE Inside(q)
  BY <1>3 DEF ApiTypeOK, Inside, CallService, Reserve, ReserveFails, Exit, Die, Send,
              handling
<1>4. CASE ApiTick \/ ApiRedisRestart \/ UNCHANGED apiVars
  BY <1>4 DEF ApiTick, ApiRedisRestart, apiVars, handling
<1>5. CASE Repeated
  BY <1>5, RepeatKeeps DEF Repeated
<1> QED
  BY <1>1, <1>2, <1>3, <1>4, <1>5, RequestSteps DEF ApiNext

\* Nothing else gets into the cache, or out of it.
LEMMA ReplayInvariance == ApiSpec => [](CacheIsOwn /\ ReplayIsAccepted)
<1> DEFINE Inv == CacheIsOwn /\ ReplayIsAccepted
<1>1. ApiInit => Inv
  BY DEF ApiInit, CacheIsOwn, ReplayIsAccepted, NoHold, NoReply
<1>2. /\ ReservationIInv /\ ApiTypeOK /\ StageFollowsPc
      /\ Inv /\ [ApiNext]_apiVars
      => Inv'
  <2> SUFFICES ASSUME ReservationIInv, ApiTypeOK, StageFollowsPc, Inv, [ApiNext]_apiVars
               PROVE  Inv'
    OBVIOUS
  <2>1. IInv /\ [Next]_vars
    BY ApiNextIsNext DEF ReservationIInv
  <2>2. ASSUME NEW b \in Requests, answer[b] = "ok"
        PROVE  answer'[b] = "ok"
    BY <2>1, <2>2, AnswersOnce
  <2>3. ASSUME NEW k \in Keys, cache'[k].ttl > 0
        PROVE  \E b \in Requests : cache'[k].by = b /\ Key(b) = k /\ answer'[b] = "ok"
    <3>1. CASE cache'[k].by = cache[k].by /\ cache[k].ttl > 0
      BY <2>2, <3>1 DEF CacheIsOwn
    <3>2. ASSUME NEW r \in Requests, CacheResponse(r) \/ RepeatCacheResponse(r),
                 k = Key(r), cache'[k] = CacheEntry(r)
          PROVE  cache'[k].by = r /\ Key(r) = k /\ answer'[r] = "ok"
      <4>1. answer[r] = "ok"
        BY <3>2 DEF CacheResponse, RepeatCacheResponse, Succeeded, StageFollowsPc
      <4> QED
        BY <2>2, <3>2, <4>1 DEF CacheEntry
    <3> QED
      BY <2>3, <3>1, <3>2, CacheChanges
  <2>4. ASSUME NEW r \in Requests, reply'[r].kind = "replayed"
        PROVE  \E b \in Requests :
                 reply'[r].of = b /\ Key(b) = Key(r) /\ answer'[b] = "ok"
    <3>1. CASE reply'[r] = reply[r]
      BY <2>2, <2>4, <3>1 DEF ReplayIsAccepted
    <3>2. CASE reply'[r] # reply[r]
      <4>1. cache[Key(r)].ttl > 0 /\ reply'[r].of = cache[Key(r)].by
        BY <2>4, <3>2, ReplayIsHit
      <4>2. Key(r) \in Keys
        BY KeyTyped
      <4> QED
        BY <2>2, <4>1, <4>2 DEF CacheIsOwn
    <3> QED
      BY <3>1, <3>2
  <2>5. CacheIsOwn'
    BY <2>3, KeyIsFixed DEF CacheIsOwn, Keys, Key
  <2>6. ReplayIsAccepted'
    BY <2>4, KeyIsFixed DEF ReplayIsAccepted, Key
  <2> QED
    BY <2>5, <2>6
<1> QED
  BY <1>1, <1>2, ReservationInvariance, StageInvariance, PTL DEF ApiSpec

\* A replayed response shows a committed and accepted booking of the same user, key
\* and seat.
THEOREM ReplaysAreTrue == ApiSpec => []ReplayIsOwn
<1>1. ReservationIInv /\ ReplayIsAccepted => ReplayIsOwn
  BY DEF ReservationIInv, AcceptedKeepsSeat, ReplayIsAccepted, ReplayIsOwn, SameOperation,
         Key
<1> QED
  BY <1>1, ReplayInvariance, ReservationInvariance, PTL

-----------------------------------------------------------------------------
(* The lock of an operation.                                               *)

\* The lock of a request that is processed is freed by no step of another request, in its
\* own turn or sent again.
THEOREM LocksAreLeftAlone == ApiSpec => ReleaseOnlyOwnLock
<1> DEFINE Left(o) ==
      stage[o] \in Processing /\ HasLock(o) /\ ~HasLock(o)' =>
        \/ ApiTick /\ lock[Key(o)].ttl <= 1
        \/ ApiRedisRestart
        \/ ClearLock(o) \/ RepeatClearLock(o)
<1>1. ApiTypeOK /\ [ApiNext]_apiVars => \A o \in Requests : Left(o)
  <2> SUFFICES ASSUME ApiTypeOK, [ApiNext]_apiVars, NEW o \in Requests,
                      stage[o] \in Processing, HasLock(o), ~HasLock(o)'
               PROVE  \/ ApiTick /\ lock[Key(o)].ttl <= 1
                      \/ ApiRedisRestart
                      \/ ClearLock(o) \/ RepeatClearLock(o)
    OBVIOUS
  <2>k. \A q \in Requests : Key(q) \in Keys
    BY KeyTyped
  <2>h. /\ lock[Key(o)].by = o /\ lock[Key(o)].ttl > 0
        /\ ~(lock'[Key(o)].by = o /\ lock'[Key(o)].ttl > 0)
    BY KeyIsFixed DEF HasLock, Key
  <2>1. ASSUME NEW r \in Requests, TakeLock(r) \/ TakeLockFails(r) \/ RepeatTakeLock(r)
        PROVE  FALSE
    <3>1. \/ lock' = lock
          \/ lock[Key(r)].ttl = 0 /\ lock' = [lock EXCEPT ![Key(r)] = NewLock(r)]
      BY <2>1 DEF TakeLock, TakeLockFails, RepeatTakeLock, LockIsFree
    <3>2. Key(r) # Key(o) => lock'[Key(o)] = lock[Key(o)]
      BY <2>k, <3>1 DEF ApiTypeOK
    <3> QED
      BY <2>h, <3>1, <3>2
  <2>2. ASSUME NEW r \in Requests, r # o, ClearLock(r) \/ RepeatClearLock(r)
        PROVE  FALSE
    <3>1. \/ lock' = lock
          \/ lock[Key(r)].by = r /\ lock' = [lock EXCEPT ![Key(r)] = NoHold]
      BY <2>2 DEF ClearLock, RepeatClearLock, OwnsLock
    <3>2. Key(r) # Key(o) => lock'[Key(o)] = lock[Key(o)]
      BY <2>k, <3>1 DEF ApiTypeOK
    <3> QED
      BY <2>2, <2>h, <3>1, <3>2
  <2>3. ASSUME NEW r \in Requests, Around(r) \/ Inside(r),
               ~TakeLock(r), ~TakeLockFails(r), ~ClearLock(r)
        PROVE  FALSE
    <3>1. lock' = lock
      BY <2>3, InsideReserves
         DEF Around, Receive, CacheHit, CacheMiss, LookupFails, RefuseBusy, RejectBody,
             CacheResponse, CacheResponseFails, ClearLockFails
    <3> QED
      BY <2>h, <3>1
  <2>4. ASSUME ApiTick
        PROVE  lock[Key(o)].ttl <= 1
    <3>1. lock'[Key(o)] = Decay(lock[Key(o)])
      BY <2>4, <2>k DEF ApiTick
    <3>2. lock[Key(o)] \in [by : Requests \cup {NoRequest}, ttl : 0..LockTTL]
      BY <2>k DEF ApiTypeOK
    <3>3. CASE ~(lock[Key(o)].ttl <= 1)
      <4>1. lock'[Key(o)] = [lock[Key(o)] EXCEPT !.ttl = @ - 1]
        BY <3>1, <3>3 DEF Decay
      <4> QED
        BY <2>h, <3>2, <3>3, <4>1, BookingApiAssumption DEF BookingApiAssumption
    <3> QED
      BY <3>3
  <2>6. CASE UNCHANGED apiVars
    BY <2>6, <2>h DEF apiVars, handling
  <2>7. ASSUME NEW r \in Requests, RepeatInside(r) \/ RepeatCacheResponse(r)
        PROVE  FALSE
    BY <2>7, <2>h DEF RepeatInside, RepeatCacheResponse, handling
  <2>8. ASSUME NEW r \in Requests, Around(r) \/ Inside(r) \/ HandleRepeats(r)
        PROVE  ClearLock(o) \/ RepeatClearLock(o)
    BY <2>1, <2>2, <2>3, <2>7, <2>8 DEF HandleRepeats
  <2> QED
    BY <2>4, <2>6, <2>8, RequestSteps DEF ApiNext, Repeated
<1>2. ApiTypeOK /\ [ApiNext]_apiVars =>
        [\A o \in Requests : Left(o)]_apiVars
  BY <1>1
<1> QED
  BY <1>2, ApiTyping, PTL DEF ApiSpec, ReleaseOnlyOwnLock

-----------------------------------------------------------------------------
(* Prompt handling.                                                        *)

\* Promptness only leaves out steps ...
LEMMA PromptApiIsApi == PromptApiSpec => ApiSpec
<1>1. [PromptApiNext]_apiVars => [ApiNext]_apiVars
  BY DEF PromptApiNext, ApiNext
<1> QED
  BY <1>1, PTL DEF PromptApiSpec, ApiSpec

\* A failure moves its request on, a repeated command does not.
LEMMA FailureIsNoRepeat ==
  ASSUME TypeOK, NEW r \in Requests,
         AcquireFails(r) \/ DbError(r) \/ CommitReplyLost(r) \/ ReleaseFails(r) \/ Crash(r)
  PROVE  Fail(r) /\ ~Repeat(r)
<1>1. pc'[r] # pc[r]
  BY DEF TypeOK, AcquireFails, DbError, CommitReplyLost, ReleaseFails, Crash, Goto, InTxn,
         Ended
<1> QED
  BY <1>1 DEF Fail, Repeat, RepeatAcquire, RepeatRelease, clientVars

\* What prompt handling does inside the reservation repeats no command.
LEMMA InsideIsPrompt ==
  ASSUME TypeOK, NEW r \in Requests, Inside(r)
  PROVE  Arrive(r) \/ Step(r) \/ (Fail(r) /\ ~Repeat(r)) \/ UNCHANGED vars
BY FailureIsNoRepeat DEF Inside, CallService, Reserve, ReserveFails, Exit, Die, Step

\* ... and a request that is through in time does not outlive its hold.
LEMMA PromptApiNextIsPrompt ==
  ApiTypeOK /\ StageFollowsPc /\ [PromptApiNext]_apiVars => [PromptNext]_vars
<1> SUFFICES ASSUME ApiTypeOK, StageFollowsPc, [PromptApiNext]_apiVars
             PROVE  [PromptNext]_vars
  OBVIOUS
<1>1. CASE Requested
  BY <1>1, RequestSteps, AroundKeeps, InsideIsPrompt DEF ApiTypeOK, PromptNext
<1>2. CASE ApiTick /\ \A r \in Requests : ~Overruns(r)
  BY <1>2 DEF ApiTick, Overruns, PromptNext
<1>3. CASE UNCHANGED apiVars
  BY <1>3 DEF apiVars
<1> QED
  BY <1>1, <1>2, <1>3 DEF PromptApiNext

\* Where the endpoint is prompt, so is the reservation inside it.
THEOREM PromptApiIsPrompt == PromptApiSpec => PromptSpec
BY PromptApiIsApi, StageInvariance, PromptApiNextIsPrompt, PTL
   DEF PromptApiSpec, ApiInit, PromptSpec

\* So the hold in Redis serialises the seat behind the endpoint.
THEOREM ApiHoldIsALock == PromptApiSpec => []HoldSerialises
BY PromptApiIsPrompt, HoldIsALock, PTL

\* Then no request deletes another's hold on its way out, retries of the client included.
THEOREM ApiReleasesOwnHold == PromptApiSpec => ReleaseOnlyOwnHold
BY PromptApiIsPrompt, OwnHoldIsReleased, PTL

\* While handling is prompt, who is past the lock has it.
OwnsOperation ==
  \A r \in Requests : stage[r] \in Processing => HasLock(r)

\* A request that takes, finds or frees a lock leaves those of the others to them.
LEMMA OwnsOperationStep ==
  ASSUME ApiTypeOK, OwnsOperation, [PromptApiNext]_apiVars
  PROVE  OwnsOperation'
<1>0. UNCHANGED <<seatOf, operation>>
  BY KeyIsFixed DEF PromptApiNext, ApiNext
<1>k. \A q \in Requests : Key(q) \in Keys
  BY KeyTyped
<1>1. ASSUME NEW r \in Requests, TakeLock(r) \/ TakeLockFails(r)
      PROVE  OwnsOperation'
  <2>1. /\ \/ lock' = lock
           \/ lock[Key(r)].ttl = 0 /\ lock' = [lock EXCEPT ![Key(r)] = NewLock(r)]
        /\ stage'[r] \in Processing => lock' = [lock EXCEPT ![Key(r)] = NewLock(r)]
    BY <1>1 DEF ApiTypeOK, TakeLock, TakeLockFails, LockIsFree, Enter, Send, Processing
  <2>2. NewLock(r).by = r /\ NewLock(r).ttl > 0
    BY BookingApiAssumption DEF BookingApiAssumption, NewLock
  <2>3. ASSUME NEW q \in Requests, stage'[q] \in Processing
        PROVE  lock'[Key(q)].by = q /\ lock'[Key(q)].ttl > 0
    <3>1. CASE q = r
      BY <1>k, <2>1, <2>2, <2>3, <3>1 DEF ApiTypeOK
    <3>2. CASE q # r
      <4>1. lock[Key(q)].by = q /\ lock[Key(q)].ttl > 0
        BY <1>1, <2>3, <3>2, OthersHandling DEF OwnsOperation, HasLock, Around
      <4> QED
        BY <1>k, <2>1, <4>1 DEF ApiTypeOK
    <3> QED
      BY <3>1, <3>2
  <2> QED
    BY <1>0, <2>3 DEF OwnsOperation, HasLock, Key
<1>2. ASSUME NEW r \in Requests, ClearLock(r)
      PROVE  OwnsOperation'
  <2>1. ASSUME NEW q \in Requests, stage'[q] \in Processing
        PROVE  lock'[Key(q)].by = q /\ lock'[Key(q)].ttl > 0
    <3>1. q # r
      BY <1>2, <2>1 DEF ApiTypeOK, ClearLock, Enter, Processing
    <3>2. lock[Key(q)].by = q /\ lock[Key(q)].ttl > 0
      BY <1>2, <2>1, <3>1, OthersHandling DEF OwnsOperation, HasLock, Around
    <3> QED
      BY <1>2, <1>k, <3>1, <3>2 DEF ApiTypeOK, ClearLock, OwnsLock
  <2> QED
    BY <1>0, <2>1 DEF OwnsOperation, HasLock, Key
<1>3. ASSUME NEW r \in Requests, Around(r) \/ Inside(r),
             ~TakeLock(r), ~TakeLockFails(r), ~ClearLock(r)
      PROVE  OwnsOperation'
  <2>1. lock' = lock
    BY <1>3, InsideReserves
       DEF Around, Receive, CacheHit, CacheMiss, LookupFails, RefuseBusy, RejectBody,
           CacheResponse, CacheResponseFails, ClearLockFails
  <2>2. stage'[r] \in Processing => stage[r] \in Processing
    BY <1>3
       DEF ApiTypeOK, Around, Receive, CacheHit, CacheMiss, LookupFails, RefuseBusy,
           RejectBody, CacheResponse, CacheResponseFails, ClearLockFails, Inside,
           CallService, Reserve, ReserveFails, Exit, Die, Enter, Send, handling, Processing
  <2> QED
    BY <1>0, <1>3, <2>1, <2>2, OthersHandling DEF OwnsOperation, HasLock, Key
<1>4. CASE ApiTick /\ \A r \in Requests : ~Overruns(r)
  <2>1. ASSUME NEW q \in Requests, stage[q] \in Processing
        PROVE  lock'[Key(q)].by = q /\ lock'[Key(q)].ttl > 0
    <3>1. lock[Key(q)] \in [by : Requests \cup {NoRequest}, ttl : 0..LockTTL]
      BY <1>k DEF ApiTypeOK
    <3>2. lock[Key(q)].by = q /\ ~(lock[Key(q)].ttl <= 1)
      BY <1>4, <2>1 DEF Overruns, OwnsOperation, HasLock
    <3>3. lock'[Key(q)] = [lock[Key(q)] EXCEPT !.ttl = @ - 1]
      BY <1>4, <1>k, <3>2 DEF ApiTick, Decay
    <3> QED
      BY <3>1, <3>2, <3>3, BookingApiAssumption DEF BookingApiAssumption
  <2> QED
    BY <1>0, <1>4, <2>1 DEF ApiTick, OwnsOperation, HasLock, Key
<1>5. CASE UNCHANGED apiVars
  BY <1>0, <1>5 DEF apiVars, handling, OwnsOperation, HasLock, Key
<1> QED
  BY <1>1, <1>2, <1>3, <1>4, <1>5, RequestSteps DEF PromptApiNext

\* Where handling is prompt, duplicates never run reserve_booking side by side.
THEOREM OperationsAreExclusive == PromptApiSpec => []ProcessingIsExclusive
<1>1. ApiInit => OwnsOperation
  BY DEF ApiInit, OwnsOperation, Processing
<1>2. ApiTypeOK /\ OwnsOperation /\ [PromptApiNext]_apiVars => OwnsOperation'
  BY OwnsOperationStep
<1>3. OwnsOperation => ProcessingIsExclusive
  BY DEF OwnsOperation, HasLock, ProcessingIsExclusive, SameOperation, Key
<1> QED
  BY <1>1, <1>2, <1>3, PromptApiIsApi, ApiTyping, PTL DEF PromptApiSpec

-----------------------------------------------------------------------------
(* The cache and the booking it shows.                                     *)

\* A request that is handled in time has a young booking: younger than a lock lives.
YoungWhileWorking ==
  \A r \in Requests : stage[r] \in Working /\ HasRow(r) => age[r] < LockTTL

\* A cached booking was made, and its entry outlives it by less than a lock lives.
CacheWithinBooking ==
  \A k \in Keys : cache[k].ttl > 0 =>
    \E b \in Requests : /\ cache[k].by = b /\ booking[b] # "none"
                        /\ cache[k].ttl + age[b] < CacheTTL + LockTTL

\* Only time makes a booking older.
LEMMA StepsKeepAge ==
  ASSUME TypeOK, NEW r \in Requests, Arrive(r) \/ Step(r) \/ Fail(r), NEW b \in Requests
  PROVE  age'[b] \in {age[b], 0}
BY DEF TypeOK, Arrive, Step, Fail, AcquireHold, RefuseHeld, AcquireFails, SelectExpired,
       LockBooking, LockSeat, CancelExpired, TryHoldSeat, HoldSeat, SeatUnavailable, InsertBooking,
       Commit, CommitReplyLost, DbError, ReleaseHold, ReleaseFails, Repeat,
       RepeatAcquire, RepeatRelease, Rollback, Crash, rowVars

\* The same for the endpoint.
LEMMA ApiStepsKeepAge ==
  ASSUME TypeOK, Requested \/ ApiRedisRestart \/ UNCHANGED apiVars, NEW b \in Requests
  PROVE  age'[b] \in {age[b], 0}
<1>1. CASE Requested
  BY <1>1, RequestSteps, AroundKeeps, InsideReserves, StepsKeepAge DEF vars, rowVars
<1>2. CASE ApiRedisRestart
  BY <1>2 DEF ApiRedisRestart, RedisRestart, rowVars
<1>3. CASE UNCHANGED apiVars
  BY <1>3 DEF apiVars, vars, rowVars
<1> QED
  BY <1>1, <1>2, <1>3

\* A working request has a row only if it had it before, or inserts it now; and one that
\* is young is not canceled.
LEMMA YoungStep ==
  ASSUME IInv, ApiTypeOK, StageFollowsPc, YoungWhileWorking, [PromptApiNext]_apiVars
  PROVE  YoungWhileWorking'
<1>0. TypeOK /\ [ApiNext]_apiVars /\ [Next]_vars
  BY ApiNextIsNext DEF ApiTypeOK, PromptApiNext, ApiNext
<1>a. /\ BookingTTL \in Nat /\ LockTTL \in Nat \ {0} /\ LockTTL <= BookingTTL
      /\ \A q \in Requests : age[q] \in Nat
  BY <1>0, ReservationAssumption, BookingApiAssumption
     DEF ReservationAssumption, BookingApiAssumption, TypeOK
<1> SUFFICES ASSUME NEW q \in Requests, stage'[q] \in Working, HasRow(q)'
             PROVE  age'[q] < LockTTL
  BY DEF YoungWhileWorking
<1>1. stage[q] \in {"new"} \cup Working
  <2>1. ASSUME NEW r \in Requests, Around(r) \/ Inside(r)
        PROVE  q = r => stage[q] \in {"new"} \cup Working
    BY <2>1
       DEF Around, Receive, CacheHit, CacheMiss, LookupFails, TakeLock, RefuseBusy,
           TakeLockFails, RejectBody, CacheResponse, CacheResponseFails, ClearLock,
           ClearLockFails, Leaving, Inside, CallService, Reserve, ReserveFails, Exit,
           Die, Working
  <2>2. CASE Requested
    BY <2>1, <2>2, RequestSteps, OthersHandling
  <2>3. CASE ApiTick \/ UNCHANGED apiVars
    BY <2>3 DEF ApiTick, apiVars, handling
  <2> QED
    BY <2>2, <2>3 DEF PromptApiNext
<1>2. HasRow(q) => stage[q] \in Working
  <2>1. stage[q] = "new" => pc[q] = "idle"
    BY DEF StageFollowsPc
  <2> QED
    BY <1>1, <2>1 DEF IInv, LockDiscipline, NotYetBooked, TxnFollowsCode, GivenUp, HasRow
<1>3. HasRow(q) => age[q] < LockTTL
  BY <1>2 DEF YoungWhileWorking
<1>4. HasRow(q) \/ age'[q] = 0
  <2>1. CASE booking'[q] = "pending" \/ txn'[q].inserts
    BY <1>0, <2>1, AgeChanges DEF HasRow
  <2>2. CASE booking'[q] = booking[q] /\ booking[q] # "none"
    BY <2>2 DEF HasRow
  <2>3. CASE booking'[q] # booking[q] /\ booking'[q] # "pending"
    BY <1>0, <2>3, BookingChanges DEF Secured, HasRow
  <2> QED
    BY <2>1, <2>2, <2>3 DEF HasRow
<1>5. CASE ApiTick /\ \A r \in Requests : ~Overruns(r)
  <2>1. age'[q] = Older(age[q]) \/ age'[q] = age[q]
    BY <1>5 DEF ApiTick, Tick
  <2>2. HasRow(q) => age[q] + 1 < LockTTL
    BY <1>5, <1>2, <1>a DEF Overruns
  <2> QED
    BY <1>a, <1>4, <2>1, <2>2 DEF Older
<1>6. CASE Requested \/ UNCHANGED apiVars
  <2>1. age'[q] \in {age[q], 0}
    BY <1>0, <1>6, ApiStepsKeepAge
  <2> QED
    BY <1>a, <1>3, <1>4, <2>1
<1> QED
  BY <1>5, <1>6 DEF PromptApiNext

\* An entry is made while its booking is young, and the two then grow old together.
LEMMA CacheWithinStep ==
  ASSUME ReservationIInv, ApiTypeOK, StageFollowsPc, YoungWhileWorking,
         CacheWithinBooking, [PromptApiNext]_apiVars
  PROVE  CacheWithinBooking'
<1>0. IInv /\ TypeOK /\ [ApiNext]_apiVars /\ [Next]_vars
  BY ApiNextIsNext DEF ReservationIInv, ApiTypeOK, PromptApiNext, ApiNext
<1>a. /\ CacheTTL \in Nat /\ LockTTL \in Nat \ {0}
      /\ \A k \in Keys : cache[k].ttl \in Nat
      /\ \A b \in Requests : age[b] \in Nat
  BY <1>0, BookingApiAssumption DEF BookingApiAssumption, ApiTypeOK, TypeOK
<1> SUFFICES ASSUME NEW k \in Keys, cache'[k].ttl > 0
             PROVE  \E b \in Requests :
                      /\ cache'[k].by = b /\ booking'[b] # "none"
                      /\ cache'[k].ttl + age'[b] < CacheTTL + LockTTL
  BY DEF CacheWithinBooking, Keys
<1>1. CASE /\ cache'[k].by = cache[k].by /\ cache[k].ttl > 0
           /\ \/ cache'[k].ttl = cache[k].ttl
              \/ ApiTick /\ cache'[k].ttl = cache[k].ttl - 1
  <2>1. PICK b \in Requests : /\ cache[k].by = b /\ booking[b] # "none"
                              /\ cache[k].ttl + age[b] < CacheTTL + LockTTL
    BY <1>1 DEF CacheWithinBooking
  <2>2. booking'[b] # "none"
    BY <1>0, <2>1, BookingChanges
  <2>3. cache'[k].ttl + age'[b] < CacheTTL + LockTTL
    <3>1. CASE ApiTick
      <4>1. age'[b] = Older(age[b]) /\ cache'[k] = Decay(cache[k])
        BY <2>1, <3>1 DEF ApiTick, Tick, HasRow
      <4>2. cache'[k].ttl = cache[k].ttl - 1
        <5>1. cache[k] \in [by : Requests \cup {NoRequest}, ttl : 0..CacheTTL]
          BY DEF ApiTypeOK
        <5>2. ~(cache[k].ttl <= 1)
          BY <4>1 DEF Decay, NoHold
        <5> QED
          BY <4>1, <5>1, <5>2 DEF Decay
      <4>3. age'[b] = age[b] \/ age'[b] = age[b] + 1
        BY <4>1 DEF Older
      <4> QED
        BY <1>a, <2>1, <4>2, <4>3
    <3>2. CASE ~ApiTick
      <4>1. age'[b] \in {age[b], 0}
        BY <1>0, <3>2, ApiStepsKeepAge DEF PromptApiNext
      <4> QED
        BY <1>a, <1>1, <2>1, <3>2, <4>1
    <3> QED
      BY <3>1, <3>2
  <2> QED
    BY <1>1, <2>1, <2>2, <2>3
<1>2. ASSUME NEW r \in Requests, CacheResponse(r) \/ RepeatCacheResponse(r),
             cache'[k] = CacheEntry(r)
      PROVE  /\ cache'[k].by = r /\ booking'[r] # "none"
             /\ cache'[k].ttl + age'[r] < CacheTTL + LockTTL
  <2>1. /\ answer[r] = "ok" /\ stage[r] \in Working
        /\ UNCHANGED <<booking, age>>
    BY <1>2 DEF CacheResponse, RepeatCacheResponse, Succeeded, StageFollowsPc,
                Working, vars, rowVars
  <2>2. booking[r] # "none"
    BY <2>1 DEF ReservationIInv, AcceptedKeepsSeat
  <2>3. age[r] < LockTTL
    BY <2>1, <2>2 DEF YoungWhileWorking, HasRow
  <2> QED
    BY <1>2, <1>a, <2>1, <2>2, <2>3 DEF CacheEntry
<1> QED
  BY <1>0, <1>1, <1>2, CacheChanges

\* Where handling is prompt, a booking is young until its response is sent, and so is it
\* when it is cached.
LEMMA YoungInvariance == PromptApiSpec => [](YoungWhileWorking /\ CacheWithinBooking)
<1> DEFINE Inv == YoungWhileWorking /\ CacheWithinBooking
<1>1. ApiInit => Inv
  BY DEF ApiInit, YoungWhileWorking, Working, CacheWithinBooking, NoHold
<1>2. ReservationIInv /\ ApiTypeOK /\ StageFollowsPc /\ Inv /\ [PromptApiNext]_apiVars => Inv'
  BY YoungStep, CacheWithinStep DEF ReservationIInv
<1> QED
  BY <1>1, <1>2, PromptApiIsApi, ReservationInvariance, StageInvariance, PTL
     DEF PromptApiSpec

\* Where handling is prompt, a replay shows an expired booking only in the last part of
\* the entry's life, shorter than a lock lives, and a booking that is another's by now no
\* earlier.
THEOREM CachedBookingsAreRecent == PromptApiSpec => []CachedBookingIsRecent
<1>1. /\ ReservationIInv /\ ApiTypeOK /\ CacheIsOwn /\ CacheWithinBooking
      => CachedBookingIsRecent
  <2> SUFFICES ASSUME ReservationIInv, ApiTypeOK, CacheIsOwn, CacheWithinBooking,
                      NEW k \in Keys, cache[k].ttl > 0
               PROVE  /\ cache[k].ttl + age[cache[k].by] < CacheTTL + LockTTL
                      /\ \/ booking[cache[k].by] = "pending"
                         \/ booking[cache[k].by] = "canceled" /\ cache[k].ttl < LockTTL
    BY DEF CachedBookingIsRecent
  <2>1. PICK b \in Requests : /\ cache[k].by = b
                              /\ cache[k].ttl + age[b] < CacheTTL + LockTTL
    BY DEF CacheWithinBooking
  <2>2. booking[b] = "pending" \/ (booking[b] = "canceled" /\ age[b] = BookingTTL)
    BY <2>1 DEF CacheIsOwn, ReservationIInv, AcceptedKeepsSeat
  <2>3. /\ CacheTTL \in Nat /\ LockTTL \in Nat /\ BookingTTL \in Nat
        /\ CacheTTL <= BookingTTL /\ cache[k].ttl \in Nat
    BY ReservationAssumption, BookingApiAssumption
       DEF ReservationAssumption, BookingApiAssumption, ApiTypeOK
  <2>4. age[b] = BookingTTL => cache[k].ttl < LockTTL
    BY <2>1, <2>3
  <2> QED
    BY <2>1, <2>2, <2>4
<1> QED
  BY <1>1, YoungInvariance, PromptApiIsApi, ReservationInvariance, StageInvariance,
     ReplayInvariance, PTL
=============================================================================
