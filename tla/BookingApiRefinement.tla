------------------------ MODULE BookingApiRefinement ------------------------
(***************************************************************************)
(* Proof that module BookingApi implements module BookingLedger: whatever  *)
(* happens to caches, locks, replies and processes, each request gets one  *)
(* response, and the response is true.                                     *)
(***************************************************************************)
EXTENDS BookingApiProofs, ReservationRefinement

\* What is known of a state when its next step is looked at.
ApiInv ==
  /\ ReservationIInv /\ ApiTypeOK /\ StageFollowsPc
  /\ DeniedIsNone /\ CacheIsOwn

\* Nothing of the promise changes.
Quiet == UNCHANGED <<seatOf, Owner, GrantAge, Granted, Told, operation, reply>>

\* No seat is granted and no response sent at the start.
LEMMA ApiInitRefines == ApiInit => Promise!PromiseInit
BY InitRefines
   DEF ApiInit, NoReply, Promise!PromiseInit, Promise!NoReply, Promise!Init, Ledger!Init

\* A response that goes out while the reservations stand still answers the request.
LEMMA SendAnswers ==
  ASSUME ApiInv, Silent, UNCHANGED operation, NEW r \in Requests, stage[r] # "sent",
         NEW kind \in ReplyKinds, NEW of \in Requests \cup {NoRequest}, Send(r, kind, of)
  PROVE  Promise!Answer(r, kind, of)
<1>1. reply[r].kind = "none"
  BY DEF ApiInv, StageFollowsPc
<1>2. UNCHANGED <<seatOf, Owner, GrantAge, Granted, Told>>
  BY SilentStep DEF ApiInv, ReservationIInv
<1> QED
  BY <1>1, <1>2
     DEF Send, Promise!Answer, Promise!Waiting, Promise!vars, Owner, GrantAge, Granted, Told

\* A refusal is true, whoever makes it.
LEMMA RefusalRefines ==
  ASSUME ApiInv, Silent, UNCHANGED operation, NEW r \in Requests, stage[r] # "sent",
         NEW kind \in {"busy", "refused", "invalid"}, Send(r, kind, NoRequest),
         pc[r] = "idle" \/ answer[r] \in {"held", "taken"}
  PROVE  Promise!Refuse(r)
<1>1. booking[r] = "none"
  BY DEF ApiInv, ReservationIInv, IInv, LockDiscipline, NotYetBooked, DeniedIsNone
<1>2. Promise!Answer(r, kind, NoRequest)
  BY SendAnswers DEF ReplyKinds
<1> QED
  BY <1>1, <1>2 DEF Promise!Refuse

\* The pipeline answers, or nobody notices it.
LEMMA AroundRefines ==
  ASSUME ApiInv, NEW r \in Requests, Around(r)
  PROVE  \/ Promise!Refuse(r) \/ Promise!Apologise(r) \/ Quiet
         \/ \E b \in Requests : Promise!Replay(r, b)
<1>0. Silent /\ UNCHANGED operation
  BY AroundKeeps DEF Silent
<1>1. CASE UNCHANGED reply
  BY <1>0, <1>1, SilentStep DEF ApiInv, ReservationIInv, Quiet
<1>2. ASSUME ~UNCHANGED reply
      PROVE  /\ stage[r] \in {"lookup", "lock", "admitted"}
             /\ \/ \E kind \in {"busy", "invalid"} : Send(r, kind, NoRequest)
                \/ Send(r, "error", NoRequest)
                \/ cache[Key(r)].ttl > 0 /\ Send(r, "replayed", cache[Key(r)].by)
  BY <1>2 DEF Around, Receive, CacheHit, CacheMiss, LookupFails, TakeLock, RefuseBusy,
              TakeLockFails, RejectBody, CacheResponse, CacheResponseFails, ClearLock,
              ClearLockFails
<1>3. ASSUME ~UNCHANGED reply, NEW kind \in {"busy", "invalid"}, Send(r, kind, NoRequest)
      PROVE  Promise!Refuse(r)
  BY <1>0, <1>2, <1>3, RefusalRefines DEF ApiInv, StageFollowsPc
<1>4. ASSUME ~UNCHANGED reply, Send(r, "error", NoRequest)
      PROVE  Promise!Apologise(r)
  BY <1>0, <1>2, <1>4, SendAnswers DEF Promise!Apologise, ReplyKinds
<1>5. ASSUME ~UNCHANGED reply, cache[Key(r)].ttl > 0, Send(r, "replayed", cache[Key(r)].by)
      PROVE  \E b \in Requests : Promise!Replay(r, b)
  <2> DEFINE b == cache[Key(r)].by
  <2>1. b \in Requests /\ Key(b) = Key(r) /\ answer[b] = "ok"
    BY <1>5, KeyTyped DEF ApiInv, CacheIsOwn
  <2>2. Promise!Answer(r, "replayed", b)
    BY <1>0, <1>2, <1>5, <2>1, SendAnswers DEF ReplyKinds
  <2>3. Promise!Replay(r, b)
    BY <2>1, <2>2 DEF Promise!Replay, Promise!SameOperation, Key
  <2> QED
    BY <2>1, <2>3
<1> QED
  BY <1>1, <1>2, <1>3, <1>4, <1>5

\* The COMMIT serves a client that waits.
LEMMA CommitServes ==
  ASSUME ApiInv, NEW r \in Requests, Inside(r), Commit(r) \/ CommitReplyLost(r)
  PROVE  Promise!Serve(r)
<1>1. pc[r] = "commit" /\ pc'[r] \in {"done", "release"}
  BY DEF ApiInv, ApiTypeOK, TypeOK, Commit, CommitReplyLost, Goto
<1>2. ~Exit(r) /\ ~Die(r) /\ ~CallService(r)
  BY <1>1 DEF ApiInv, ApiTypeOK, TypeOK, Exit, Rollback, Die, Crash, CallService, Arrive,
              Goto
<1>3. stage[r] = "reserve" /\ UNCHANGED <<operation, reply>>
  BY <1>2 DEF Inside, Reserve, ReserveFails, handling
<1>4. reply[r].kind = "none"
  BY <1>3 DEF ApiInv, StageFollowsPc
<1>5. Ledger!Grant(r)
  BY CommitGrants DEF ApiInv, ReservationIInv
<1> QED
  BY <1>3, <1>4, <1>5
     DEF Promise!Serve, Promise!Waiting, Promise!Grant, Promise!Grantable,
         Ledger!Grant, Ledger!Grantable

\* Inside the reservation a request is served, answered at the exit, or nothing shows.
LEMMA InsideRefines ==
  ASSUME ApiInv, NEW r \in Requests, Inside(r)
  PROVE  \/ Promise!Serve(r) \/ Promise!Refuse(r) \/ Promise!Apologise(r) \/ Quiet
         \/ Promise!Confirm(r) /\ stage[r] = "exit" /\ answer[r] = "ok"
<1>1. CASE Commit(r) \/ CommitReplyLost(r)
  BY <1>1, CommitServes
<1>2. CASE ~Commit(r) /\ ~CommitReplyLost(r)
  <2>0. Silent /\ UNCHANGED operation
    BY <1>2, InsideReserves DEF Silent
  <2>1. CASE UNCHANGED reply
    BY <2>0, <2>1, SilentStep DEF ApiInv, ReservationIInv, Quiet
  <2>2. CASE ~UNCHANGED reply
    <3>1. Exit(r) /\ stage[r] = "exit"
      BY <2>2 DEF Inside, CallService, Reserve, ReserveFails, Die, Exit, handling
    <3>2. CASE answer[r] = "ok" /\ Send(r, "created", r)
      <4>1. Promise!Answer(r, "created", r)
        BY <2>0, <3>1, <3>2, SendAnswers DEF ReplyKinds
      <4> QED
        BY <3>1, <3>2, <4>1 DEF Promise!Confirm
    <3>3. CASE answer[r] \in {"held", "taken"} /\ Send(r, "refused", NoRequest)
      BY <2>0, <3>1, <3>3, RefusalRefines
    <3>4. CASE answer[r] = "error" /\ Send(r, "error", NoRequest)
      BY <2>0, <3>1, <3>4, SendAnswers DEF Promise!Apologise, ReplyKinds
    <3> QED
      BY <3>1, <3>2, <3>3, <3>4 DEF Exit
  <2> QED
    BY <2>1, <2>2
<1> QED
  BY <1>1, <1>2

\* Time and Redis do to the promise what they do to the ledger.
LEMMA EnvironmentRefines ==
  ASSUME ApiInv, ApiTick \/ ApiRedisRestart \/ Repeated \/ UNCHANGED apiVars
  PROVE  Promise!Age \/ Quiet
<1>0. IInv
  BY DEF ApiInv, ReservationIInv
<1>1. CASE ApiTick
  BY <1>0, <1>1, TickRefines
     DEF ApiTick, Promise!Age, Promise!Tick, Promise!Older, Ledger!Tick, Ledger!Older
<1>2. CASE ApiRedisRestart \/ UNCHANGED apiVars
  <2>1. Silent /\ UNCHANGED <<operation, reply>>
    BY <1>2 DEF ApiRedisRestart, Silent, apiVars, handling
  <2> QED
    BY <1>0, <2>1, SilentStep DEF Quiet
<1>3. ASSUME NEW r \in Requests, HandleRepeats(r)
      PROVE  Quiet
  <2>1. UNCHANGED <<clientVars, operation, reply>>
    BY <1>3, RepeatKeeps
  <2>2. ~Commit(r) /\ ~CommitReplyLost(r)
    BY <1>0, <2>1 DEF Commit, CommitReplyLost, Goto, clientVars, IInv, TypeOK
  <2>3. Silent
    BY <1>3, <2>2, RepeatKeeps DEF Silent, Fail
  <2> QED
    BY <1>0, <2>1, <2>3, SilentStep DEF Quiet
<1> QED
  BY <1>1, <1>2, <1>3 DEF Repeated

\* What is unchanged in the mapping is unchanged in the promise.
LEMMA QuietStutters ==
  ASSUME Quiet
  PROVE  UNCHANGED Promise!promise
BY DEF Quiet, Promise!promise, Promise!vars, Owner, GrantAge, Granted, Told

\* All of that is known of every state of the endpoint.
LEMMA ApiInvariance == ApiSpec => []ApiInv
BY ReservationInvariance, StageInvariance, RefusalInvariance, ReplayInvariance, PTL
   DEF ApiInv

\* The endpoint keeps its promise, for any number of clients, seats and operations,
\* through every failure.
THEOREM PromiseIsKept == ApiSpec => PromiseKept
<1>1. ApiInv /\ [ApiNext]_apiVars => [Promise!PromiseNext]_Promise!promise
  <2> SUFFICES ASSUME ApiInv, [ApiNext]_apiVars
               PROVE  Promise!PromiseNext \/ UNCHANGED Promise!promise
    OBVIOUS
  <2>1. CASE Requested
    BY <2>1, RequestSteps, AroundRefines, InsideRefines, QuietStutters
       DEF Promise!PromiseNext
  <2>2. CASE ~Requested
    BY <2>2, EnvironmentRefines, QuietStutters DEF ApiNext, Promise!PromiseNext
  <2> QED
    BY <2>1, <2>2
<1> QED
  BY <1>1, ApiInitRefines, ApiInvariance, PTL DEF ApiSpec, PromiseKept, Promise!PromiseSpec

-----------------------------------------------------------------------------
(* Prompt handling.                                                        *)

\* A pending booking that has not expired gives its request the seat.
LEMMA PendingIsGood ==
  ASSUME IInv, NEW b \in Requests, booking[b] = "pending", age[b] < BookingTTL
  PROVE  Promise!Good(b)
<1>1. seatOf[b] \in Seats /\ PendingFor(seatOf[b]) = {b}
  BY DEF IInv, SeatRowMatchesBookings, PendingFor
<1>2. OwnerOf(seatOf[b]) = b
  BY <1>1 DEF OwnerOf
<1> QED
  BY <1>1, <1>2 DEF Promise!Good

\* Where handling is prompt, what is shown as new is good when it is shown.
THEOREM LivePromiseIsKept == PromptApiSpec => LivePromiseKept
<1>1. ApiInv /\ YoungWhileWorking /\ [PromptApiNext]_apiVars => [Promise!LiveNext]_Promise!promise
  <2> SUFFICES ASSUME ApiInv, YoungWhileWorking, [PromptApiNext]_apiVars
               PROVE  Promise!LiveNext \/ UNCHANGED Promise!promise
    OBVIOUS
  <2>0. /\ IInv /\ BookingTTL \in Nat /\ LockTTL \in Nat /\ LockTTL <= BookingTTL
        /\ \A b \in Requests : age[b] \in Nat
    BY ReservationAssumption, BookingApiAssumption
       DEF ApiInv, ReservationIInv, IInv, TypeOK, ReservationAssumption, BookingApiAssumption
  <2>1. ASSUME NEW r \in Requests, stage[r] = "exit", answer[r] = "ok"
        PROVE  Promise!Good(r)
    <3>1. \/ booking[r] = "pending"
          \/ booking[r] = "canceled" /\ age[r] = BookingTTL
      BY <2>1 DEF ApiInv, ReservationIInv, AcceptedKeepsSeat
    <3>2. age[r] < LockTTL
      BY <2>1, <3>1 DEF YoungWhileWorking, Working, HasRow
    <3>3. age[r] < BookingTTL
      BY <2>0, <3>2
    <3> QED
      BY <2>0, <3>1, <3>3, PendingIsGood
  <2>2. ASSUME NEW r \in Requests, Around(r) \/ Inside(r)
        PROVE  Promise!LiveNext \/ UNCHANGED Promise!promise
    <3>1. CASE Around(r)
      BY <2>2, <3>1, AroundRefines, QuietStutters DEF Promise!LiveNext
    <3>2. CASE Inside(r)
      BY <2>1, <3>2, InsideRefines, QuietStutters DEF Promise!LiveNext
    <3> QED
      BY <2>2, <3>1, <3>2
  <2>3. CASE ~Requested
    BY <2>3, EnvironmentRefines, QuietStutters DEF PromptApiNext, Promise!LiveNext
  <2> QED
    BY <2>2, <2>3, RequestSteps
<1> QED
  BY <1>1, ApiInitRefines, ApiInvariance, YoungInvariance, PromptApiIsApi, PTL
     DEF PromptApiSpec, LivePromiseKept, Promise!LiveSpec
=============================================================================
