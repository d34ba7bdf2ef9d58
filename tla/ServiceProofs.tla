---------------------------- MODULE ServiceProofs ----------------------------
(***************************************************************************)
(* Theorems about Service, for pools of any size and any finite number of  *)
(* requests.  The invariant says what a request has at each place of its   *)
(* handling, and what the process has at each stage of its life.           *)
(***************************************************************************)
EXTENDS Service, FiniteSetTheorems, TLAPS

\* The places from the lock of the row to the end of the transaction.
RowOwners == {"commit", "release", "unlock", "close"}

\* What a request has, by the place where it is.
PlaceTells ==
  \A r \in Requests :
    /\ place[r] \in InStatement \cup BeforeCommit => r \in dbInUse
    /\ place[r] \in {"new", "cache", "ended"} \cup Waiting => r \notin dbInUse
    /\ r \in redisInUse => place[r] \in InCommand
    /\ r \in locks =>
         place[r] \in {"hold", "write", "commit", "release", "cache", "unlock", "close", "ended"}
    /\ rowLock = r => place[r] \in RowOwners

Open == process \in {"serving", "draining"}

\* What the process has, by the stage of its life.
LifeTells ==
  /\ Open => client /\ engine
  /\ process = "starting" => engine
  /\ ~Open => Drained

IInv == TypeOK /\ PlaceTells /\ LifeTells

\* A pool with room for one more has room for it.
LEMMA RoomForOne ==
  ASSUME NEW s \in SUBSET Requests, NEW x \in Requests, NEW m \in Nat, Cardinality(s) < m
  PROVE  Cardinality(s \cup {x}) <= m
<1>1. IsFiniteSet(s)
  BY ServiceAssumption, FS_Subset
<1>2. Cardinality(s) \in Nat
  BY <1>1, FS_CardinalityType
<1> QED
  BY <1>1, <1>2, FS_AddElement

\* A pool that gets a connection back is no fuller.
LEMMA RoomAfter ==
  ASSUME NEW s \in SUBSET Requests, NEW t \in SUBSET s, NEW m \in Nat, Cardinality(s) <= m
  PROVE  Cardinality(t) <= m
<1>1. IsFiniteSet(s)
  BY ServiceAssumption, FS_Subset
<1>2. IsFiniteSet(t) /\ Cardinality(t) <= Cardinality(s)
  BY <1>1, FS_Subset
<1>3. Cardinality(s) \in Nat /\ Cardinality(t) \in Nat
  BY <1>1, <1>2, FS_CardinalityType
<1> QED
  BY <1>2, <1>3

\* A process that is not started has nothing.
LEMMA InitHolds == Init => IInv
<1>1. Cardinality({}) = 0
  BY FS_EmptySet
<1>2. ASSUME Init
      PROVE  TypeOK
  <2>1. Cardinality(dbInUse) <= DbMax /\ Cardinality(redisInUse) <= RedisMax
    BY <1>1, <1>2, ServiceAssumption DEF Init
  <2> QED
    BY <1>2, <2>1 DEF Init, TypeOK
<1>3. Init => PlaceTells
  BY ServiceAssumption DEF Init, PlaceTells, Waiting, InStatement, InCommand, BeforeCommit
<1>4. Init => LifeTells
  BY DEF Init, LifeTells, Open, Drained, AtWork, Waiting, InStatement, InCommand
<1> QED
  BY <1>2, <1>3, <1>4 DEF IInv

-----------------------------------------------------------------------------
(* The types.                                                              *)

\* A step that leaves the process alone and changes the sets of a request as the
\* pools allow keeps the types.
LEMMA ChangedTypes ==
  ASSUME TypeOK, NEW r \in Requests, UNCHANGED lifeVars,
         route' \in [Requests -> Routes \cup {"none"}],
         NEW where \in AtWork \cup {"ended"}, Goto(r, where),
         \/ dbInUse' \subseteq dbInUse
         \/ dbInUse' = dbInUse \cup {r} /\ DbHasRoom,
         redisInUse' \subseteq redisInUse, locks' \subseteq locks \cup {r},
         rowLock' \in {rowLock, r, NoRequest}
  PROVE  TypeOK'
<1>1. dbInUse \in SUBSET Requests /\ dbInUse' \in SUBSET Requests /\ DbMax \in Nat
  BY ServiceAssumption DEF TypeOK
<1>2. Cardinality(dbInUse') <= DbMax
  <2>1. CASE dbInUse' \subseteq dbInUse
    BY <1>1, <2>1, RoomAfter DEF TypeOK
  <2>2. CASE dbInUse' = dbInUse \cup {r} /\ DbHasRoom
    BY <1>1, <2>2, RoomForOne DEF DbHasRoom
  <2> QED
    BY <2>1, <2>2
<1>3. Cardinality(redisInUse') <= RedisMax
  BY RoomAfter, ServiceAssumption DEF TypeOK
<1>4. place' \in [Requests -> AtWork \cup {"new", "ended"}]
  BY DEF TypeOK, Goto
<1> QED
  BY <1>1, <1>2, <1>3, <1>4 DEF TypeOK, lifeVars

\* Each step of a request keeps the types.
LEMMA RequestTypes ==
  ASSUME TypeOK, NEW r \in Requests, Accept(r) \/ Step(r) \/ Fail(r)
  PROVE  TypeOK'
<1> USE DEF AtWork, Waiting, InStatement, InCommand
<1> route \in [Requests -> Routes \cup {"none"}]
  BY DEF TypeOK
<1>1. CASE Accept(r)
  BY <1>1, ChangedTypes DEF Accept
<1>2. CASE Checkout(r)
  BY <1>2, ChangedTypes DEF Checkout
<1>3. CASE Find(r)
  BY <1>3, ChangedTypes DEF Find
<1>4. CASE Write(r)
  BY <1>4, ChangedTypes DEF Write
<1>5. CASE Commit(r)
  BY <1>5, ChangedTypes DEF Commit
<1>6. CASE Insert(r)
  BY <1>6, ChangedTypes DEF Insert
<1>7. CASE Close(r)
  BY <1>7, ChangedTypes DEF Close, FreeRow
<1>8. CASE Send(r)
  <2>1. Cardinality(redisInUse') <= RedisMax
    BY <1>8, RoomForOne, ServiceAssumption DEF Send, RedisHasRoom, TypeOK
  <2> QED
    BY <1>8, <2>1 DEF Send, TypeOK, lifeVars
<1>9. CASE Receive(r)
  <2>1. \E where \in AtWork : Goto(r, where)
    BY <1>9 DEF Receive, Answers
  <2>2. locks' \subseteq locks \cup {r}
    BY <1>9 DEF Receive, Answers
  <2> QED
    BY <1>9, <2>1, <2>2, ChangedTypes DEF Receive
<1>10. CASE CommandFails(r)
  <2>1. \E where \in AtWork : Goto(r, where)
    BY <1>10 DEF CommandFails
  <2> QED
    BY <1>10, <2>1, ChangedTypes DEF CommandFails
<1>11. CASE CheckoutFails(r)
  BY <1>11, ChangedTypes DEF CheckoutFails
<1>12. CASE StatementFails(r)
  BY <1>12, ChangedTypes DEF StatementFails, FreeRow
<1> QED
  BY <1>1, <1>2, <1>3, <1>4, <1>5, <1>6, <1>7, <1>8, <1>9, <1>10, <1>11, <1>12
     DEF Step, Fail

\* So does each step of the process.
LEMMA ProcessTypes ==
  ASSUME TypeOK, Lifespan \/ Terminate \/ Kill \/ Outage
  PROVE  TypeOK'
<1>1. CASE Lifespan
  BY <1>1 DEF Lifespan, Start, Connect, CloseEngine, Disconnect, TypeOK, requestVars
<1>2. CASE Terminate \/ Outage
  BY <1>2 DEF Terminate, Outage, TypeOK, requestVars
<1>3. CASE Kill
  <2>1. Cardinality({}) = 0
    BY FS_EmptySet
  <2>2. place' \in [Requests -> AtWork \cup {"new", "ended"}]
    BY <1>3 DEF Kill
  <2> QED
    BY <1>3, <2>1, <2>2, ServiceAssumption DEF Kill, TypeOK
<1> QED
  BY <1>1, <1>2, <1>3

-----------------------------------------------------------------------------
(* What a request has.                                                     *)

\* The others keep what they have when a request moves.
LEMMA OthersKeep ==
  ASSUME TypeOK, PlaceTells, NEW r \in Requests, NEW where, Goto(r, where),
         dbInUse' \ {r} = dbInUse \ {r}, redisInUse' \ {r} = redisInUse \ {r},
         locks' \ {r} = locks \ {r}, rowLock' \in {rowLock, r, NoRequest},
         where \in InStatement \cup BeforeCommit => r \in dbInUse',
         where \in {"new", "cache", "ended"} \cup Waiting => r \notin dbInUse',
         r \in redisInUse' => where \in InCommand,
         r \in locks' => where \in {"hold", "write", "commit", "release", "cache", "unlock",
                                    "close", "ended"},
         rowLock' = r => where \in RowOwners
  PROVE  PlaceTells'
<1> SUFFICES ASSUME NEW q \in Requests
             PROVE  /\ place'[q] \in InStatement \cup BeforeCommit => q \in dbInUse'
                    /\ place'[q] \in {"new", "cache", "ended"} \cup Waiting => q \notin dbInUse'
                    /\ q \in redisInUse' => place'[q] \in InCommand
                    /\ q \in locks' => place'[q] \in {"hold", "write", "commit", "release",
                                                     "cache", "unlock", "close", "ended"}
                    /\ rowLock' = q => place'[q] \in RowOwners
  BY DEF PlaceTells
<1>1. CASE q = r
  <2>1. place'[q] = where
    BY <1>1 DEF Goto, TypeOK
  <2> QED
    BY <1>1, <2>1
<1>2. CASE q # r
  <2>1. place'[q] = place[q]
    BY <1>2 DEF Goto, TypeOK
  <2>2. /\ q \in dbInUse' <=> q \in dbInUse
        /\ q \in redisInUse' <=> q \in redisInUse
        /\ q \in locks' <=> q \in locks
    BY <1>2
  <2>3. rowLock' = q => rowLock = q
    BY <1>2, ServiceAssumption
  <2> QED
    BY <2>1, <2>2, <2>3 DEF PlaceTells
<1> QED
  BY <1>1, <1>2

\* Each step of a request keeps what the places tell.
LEMMA RequestPlaces ==
  ASSUME TypeOK, PlaceTells, NEW r \in Requests, Accept(r) \/ Step(r) \/ Fail(r)
  PROVE  PlaceTells'
<1> USE DEF Waiting, InStatement, InCommand, BeforeCommit, RowOwners
<1> NoRequest # r
  BY ServiceAssumption
<1>1. CASE Accept(r)
  BY <1>1, OthersKeep DEF Accept, PlaceTells
<1>2. CASE Checkout(r)
  BY <1>2, OthersKeep DEF Checkout, PlaceTells
<1>3. CASE Find(r)
  BY <1>3, OthersKeep DEF Find, PlaceTells
<1>4. CASE Write(r)
  BY <1>4, OthersKeep DEF Write, PlaceTells
<1>5. CASE Commit(r)
  BY <1>5, OthersKeep DEF Commit, PlaceTells
<1>6. CASE Insert(r)
  BY <1>6, OthersKeep DEF Insert, PlaceTells
<1>7. CASE Close(r)
  BY <1>7, OthersKeep DEF Close, FreeRow, PlaceTells
<1>8. CASE Send(r)
  BY <1>8 DEF Send, PlaceTells
<1>9. CASE Receive(r)
  BY <1>9, OthersKeep DEF Receive, Answers, PlaceTells
<1>10. CASE CommandFails(r)
  BY <1>10, OthersKeep DEF CommandFails, PlaceTells
<1>11. CASE CheckoutFails(r)
  BY <1>11, OthersKeep DEF CheckoutFails, PlaceTells
<1>12. CASE StatementFails(r)
  BY <1>12, OthersKeep DEF StatementFails, FreeRow, PlaceTells
<1> QED
  BY <1>1, <1>2, <1>3, <1>4, <1>5, <1>6, <1>7, <1>8, <1>9, <1>10, <1>11, <1>12
     DEF Step, Fail

\* So does each step of the process; a kill leaves no one with a connection.
LEMMA ProcessPlaces ==
  ASSUME TypeOK, PlaceTells, Lifespan \/ Terminate \/ Kill \/ Outage
  PROVE  PlaceTells'
<1>1. CASE Lifespan \/ Terminate \/ Outage
  BY <1>1 DEF Lifespan, Start, Connect, CloseEngine, Disconnect, Terminate, Outage,
              requestVars, PlaceTells
<1>2. CASE Kill
  BY <1>2, ServiceAssumption
     DEF Kill, PlaceTells, TypeOK, Waiting, InStatement, InCommand, BeforeCommit
<1> QED
  BY <1>1, <1>2

-----------------------------------------------------------------------------
(* What the process has.                                                   *)

\* A request moves only in a process that is open.
LEMMA OnlyOpenServes ==
  ASSUME TypeOK, PlaceTells, LifeTells, NEW r \in Requests, Accept(r) \/ Step(r) \/ Fail(r)
  PROVE  Open /\ UNCHANGED lifeVars
<1> USE DEF AtWork, Waiting, InStatement, InCommand
<1>1. UNCHANGED lifeVars
  BY DEF Accept, Step, Fail, Checkout, Find, Write, Commit, Insert, Close, Send, Receive,
         CommandFails, CheckoutFails, StatementFails
<1>2. process = "serving" \/ place[r] \in AtWork
  BY DEF Accept, Step, Fail, Checkout, Find, Write, Commit, Insert, Close, Send, Receive,
         CommandFails, CheckoutFails, StatementFails, PlaceTells
<1> QED
  BY <1>1, <1>2 DEF LifeTells, Open, Drained

\* The stages of the process keep what they tell.
LEMMA LifeKept ==
  ASSUME IInv, Next
  PROVE  LifeTells'
<1>1. CASE \E r \in Requests : Accept(r) \/ Step(r) \/ Fail(r)
  BY <1>1, OnlyOpenServes DEF IInv, LifeTells, Open, lifeVars
<1>2. CASE Lifespan
  BY <1>2 DEF Lifespan, Start, Connect, CloseEngine, Disconnect, requestVars,
              IInv, LifeTells, Open, Drained
<1>3. CASE Terminate \/ Outage
  BY <1>3 DEF Terminate, Outage, requestVars, IInv, LifeTells, Open, Drained
<1>4. CASE Kill
  BY <1>4 DEF Kill, IInv, TypeOK, LifeTells, Open, Drained, AtWork, Waiting, InStatement,
              InCommand
<1> QED
  BY <1>1, <1>2, <1>3, <1>4 DEF Next

-----------------------------------------------------------------------------

\* Every step keeps the invariant.
LEMMA StepHolds == IInv /\ [Next]_vars => IInv'
<1> SUFFICES ASSUME IInv, [Next]_vars
             PROVE  IInv'
  OBVIOUS
<1>1. CASE Next
  <2>1. TypeOK'
    BY <1>1, RequestTypes, ProcessTypes DEF Next, IInv
  <2>2. PlaceTells'
    BY <1>1, RequestPlaces, ProcessPlaces DEF Next, IInv
  <2> QED
    BY <1>1, <2>1, <2>2, LifeKept DEF IInv
<1>2. CASE UNCHANGED vars
  BY <1>2 DEF vars, lifeVars, requestVars, IInv, TypeOK, PlaceTells, LifeTells, Open, Drained
<1> QED
  BY <1>1, <1>2

\* What the theorems below rest on.
LEMMA Invariance == Spec => []IInv
<1> QED
  BY InitHolds, StepHolds, PTL DEF Spec

\* The variables of Service keep their types, and neither pool gives out more
\* connections than it has (SessionManager.__init__, RedisClient.__init__).
THEOREM ServiceTyping == Spec => []TypeOK
<1>1. IInv => TypeOK
  BY DEF IInv
<1> QED
  BY <1>1, Invariance, PTL

\* A request that waits for a connection to Postgres has nothing that others wait for:
\* no connection, no lock of an Idempotency-Key and no row lock.
THEOREM NothingHeldWhileWaiting == Spec => []WaitersHoldNothing
<1>1. IInv => WaitersHoldNothing
  BY DEF IInv, PlaceTells, RowOwners, WaitersHoldNothing, Waiting, InCommand
<1> QED
  BY <1>1, Invariance, PTL

\* Who has the row is about to COMMIT or on its way to the rollback, and waits for neither
\* a connection nor a row.
LEMMA RowOwnerRuns ==
  ASSUME IInv, NEW q \in Requests, rowLock = q
  PROVE  Runs(q)
<1>1. place[q] \in RowOwners
  BY DEF IInv, PlaceTells
<1> QED
  BY <1>1 DEF RowOwners, Runs, WaitsFor, AtWork, Waiting, InStatement, InCommand

\* A wait for a connection or for the row ends after two requests at most, whatever the
\* size of the pool: no request waits for another that waits, directly or not, for it.
THEOREM NoCircleOfWaits == Spec => []WaitsEnd
<1>1. ASSUME IInv, NEW r \in Requests, NEW q \in Requests, WaitsFor(r, q)
      PROVE  Runs(q) \/ \E p \in Requests : WaitsFor(q, p) /\ Runs(p)
  <2>1. CASE rowLock = q
    BY <1>1, <2>1, RowOwnerRuns
  <2>2. CASE rowLock # q
    <3>1. q \in dbInUse
      BY <1>1, <2>2 DEF WaitsFor
    <3>2. place[q] \in AtWork \ Waiting
      BY <1>1, <3>1 DEF IInv, TypeOK, PlaceTells
    <3>3. CASE \E p \in Requests : WaitsFor(q, p)
      <4>1. PICK p \in Requests : WaitsFor(q, p)
        BY <3>3
      <4>2. rowLock = p
        BY <3>2, <4>1 DEF WaitsFor
      <4> QED
        BY <1>1, <4>1, <4>2, RowOwnerRuns
    <3>4. CASE ~\E p \in Requests : WaitsFor(q, p)
      BY <3>2, <3>4 DEF Runs
    <3> QED
      BY <3>3, <3>4
  <2> QED
    BY <2>1, <2>2
<1>2. IInv => WaitsEnd
  BY <1>1 DEF WaitsEnd
<1> QED
  BY <1>2, Invariance, PTL

\* The requests that talk to Redis before their COMMIT have a connection to Postgres, and
\* so are no more than the pool of the engine admits, whatever the size of the other pool.
THEOREM PoolGuardsPool == Spec => []RedisUsersAreAdmitted
<1>1. IInv => RedisUsersAreAdmitted
  BY DEF IInv, TypeOK, PlaceTells, RedisUsersAreAdmitted
<1> QED
  BY <1>1, Invariance, PTL

\* No connection is lost, whichever way a request goes out (SessionManager.session).
THEOREM NoConnectionLeaks == Spec => []ConnectionsAreReturned
<1>1. IInv => ConnectionsAreReturned
  BY DEF IInv, PlaceTells, RowOwners, ConnectionsAreReturned, InCommand
<1> QED
  BY <1>1, Invariance, PTL

\* No request meets a client that is not there or an engine that is closed, in whatever
\* order Redis and the service come and go (FastApp._lifespan).
THEOREM OpenWhileServing == Spec => []ServiceIsOpen
<1>1. IInv => ServiceIsOpen
  BY DEF IInv, LifeTells, ServiceIsOpen, Open, Drained
<1> QED
  BY <1>1, Invariance, PTL
=============================================================================
