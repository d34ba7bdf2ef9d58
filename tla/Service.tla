------------------------------ MODULE Service ------------------------------
(***************************************************************************)
(* One process of the service: its lifespan (FastApp._lifespan), its Redis *)
(* client, its database engine, and the two connection pools that the      *)
(* requests share.                                                         *)
(*                                                                         *)
(* A request has one database session.  The session takes a connection     *)
(* from the pool at its first statement, waits if there is none left, and  *)
(* keeps it until COMMIT or close().  A command to Redis takes a           *)
(* connection for itself alone, and fails at once if there is none left.   *)
(*                                                                         *)
(* What the statements and commands do is in the other modules; here they  *)
(* are the places where a request may have to wait, and may fail.          *)
(***************************************************************************)
EXTENDS Naturals, FiniteSets

CONSTANTS
  Requests,
  DbMax,      \* create_async_engine: pool_size and max_overflow
  RedisMax,   \* RedisClientConfig.max_connections
  NoRequest

ASSUME ServiceAssumption ==
  /\ IsFiniteSet(Requests)
  /\ NoRequest \notin Requests
  /\ DbMax \in Nat \ {0}
  /\ RedisMax \in Nat \ {0}

VARIABLES
  process,   \* where the process is in its life
  client,    \* RedisClient._client is there
  engine,    \* SessionManager.engine is there
  redisUp,   \* Redis answers
  route,     \* request -> what it asks for
  place,     \* request -> where its handling is
  dbInUse,   \* the requests whose session has a connection
  redisInUse,  \* the requests that have sent a command to Redis
  locks,     \* the requests that have taken a lock of an Idempotency-Key
  rowLock    \* the request whose transaction has the row of the one seat locked

lifeVars    == <<process, client, engine, redisUp>>
requestVars == <<route, place, dbInUse, redisInUse, locks, rowLock>>
vars        == <<lifeVars, requestVars>>

\* POST /bookings/reserve/{seat_id}; POST /auth/refresh; any route that only reads.
Routes == {"reserve", "refresh", "read"}

\* The places where the session has no connection and wants one ...
Waiting == {"user", "store"}

\* ... where a statement is sent on the connection it has ...
InStatement == {"find", "write", "commit", "insert"}

\* ... and where a command to Redis is sent.
InCommand == {"lookup", "lock", "hold", "release", "cache", "unlock"}

AtWork == Waiting \cup InStatement \cup InCommand \cup {"close"}

\* The bounds of the pools are part of the types.
TypeOK ==
  /\ process \in {"stopped", "starting", "serving", "draining", "closing"}
  /\ client \in BOOLEAN /\ engine \in BOOLEAN /\ redisUp \in BOOLEAN
  /\ route \in [Requests -> Routes \cup {"none"}]
  /\ place \in [Requests -> AtWork \cup {"new", "ended"}]
  /\ dbInUse \subseteq Requests /\ redisInUse \subseteq Requests /\ locks \subseteq Requests
  /\ rowLock \in Requests \cup {NoRequest}
  /\ Cardinality(dbInUse) <= DbMax /\ Cardinality(redisInUse) <= RedisMax

Init ==
  /\ process = "stopped"
  /\ client = FALSE /\ engine = FALSE
  /\ redisUp \in BOOLEAN
  /\ route = [r \in Requests |-> "none"]
  /\ place = [r \in Requests |-> "new"]
  /\ dbInUse = {} /\ redisInUse = {} /\ locks = {}
  /\ rowLock = NoRequest

Goto(r, where) == place' = [place EXCEPT ![r] = where]

-----------------------------------------------------------------------------
(* The life of the process.                                                *)

\* The modules are imported: the engine and the pools are made, no connection yet.
Start ==
  /\ process = "stopped"
  /\ process' = "starting"
  /\ engine' = TRUE
  /\ client' = FALSE
  /\ UNCHANGED <<redisUp, requestVars>>

\* MUTANT of Connect: the client is kept only if the ping succeeds.
ConnectIfUp ==
  /\ process = "starting"
  /\ process' = "serving"
  /\ client' = redisUp
  /\ UNCHANGED <<engine, redisUp, requestVars>>

\* connect() makes the client, then pings; what it returns, nobody reads, and serving
\* starts whether Redis is there or not.
Connect ==
  /\ process = "starting"
  /\ process' = "serving"
  /\ client' = TRUE
  /\ UNCHANGED <<engine, redisUp, requestVars>>

Terminate ==
  /\ process = "serving"
  /\ process' = "draining"
  /\ UNCHANGED <<client, engine, redisUp, requestVars>>

\* uvicorn lets the requests end before it ends the lifespan.
Drained == \A r \in Requests : place[r] \notin AtWork

\* session_manager.close(): dispose() may raise, and then the Redis client is not closed.
CloseEngine ==
  /\ process = "draining"
  /\ Drained
  /\ \/ process' = "closing" /\ engine' = FALSE
     \/ process' = "stopped" /\ UNCHANGED engine
  /\ UNCHANGED <<client, redisUp, requestVars>>

\* disconnect() swallows what aclose() raises.
Disconnect ==
  /\ process = "closing"
  /\ process' = "stopped"
  /\ \/ client' = FALSE
     \/ UNCHANGED client
  /\ UNCHANGED <<engine, redisUp, requestVars>>

\* The process is killed: its requests go with it, and the locks in Redis stay.
Kill ==
  /\ process # "stopped"
  /\ process' = "stopped"
  /\ place' = [r \in Requests |-> IF place[r] = "new" THEN "new" ELSE "ended"]
  /\ dbInUse' = {} /\ redisInUse' = {} /\ rowLock' = NoRequest
  /\ UNCHANGED <<client, engine, redisUp, route, locks>>

\* Redis goes away and comes back.
Outage ==
  /\ redisUp' = ~redisUp
  /\ UNCHANGED <<process, client, engine, requestVars>>

-----------------------------------------------------------------------------
(* The session and its connection.                                         *)

\* uvicorn accepts a request, and get_async_session makes its session.
Accept(r) ==
  /\ process = "serving"
  /\ place[r] = "new"
  /\ \E what \in Routes : route' = [route EXCEPT ![r] = what]
  /\ Goto(r, "user")
  /\ UNCHANGED <<lifeVars, dbInUse, redisInUse, locks, rowLock>>

\* MUTANT of DbHasRoom: one too many.
DbHasRoomForLast == Cardinality(dbInUse) <= DbMax

DbHasRoom == Cardinality(dbInUse) < DbMax

\* The first statement of a transaction takes a connection: the SELECT of
\* get_current_user or the one of login, the INSERT of create_session.
Checkout(r) ==
  /\ place[r] \in Waiting
  /\ DbHasRoom
  /\ dbInUse' = dbInUse \cup {r}
  /\ \/ place[r] = "user" /\ Goto(r, "find")
     \/ place[r] = "store" /\ Goto(r, "insert")
  /\ UNCHANGED <<lifeVars, route, redisInUse, locks, rowLock>>

\* The 30 seconds of the pool are over, or Postgres takes no connection: 401 from
\* get_current_user, whose last clause catches everything.
CheckoutFails(r) ==
  /\ place[r] \in Waiting
  /\ Goto(r, "close")
  /\ UNCHANGED <<lifeVars, route, dbInUse, redisInUse, locks, rowLock>>

\* MUTANT of Find: create_session has a session of its own.
FindAndKeep(r) ==
  /\ place[r] = "find"
  /\ \/ route[r] = "reserve" /\ Goto(r, "lookup")
     \/ route[r] = "refresh" /\ Goto(r, "store")
     \/ Goto(r, "close")
  /\ UNCHANGED <<lifeVars, route, dbInUse, redisInUse, locks, rowLock>>

\* MUTANT of Find: get_current_user has a session of its own.
FindAndReturn(r) ==
  /\ place[r] = "find"
  /\ \/ route[r] = "reserve" /\ Goto(r, "lookup")
     \/ route[r] = "refresh" /\ Goto(r, "store")
     \/ Goto(r, "close")
  /\ dbInUse' = dbInUse \ {r}
  /\ UNCHANGED <<lifeVars, route, redisInUse, locks, rowLock>>

\* The statements of get_current_user or refresh_session.  The COMMIT of
\* logout_from_session gives the connection back; what it raises before its COMMIT it
\* swallows, and the transaction goes on.  The end of get_current_user keeps it too.
Find(r) ==
  /\ place[r] = "find"
  /\ \/ route[r] = "reserve" /\ Goto(r, "lookup") /\ UNCHANGED dbInUse
     \/ route[r] = "refresh" /\ Goto(r, "store") /\ dbInUse' = dbInUse \ {r}
     \/ route[r] = "refresh" /\ Goto(r, "insert") /\ UNCHANGED dbInUse
     \/ Goto(r, "close") /\ UNCHANGED dbInUse
  /\ UNCHANGED <<lifeVars, route, redisInUse, locks, rowLock>>

\* try_hold_seat waits for the row, and writes it; or the row that it has waited for does
\* not match any more: 409, and the row stays locked.
Write(r) ==
  /\ place[r] = "write"
  /\ rowLock = NoRequest
  /\ rowLock' = r
  /\ Goto(r, "commit") \/ Goto(r, "release")
  /\ UNCHANGED <<lifeVars, route, dbInUse, redisInUse, locks>>

\* MUTANT of Commit: the booking is read again after the COMMIT, in a new transaction.
CommitAndRefresh(r) ==
  /\ place[r] = "commit"
  /\ rowLock' = NoRequest
  /\ Goto(r, "cache")
  /\ UNCHANGED <<lifeVars, route, dbInUse, redisInUse, locks>>

\* COMMIT gives the connection back; expire_on_commit is off, so that the booking is
\* not read again.
Commit(r) ==
  /\ place[r] = "commit"
  /\ rowLock' = NoRequest
  /\ dbInUse' = dbInUse \ {r}
  /\ Goto(r, "cache")
  /\ UNCHANGED <<lifeVars, route, redisInUse, locks>>

\* create_session, and its COMMIT.
Insert(r) ==
  /\ place[r] = "insert"
  /\ dbInUse' = dbInUse \ {r}
  /\ Goto(r, "close")
  /\ UNCHANGED <<lifeVars, route, redisInUse, locks, rowLock>>

\* A row lock goes with its transaction.
FreeRow(r) == rowLock' = IF rowLock = r THEN NoRequest ELSE rowLock

\* A statement raises, or matches nothing at once.  An error of the server frees the row,
\* one of the client does not; the session keeps its connection until it is rolled back.
StatementFails(r) ==
  /\ place[r] \in InStatement
  /\ FreeRow(r) \/ UNCHANGED rowLock
  /\ \/ place[r] \in {"write", "commit"} /\ Goto(r, "release")
     \/ place[r] \in {"find", "insert"} /\ Goto(r, "close")
  /\ UNCHANGED <<lifeVars, route, dbInUse, redisInUse, locks>>

\* MUTANT of Close: rollback() without close().
CloseNothing(r) ==
  /\ place[r] = "close"
  /\ Goto(r, "ended")
  /\ UNCHANGED <<lifeVars, route, dbInUse, redisInUse, locks, rowLock>>

\* SessionManager.session: rollback() if something was raised, and close() always.
Close(r) ==
  /\ place[r] = "close"
  /\ dbInUse' = dbInUse \ {r}
  /\ FreeRow(r)
  /\ Goto(r, "ended")
  /\ UNCHANGED <<lifeVars, route, redisInUse, locks>>

-----------------------------------------------------------------------------
(* The commands to Redis.                                                  *)

RedisHasRoom == Cardinality(redisInUse) < RedisMax

\* RedisClient.client raises if connect() was never called.
Send(r) ==
  /\ place[r] \in InCommand
  /\ r \notin redisInUse
  /\ client
  /\ RedisHasRoom
  /\ redisInUse' = redisInUse \cup {r}
  /\ UNCHANGED <<lifeVars, route, place, dbInUse, locks, rowLock>>

\* Where an answer leads: on, or out because of what it says.
Answers(r) ==
  \/ place[r] = "lookup"  /\ (Goto(r, "lock") \/ Goto(r, "close")) /\ UNCHANGED locks
  \/ place[r] = "lock"    /\ (Goto(r, "hold") \/ Goto(r, "close")) /\ locks' = locks \cup {r}
  \/ place[r] = "lock"    /\ Goto(r, "close") /\ UNCHANGED locks
  \/ place[r] = "hold"    /\ (Goto(r, "write") \/ Goto(r, "unlock")) /\ UNCHANGED locks
  \/ place[r] = "release" /\ Goto(r, "unlock") /\ UNCHANGED locks
  \/ place[r] = "cache"   /\ Goto(r, "unlock") /\ UNCHANGED locks
  \/ place[r] = "unlock"  /\ Goto(r, "close") /\ locks' = locks \ {r}

Receive(r) ==
  /\ r \in redisInUse
  /\ redisUp
  /\ redisInUse' = redisInUse \ {r}
  /\ Answers(r)
  /\ UNCHANGED <<lifeVars, route, dbInUse, rowLock>>

\* The command cannot be sent, or its answer does not come.
CommandMayFail(r) ==
  \/ ~client \/ ~redisUp
  \/ r \notin redisInUse /\ ~RedisHasRoom

\* get raises; set, release_hold and clear_booking_cache_lock swallow, and read as a
\* refusal or as nothing.
CommandFails(r) ==
  /\ place[r] \in InCommand
  /\ CommandMayFail(r)
  /\ redisInUse' = redisInUse \ {r}
  /\ \/ place[r] \in {"lookup", "lock", "unlock"} /\ Goto(r, "close")
     \/ place[r] \in {"hold", "release", "cache"} /\ Goto(r, "unlock")
  /\ UNCHANGED <<lifeVars, route, dbInUse, locks, rowLock>>

-----------------------------------------------------------------------------

Step(r) ==
  \/ Checkout(r) \/ Find(r) \/ Write(r) \/ Commit(r) \/ Insert(r) \/ Close(r)
  \/ Send(r) \/ Receive(r) \/ CommandFails(r)

Fail(r) == CheckoutFails(r) \/ StatementFails(r)

Lifespan == Start \/ Connect \/ CloseEngine \/ Disconnect

Next ==
  \/ \E r \in Requests : Accept(r) \/ Step(r) \/ Fail(r)
  \/ Lifespan \/ Terminate \/ Kill \/ Outage

Spec == Init /\ [][Next]_vars

\* The event loop resumes what is ready, Postgres answers, Redis answers or the
\* connection breaks, and the pool serves who waits; its 30 seconds never have to be
\* over.  Nothing obliges the process to be stopped.
FairSpec ==
  /\ Spec
  /\ \A r \in Requests : WF_vars(Step(r))
  /\ WF_vars(Lifespan)
-----------------------------------------------------------------------------
(* Safety.                                                                 *)

\* Who waits for a connection keeps nobody else waiting: no connection, no row lock and
\* no lock of an Idempotency-Key, whose 10 seconds are shorter than the 30 of the pool.
WaitersHoldNothing ==
  \A r \in Requests : place[r] \in Waiting =>
    r \notin dbInUse \cup redisInUse \cup locks /\ rowLock # r

\* r waits for q: for one of the connections of a pool that is out, or for the row.
WaitsFor(r, q) ==
  \/ place[r] \in Waiting /\ ~DbHasRoom /\ q \in dbInUse
  \/ place[r] = "write" /\ rowLock = q

Runs(q) == place[q] \in AtWork /\ \A p \in Requests : ~WaitsFor(q, p)

\* The pool and the row close no circle: whoever has a connection that another waits for
\* waits for the row at most, and who has the row waits for neither, be it on its way from
\* a refused statement over its last commands to Redis to the rollback.
WaitsEnd ==
  \A r, q \in Requests : WaitsFor(r, q) =>
    Runs(q) \/ \E p \in Requests : WaitsFor(q, p) /\ Runs(p)

\* The places of a reservation from the first command to the end of its transaction,
\* out of those in which it talks to Redis.
BeforeCommit == {"lookup", "lock", "hold", "release"}

\* A request that talks to Redis before its COMMIT has a connection to Postgres, so that
\* such requests are never more than the pool of the engine admits.  It does not say that
\* they find room in the pool of Redis: those that have committed have no such bound.
RedisUsersAreAdmitted ==
  {r \in redisInUse : place[r] \in BeforeCommit} \subseteq dbInUse

\* No connection leaks, whichever way a request goes out, and none is kept from those
\* who wait while a committed response is cached.
ConnectionsAreReturned ==
  \A r \in Requests :
    /\ place[r] \in {"cache", "ended"} => r \notin dbInUse
    /\ place[r] = "ended" => r \notin redisInUse /\ rowLock # r

\* No request meets a Redis client that is not there or an engine that is closed, also
\* when Redis comes up after the service or is away when it stops: docker-compose.yml
\* starts the backend without waiting for Redis.
ServiceIsOpen ==
  \A r \in Requests : place[r] \in AtWork =>
    process \in {"serving", "draining"} /\ client /\ engine

-----------------------------------------------------------------------------
(* Liveness.                                                               *)

\* Every request ends, though it waits for a connection with no time limit while
\* others wait for rows: neither the pools nor the rows, nor both, close a circle.
EveryRequestEnds ==
  \A r \in Requests : place[r] = "user" ~> place[r] = "ended"

\* A process that is told to stop does.
EveryShutdownEnds == process = "draining" ~> process = "stopped"
=============================================================================
