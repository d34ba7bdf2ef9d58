----------------------------- MODULE Repository -----------------------------
(***************************************************************************)
(* The methods of BaseRepository for many rows: create_many, get_many,     *)
(* update_many_by_pk, delete and upsert, called side by side from database *)
(* sessions of their own.                                                  *)
(*                                                                         *)
(* A row is its primary key and the call that wrote it last.  A call       *)
(* visits its rows one by one, and a row it writes stays locked until its  *)
(* transaction ends; so does a key that it inserts.  Postgres runs at READ *)
(* COMMITTED: a call that has waited for a row sees the newest version.    *)
(***************************************************************************)
EXTENDS Naturals, Sequences, FiniteSets

CONSTANTS
  Calls,   \* calls of the methods, each in a session of its own
  Ids,     \* the primary keys
  MaxLen,  \* bound on the records of a call, and on get_many's pages
  PageSize, \* the size of get_many's page
  Seed,    \* the writer of a row that is there at the start
  Nobody   \* no writer: there is no row; no owner: the row is not locked

ASSUME RepositoryAssumption ==
  /\ IsFiniteSet(Ids)
  /\ MaxLen \in Nat \ {0} /\ PageSize \in Nat \ {0}
  /\ Seed \notin Calls /\ Nobody \notin Calls /\ Seed # Nobody

VARIABLES
  job,      \* call -> method, records and commit flag
  pc,       \* call -> where it is
  todo,     \* call -> the records its statements have still to visit
  snapshot, \* call -> the rows that its DELETE found and that have not gone since
  counted,  \* call -> the rows that get_many's total counts
  write,    \* call -> what its open transaction does to each row
  row,      \* the committed table: primary key -> writer
  rowLock,  \* primary key -> the call whose transaction holds it
  returned  \* call -> the rows it returns: primary key and writer

table == <<row, rowLock, write>>
vars  == <<job, pc, todo, snapshot, counted, table, returned>>

\* The two values of on_conflict make two methods of upsert.
Methods == {"create_many", "get_many", "update_many", "delete", "upsert", "ignore"}

\* The keys of the records in the order the caller gives them, which may name one twice.
Records == UNION {[1..n -> Ids] : n \in 1..MaxLen}

Writers == Calls \cup {Seed, Nobody}

NoJob == [method |-> "none", records |-> <<>>, commit |-> TRUE]

NoWrites == [i \in Ids |-> "none"]

TypeOK ==
  /\ job \in [Calls -> [method : Methods, records : Records, commit : BOOLEAN] \cup {NoJob}]
  /\ pc \in [Calls -> {"idle", "write", "count", "page", "refetch", "commit", "done", "failed"}]
  /\ todo \in [Calls -> Seq(Ids)]
  /\ snapshot \in [Calls -> SUBSET Ids] /\ counted \in [Calls -> SUBSET Ids]
  /\ write \in [Calls -> [Ids -> {"none", "put", "remove"}]]
  /\ row \in [Ids -> Writers]
  /\ rowLock \in [Ids -> Calls \cup {Nobody}]
  /\ returned \in [Calls -> SUBSET (Ids \X (Writers \ {Nobody}))]

Init ==
  /\ job = [c \in Calls |-> NoJob]
  /\ pc = [c \in Calls |-> "idle"]
  /\ todo = [c \in Calls |-> <<>>]
  /\ snapshot = [c \in Calls |-> {}]
  /\ counted = [c \in Calls |-> {}]
  /\ write = [c \in Calls |-> NoWrites]
  /\ row \in [Ids -> {Seed, Nobody}]
  /\ rowLock = [i \in Ids |-> Nobody]
  /\ returned = [c \in Calls |-> {}]

-----------------------------------------------------------------------------

Exists(i) == row[i] # Nobody

Keys(records) == {records[n] : n \in DOMAIN records}

\* The rows of WHERE id IN (...).
Found(records) == {i \in Keys(records) : Exists(i)}

Next1(c) == Head(todo[c])

Visiting(c, methods) == pc[c] = "write" /\ todo[c] # <<>> /\ job[c].method \in methods

\* UPDATE looks for a committed row, DELETE for one of its snapshot; an INSERT meets any
\* key, committed or not.
Meets(c) == CASE job[c].method = "update_many" -> Exists(Next1(c))
              [] job[c].method = "delete"      -> Next1(c) \in snapshot[c]
              [] OTHER                         -> TRUE

\* The transaction that c's statement has to wait for, if any.
Owners(c) == IF Meets(c) THEN {rowLock[Next1(c)]} \ {c, Nobody} ELSE {}

Waits(c) == Visiting(c, Methods) /\ Owners(c) # {}

-----------------------------------------------------------------------------
(* A call and its statements.                                              *)

\* DELETE goes through the rows that it finds when it starts.
Snapshot(method, records) == IF method = "delete" THEN Found(records) ELSE {}

\* The commit flag matters to update_many_by_pk alone, which reads once more.
Call(c) ==
  /\ pc[c] = "idle"
  /\ \E m \in Methods, s \in Records, b \in BOOLEAN :
       /\ m # "update_many" => b
       /\ job' = [job EXCEPT ![c] = [method |-> m, records |-> s, commit |-> b]]
       /\ todo' = [todo EXCEPT ![c] = IF m = "get_many" THEN <<>> ELSE s]
       /\ pc' = [pc EXCEPT ![c] = IF m = "get_many" THEN "count" ELSE "write"]
       /\ snapshot' = [snapshot EXCEPT ![c] = Snapshot(m, s)]
  /\ UNCHANGED <<counted, table, returned>>

\* MUTANT of Write: each record is committed at once.
WriteThrough(c, what, reported) ==
  /\ row' = [row EXCEPT ![Next1(c)] = IF what = "put" THEN c ELSE Nobody]
  /\ returned' = [returned EXCEPT ![c] = @ \cup reported]
  /\ todo' = [todo EXCEPT ![c] = Tail(@)]
  /\ UNCHANGED <<job, pc, snapshot, counted, write, rowLock>>

\* The row is written and locked, and RETURNING reports it.
Write(c, what, reported) ==
  /\ write' = [write EXCEPT ![c][Next1(c)] = what]
  /\ rowLock' = [rowLock EXCEPT ![Next1(c)] = c]
  /\ returned' = [returned EXCEPT ![c] = @ \cup reported]
  /\ todo' = [todo EXCEPT ![c] = Tail(@)]
  /\ UNCHANGED <<job, pc, snapshot, counted, row>>

Skip(c) ==
  /\ todo' = [todo EXCEPT ![c] = Tail(@)]
  /\ UNCHANGED <<job, pc, snapshot, counted, table, returned>>

\* The transaction ends with nothing done.
Rollback(c) ==
  /\ write' = [write EXCEPT ![c] = NoWrites]
  /\ rowLock' = [i \in Ids |-> IF rowLock[i] = c THEN Nobody ELSE rowLock[i]]
  /\ returned' = [returned EXCEPT ![c] = {}]
  /\ todo' = [todo EXCEPT ![c] = <<>>]
  /\ snapshot' = [snapshot EXCEPT ![c] = {}]
  /\ pc' = [pc EXCEPT ![c] = "failed"]
  /\ UNCHANGED <<job, counted, row>>

\* The key of the next record is in the table, or earlier in the list.
Taken(c) == Exists(Next1(c)) \/ write[c][Next1(c)] = "put"

\* create_many: a key that is taken fails the whole list, whichever batch it is in.
CreateRow(c) ==
  /\ Visiting(c, {"create_many"}) /\ Owners(c) = {}
  /\ \/ ~Taken(c) /\ Write(c, "put", {<<Next1(c), c>>})
     \/ Taken(c) /\ Rollback(c)

\* update_many_by_pk: one UPDATE per record.  When a row is missing the ORM raises
\* or not, which depends on what the driver counts.
UpdateRow(c) ==
  /\ Visiting(c, {"update_many"}) /\ Owners(c) = {}
  /\ \/ Exists(Next1(c)) /\ Write(c, "put", {})
     \/ ~Exists(Next1(c)) /\ (Skip(c) \/ Rollback(c))

\* delete, of the newest version of the row.  To name a key twice in a WHERE clause is to
\* name it once.
DeleteRow(c) ==
  /\ Visiting(c, {"delete"}) /\ Owners(c) = {}
  /\ \/ Next1(c) \in snapshot[c] /\ Write(c, "remove", {<<Next1(c), row[Next1(c)]>>})
     \/ Next1(c) \notin snapshot[c] /\ Skip(c)

\* MUTANT of UpsertRow: DO NOTHING returns the row that is there.
UpsertRowAndReport(c) ==
  /\ Visiting(c, {"upsert", "ignore"}) /\ Owners(c) = {}
  /\ \/ /\ job[c].method = "upsert" \/ ~Taken(c)
        /\ Write(c, "put", {<<Next1(c), c>>})
     \/ /\ job[c].method = "ignore" /\ Taken(c)
        /\ returned' = [returned EXCEPT ![c] = @ \cup {<<Next1(c), row[Next1(c)]>>}]
        /\ todo' = [todo EXCEPT ![c] = Tail(@)]
        /\ UNCHANGED <<job, pc, snapshot, counted, table>>

\* MUTANT of UpsertRow: on_conflict is not looked at, and the statement is always that of
\* the else branch, DO UPDATE.
UpsertAlwaysUpdates(c) ==
  /\ Visiting(c, {"upsert", "ignore"}) /\ Owners(c) = {}
  /\ Write(c, "put", {<<Next1(c), c>>})

\* upsert: ON CONFLICT DO UPDATE, or DO NOTHING, which returns no row.  DO UPDATE fails
\* on a key that the list has twice, unless the driver has sent the two records in
\* different batches.
UpsertRow(c) ==
  /\ Visiting(c, {"upsert", "ignore"}) /\ Owners(c) = {}
  /\ \/ /\ job[c].method = "upsert" \/ ~Taken(c)
        /\ Write(c, "put", {<<Next1(c), c>>})
     \/ job[c].method = "upsert" /\ write[c][Next1(c)] = "put" /\ Rollback(c)
     \/ job[c].method = "ignore" /\ Taken(c) /\ Skip(c)

-----------------------------------------------------------------------------
(* The end of a call.                                                      *)

Written(c) == pc[c] = "write" /\ todo[c] = <<>>

\* The row as c's transaction sees it.
Seen(c, i) == CASE write[c][i] = "put"    -> c
                [] write[c][i] = "remove" -> Nobody
                [] OTHER                  -> row[i]

\* MUTANT of ReadBack: without populate_existing the session keeps the rows it has.
ReadBackStale(c, i) == row[i]

ReadBack(c, i) == Seen(c, i)

RefetchFirst(c) == job[c].method = "update_many" /\ ~job[c].commit

\* update_many_by_pk selects the rows again, after its commit if it has one.
Refetch(c) ==
  /\ pc[c] = "refetch" \/ (Written(c) /\ RefetchFirst(c))
  /\ returned' = [returned EXCEPT ![c] =
       {<<i, ReadBack(c, i)>> : i \in {j \in Keys(job[c].records) : ReadBack(c, j) # Nobody}}]
  /\ pc' = [pc EXCEPT ![c] = IF job[c].commit THEN "done" ELSE "commit"]
  /\ UNCHANGED <<job, todo, snapshot, counted, table>>

Removed(c) == {i \in Ids : write[c][i] = "remove"}

\* MUTANT of DropRemoved: DELETE does not look again at a row it has waited for.
DropNone(c) == UNCHANGED snapshot

\* A row that is gone is dropped from the snapshots of the DELETEs under way, and
\* stays so if its key is inserted again.
DropRemoved(c) ==
  snapshot' = [d \in Calls |-> snapshot[d] \ Removed(c)]

\* The method's COMMIT, or its caller's.
Publish(c) ==
  /\ pc[c] = "commit" \/ (Written(c) /\ ~RefetchFirst(c))
  /\ row' = [i \in Ids |-> Seen(c, i)]
  /\ rowLock' = [i \in Ids |-> IF rowLock[i] = c THEN Nobody ELSE rowLock[i]]
  /\ write' = [write EXCEPT ![c] = NoWrites]
  /\ DropRemoved(c)
  /\ UNCHANGED <<job, todo, counted>>

Commit(c) ==
  /\ Publish(c)
  /\ pc' = [pc EXCEPT ![c] = IF pc[c] = "write" /\ job[c].method = "update_many"
                             THEN "refetch" ELSE "done"]
  /\ UNCHANGED returned

\* The method raises although its COMMIT is done: the reply was lost ...
CommitReplyLost(c) ==
  /\ Publish(c)
  /\ pc' = [pc EXCEPT ![c] = "failed"]
  /\ returned' = [returned EXCEPT ![c] = {}]

\* ... or the SELECT after it has failed.
RefetchFails(c) ==
  /\ pc[c] = "refetch"
  /\ pc' = [pc EXCEPT ![c] = "failed"]
  /\ UNCHANGED <<job, todo, snapshot, counted, table, returned>>

\* A statement raises or the process dies: the session is rolled back.
Abort(c) == pc[c] \in {"write", "commit"} /\ Rollback(c)

-----------------------------------------------------------------------------
(* get_many.                                                               *)

\* MUTANT of CountRows: the count has the page's limit.
CountSome(c) == {S \in SUBSET Found(job[c].records) : Cardinality(S) <= PageSize}

\* SELECT count(id) WHERE ...
CountRows(c) == {Found(job[c].records)}

Count(c) ==
  /\ pc[c] = "count"
  /\ \E S \in CountRows(c) : counted' = [counted EXCEPT ![c] = S]
  /\ pc' = [pc EXCEPT ![c] = "page"]
  /\ UNCHANGED <<job, todo, snapshot, table, returned>>

\* The length of page p of n rows: OFFSET (p - 1) * size LIMIT size.
PageLength(p, n) == Cardinality({k \in 1..n : (p - 1) * PageSize < k /\ k <= p * PageSize})

\* The rows of a page, in a statement of its own.  Which rows it has depends on an order
\* that the caller may leave out.
Page(c) ==
  /\ pc[c] = "page"
  /\ \E p \in 1..MaxLen, S \in SUBSET Found(job[c].records) :
       /\ Cardinality(S) = PageLength(p, Cardinality(Found(job[c].records)))
       /\ returned' = [returned EXCEPT ![c] = {<<i, row[i]>> : i \in S}]
  /\ pc' = [pc EXCEPT ![c] = "done"]
  /\ UNCHANGED <<job, todo, snapshot, counted, table>>

\* One of the two statements raises.
ReadFails(c) ==
  /\ pc[c] \in {"count", "page"}
  /\ pc' = [pc EXCEPT ![c] = "failed"]
  /\ UNCHANGED <<job, todo, snapshot, counted, table, returned>>

-----------------------------------------------------------------------------
(* The deadlock detection of Postgres.                                     *)

\* Calls that wait for each other.
Circle(S) == \A c \in S : Waits(c) /\ Owners(c) \subseteq S

\* Postgres picks one of them.
Victim(c) == \E S \in SUBSET Calls : c \in S /\ Circle(S)

BreakDeadlock(c) == Victim(c) /\ Rollback(c)

-----------------------------------------------------------------------------

Step(c) ==
  \/ CreateRow(c) \/ UpdateRow(c) \/ DeleteRow(c) \/ UpsertRow(c) \/ Refetch(c)
  \/ Commit(c) \/ Count(c) \/ Page(c)

Fail(c) == Abort(c) \/ CommitReplyLost(c) \/ RefetchFails(c) \/ ReadFails(c)

Next == \E c \in Calls : Call(c) \/ Step(c) \/ Fail(c) \/ BreakDeadlock(c)

Spec == Init /\ [][Next]_vars

-----------------------------------------------------------------------------
(* Properties.                                                             *)

\* A list is created or upserted as a whole: no step publishes a part of it, though
\* it is written record by record, in batches, and may fail or wait at any of them.
ListIsWhole ==
  [][\A c \in Calls, i \in Ids :
       row'[i] = c /\ row[i] # c /\ job[c].method \in {"create_many", "upsert"} =>
         \A n \in DOMAIN job[c].records : row'[job[c].records[n]] = c]_vars

\* Of calls of delete that overlap, one reports a row as deleted, though all of them
\* have it in their snapshots: what they return can be counted.
DeletedOnce ==
  \A c, d \in Calls :
    c # d /\ job[c].method = "delete" /\ job[d].method = "delete"
          /\ pc[c] = "done" /\ pc[d] = "done"
      => returned[c] \cap returned[d] = {}

\* create_many and upsert with do_nothing never replace a row of another call, also
\* when that call inserted it after they started.
InsertsNeverReplace ==
  [][\A i \in Ids, c \in Calls :
       row'[i] = c /\ row[i] # c /\ job[c].method \in {"create_many", "ignore"} =>
         row[i] = Nobody]_vars

\* What create_many, upsert and delete return is what their COMMIT does to the table: a
\* row that is put as it is from then on, a row that is removed as it was until then,
\* whatever version the call has found first, waited for or passed by.
ReturnsWhatItDid ==
  [][\A c \in Calls : pc[c] = "write" /\ pc'[c] = "done" =>
       returned'[c] = {<<i, IF Exists(i)' THEN row'[i] ELSE row[i]>> :
                         i \in {j \in Ids : row'[j] # row[j]}}]_vars

\* Where update_many_by_pk leaves the COMMIT to its caller, it returns the rows it has
\* updated as it has updated them, though they were read before, and none is missing.
UpdateReturnsOwn ==
  \A c \in Calls, i \in Ids :
    pc[c] = "commit" /\ write[c][i] = "put" => <<i, c>> \in returned[c]

\* A row that get_many's page has and its total does not count is one that a call has
\* inserted in between: the count comes first, so that rows which only go away leave
\* the total too large and never too small.
PageIsCounted ==
  \A c \in Calls, i \in Ids :
    pc[c] = "done" /\ job[c].method = "get_many" /\ <<i, Seed>> \in returned[c]
      => i \in counted[c]
=============================================================================
