-------------------------- MODULE RepositoryProofs --------------------------
(***************************************************************************)
(* Theorems about Repository: any number of calls, any lists of any keys.  *)
(***************************************************************************)
EXTENDS Repository, TLAPS

Inserting == {"create_many", "upsert", "ignore"}

\* A row that an open transaction has written is locked by it and is one of its list.
LocksFit ==
  \A c \in Calls, i \in Ids : write[c][i] # "none" =>
    rowLock[i] = c /\ pc[c] \in {"write", "commit"} /\ i \in Keys(job[c].records)

\* The writer of a row has committed, and writes no more.
WritersFit == \A i \in Ids, c \in Calls : row[i] = c => pc[c] \in {"refetch", "done", "failed"}

\* Where a call is depends on what it is.
JobsFit ==
  \A c \in Calls :
    /\ pc[c] = "write" => job[c].method # "get_many"
    /\ pc[c] \in {"count", "page"} => job[c].method = "get_many"
    /\ pc[c] \in {"refetch", "commit"} => job[c].method = "update_many"
    /\ pc[c] = "refetch" => job[c].commit

\* What is left to visit is of the list; lists to be inserted are visited row by row.
ListsFit ==
  \A c \in Calls :
    /\ Keys(todo[c]) \subseteq Keys(job[c].records)
    /\ pc[c] = "write" /\ job[c].method \in {"create_many", "upsert"} =>
         \A i \in Keys(job[c].records) : write[c][i] = "put" \/ i \in Keys(todo[c])

\* create_many and upsert with do_nothing write where there is no row.
InsertsFit ==
  \A c \in Calls, i \in Ids :
    job[c].method \in {"create_many", "ignore"} /\ write[c][i] = "put" => row[i] = Nobody

\* No version of a row comes back.
Gone(i, w) == row[i] # w /\ (w \in Calls => pc[w] \in {"refetch", "done", "failed"})

\* What a delete goes through is there, and what it reports is there until it commits.
DeletesFit ==
  /\ \A c \in Calls : pc[c] = "idle" => returned[c] = {}
  /\ \A c \in Calls, i \in Ids : i \in snapshot[c] => row[i] # Nobody
  /\ \A c \in Calls, i \in Ids, w \in Writers :
       job[c].method = "delete" /\ <<i, w>> \in returned[c] =>
         /\ pc[c] = "write" => write[c][i] = "remove" /\ row[i] = w
         /\ pc[c] = "done" => Gone(i, w)

\* A row that was never written since the start was there for the count.
CountsFit ==
  \A c \in Calls, i \in Ids :
    pc[c] = "page" /\ i \in Keys(job[c].records) /\ row[i] = Seed => i \in counted[c]

Fits == /\ LocksFit /\ WritersFit /\ JobsFit /\ ListsFit /\ InsertsFit /\ DeletesFit
        /\ CountsFit

IInv == TypeOK /\ Fits /\ DeletedOnce /\ UpdateReturnsOwn /\ PageIsCounted

\* No call has done anything at the start.
LEMMA InitHolds == Init => IInv
<1> SUFFICES ASSUME Init
             PROVE  IInv
  OBVIOUS
<1>1. TypeOK
  BY DEF Init, TypeOK, NoJob, NoWrites, Writers
<1>2. Keys(<<>>) = {}
  BY DEF Keys
<1>3. Fits
  BY <1>2, RepositoryAssumption
     DEF Init, Fits, LocksFit, WritersFit, JobsFit, ListsFit, InsertsFit, DeletesFit, CountsFit,
         NoJob, NoWrites
<1>4. DeletedOnce /\ UpdateReturnsOwn /\ PageIsCounted
  BY DEF Init, DeletedOnce, UpdateReturnsOwn, PageIsCounted
<1> QED
  BY <1>1, <1>3, <1>4 DEF IInv

-----------------------------------------------------------------------------
(* What the steps of a call are.                                           *)

\* The lists of calls are sequences of keys.
LEMMA RecordsAreSequences == Records \subseteq Seq(Ids)
<1> SUFFICES ASSUME NEW s \in Records
             PROVE  s \in Seq(Ids)
  OBVIOUS
<1>1. PICK n \in 1..MaxLen : s \in [1..n -> Ids]
  BY DEF Records
<1>2. n \in Nat
  BY <1>1, RepositoryAssumption
<1> QED
  BY <1>1, <1>2

\* So are their keys keys of the table.
LEMMA RecordKeys ==
  ASSUME TypeOK, NEW c \in Calls
  PROVE  Keys(job[c].records) \subseteq Ids
<1>1. \A s \in Seq(Ids) : Keys(s) \subseteq Ids
  BY DEF Keys
<1>2. job[c].records \in Records \cup {<<>>}
  BY DEF TypeOK, NoJob
<1>3. <<>> \in Seq(Ids)
  OBVIOUS
<1> QED
  BY <1>1, <1>2, <1>3, RecordsAreSequences

\* The keys of a list are its first one and those of the rest.
LEMMA KeysSplit ==
  ASSUME NEW s \in Seq(Ids), s # <<>>
  PROVE  /\ Head(s) \in Ids /\ Tail(s) \in Seq(Ids)
         /\ Keys(s) = {Head(s)} \cup Keys(Tail(s))
<1>1. Head(s) \in Ids /\ Tail(s) \in Seq(Ids)
  OBVIOUS
<1>2. Keys(s) \subseteq {Head(s)} \cup Keys(Tail(s))
  <2> SUFFICES ASSUME NEW n \in DOMAIN s, n # 1
               PROVE  s[n] \in Keys(Tail(s))
    BY DEF Keys
  <2>1. n - 1 \in DOMAIN Tail(s) /\ Tail(s)[n - 1] = s[n]
    OBVIOUS
  <2> QED
    BY <2>1 DEF Keys
<1>3. {Head(s)} \cup Keys(Tail(s)) \subseteq Keys(s)
  <2>1. 1 \in DOMAIN s /\ Head(s) = s[1]
    OBVIOUS
  <2>2. \A n \in DOMAIN Tail(s) : n + 1 \in DOMAIN s /\ Tail(s)[n] = s[n + 1]
    OBVIOUS
  <2> QED
    BY <2>1, <2>2 DEF Keys
<1> QED
  BY <1>1, <1>2, <1>3

\* A row is written ...
WritesRow(c) ==
  /\ pc[c] = "write" /\ todo[c] # <<>>
  /\ rowLock[Next1(c)] \in {c, Nobody}
  /\ \/ /\ job[c].method \in Inserting
        /\ job[c].method # "upsert" => ~Exists(Next1(c))
        /\ Write(c, "put", {<<Next1(c), c>>})
     \/ job[c].method = "update_many" /\ Write(c, "put", {})
     \/ /\ job[c].method = "delete" /\ Next1(c) \in snapshot[c]
        /\ Write(c, "remove", {<<Next1(c), row[Next1(c)]>>})

\* ... or passed by.
SkipsRow(c) ==
  /\ pc[c] = "write" /\ todo[c] # <<>>
  /\ job[c].method \notin {"create_many", "upsert"}
  /\ Skip(c)

Undoes(c) == pc[c] \in {"write", "commit"} /\ Rollback(c)

Publishes(c) == Commit(c) \/ CommitReplyLost(c)

Reads(c) == Refetch(c) \/ RefetchFails(c) \/ Count(c) \/ Page(c) \/ ReadFails(c)

\* A call does one of these things, and waits for rows before it writes them.
LEMMA StepShapes ==
  ASSUME TypeOK, NEW c \in Calls, Step(c) \/ Fail(c) \/ BreakDeadlock(c)
  PROVE  WritesRow(c) \/ SkipsRow(c) \/ Undoes(c) \/ Publishes(c) \/ Reads(c)
<1> USE DEF Visiting
<1>1. ASSUME Visiting(c, Methods), Owners(c) = {}, Meets(c)
      PROVE  rowLock[Next1(c)] \in {c, Nobody}
  BY <1>1 DEF Owners
<1>2. CASE CreateRow(c)
  BY <1>1, <1>2 DEF CreateRow, Taken, Meets, WritesRow, Undoes, Inserting, Methods
<1>3. CASE UpdateRow(c)
  BY <1>1, <1>3 DEF UpdateRow, Meets, WritesRow, SkipsRow, Undoes, Methods
<1>4. CASE DeleteRow(c)
  BY <1>1, <1>4 DEF DeleteRow, Meets, WritesRow, SkipsRow, Methods
<1>5. CASE UpsertRow(c)
  BY <1>1, <1>5 DEF UpsertRow, Taken, Meets, WritesRow, SkipsRow, Undoes, Inserting, Methods
<1>6. CASE Abort(c) \/ BreakDeadlock(c)
  BY <1>6 DEF Abort, BreakDeadlock, Victim, Circle, Waits, Undoes
<1> QED
  BY <1>2, <1>3, <1>4, <1>5, <1>6 DEF Step, Fail, Publishes, Reads

-----------------------------------------------------------------------------
(* Each of them keeps the invariant.                                       *)

\* A call starts with nothing written.
LEMMA CallHolds ==
  ASSUME IInv, NEW c \in Calls, Call(c)
  PROVE  IInv'
<1> USE DEF IInv, Fits
<1>1. PICK m \in Methods, s \in Records, b \in BOOLEAN :
        /\ job' = [job EXCEPT ![c] = [method |-> m, records |-> s, commit |-> b]]
        /\ todo' = [todo EXCEPT ![c] = IF m = "get_many" THEN <<>> ELSE s]
        /\ pc' = [pc EXCEPT ![c] = IF m = "get_many" THEN "count" ELSE "write"]
        /\ snapshot' = [snapshot EXCEPT ![c] = Snapshot(m, s)]
  BY DEF Call
<1>2. pc[c] = "idle" /\ UNCHANGED <<counted, table, returned>>
  BY DEF Call
<1>3. s \in Seq(Ids) /\ Keys(s) \subseteq Ids /\ Keys(<<>>) = {}
  BY RecordsAreSequences DEF Keys
<1>4. \A i \in Snapshot(m, s) : i \in Ids /\ row[i] # Nobody
  BY <1>3 DEF Snapshot, Found, Exists
<1>5. TypeOK'
  BY <1>1, <1>2, <1>3, <1>4 DEF TypeOK, table
<1>6. LocksFit' /\ WritersFit' /\ InsertsFit' /\ CountsFit'
  <2>1. \A d \in Calls \ {c} : job'[d] = job[d] /\ pc'[d] = pc[d]
    BY <1>1 DEF TypeOK
  <2>2. pc'[c] \in {"count", "write"} /\ UNCHANGED <<row, rowLock, write, counted>>
    BY <1>1, <1>2 DEF TypeOK, table
  <2>3. \A i \in Ids : write[c][i] = "none" /\ row[i] # c
    BY <1>2 DEF LocksFit, WritersFit
  <2>4. LocksFit'
    BY <2>1, <2>2, <2>3 DEF LocksFit
  <2>5. WritersFit'
    BY <2>1, <2>2, <2>3 DEF WritersFit
  <2>6. InsertsFit'
    BY <2>1, <2>2, <2>3 DEF InsertsFit
  <2>7. CountsFit'
    BY <2>1, <2>2 DEF CountsFit
  <2> QED
    BY <2>4, <2>5, <2>6, <2>7
<1>7. ListsFit'
  <2> SUFFICES ASSUME NEW d \in Calls
               PROVE  /\ Keys(todo'[d]) \subseteq Keys(job'[d].records)
                      /\ pc'[d] = "write" /\ job'[d].method \in {"create_many", "upsert"} =>
                           \A i \in Keys(job'[d].records) :
                             write'[d][i] = "put" \/ i \in Keys(todo'[d])
    BY DEF ListsFit
  <2>1. CASE d = c
    <3>1. job'[d].records = s /\ job'[d].method = m
      BY <1>1, <2>1 DEF TypeOK
    <3>2. todo'[d] = (IF m = "get_many" THEN <<>> ELSE s)
          /\ pc'[d] = (IF m = "get_many" THEN "count" ELSE "write")
      BY <1>1, <2>1 DEF TypeOK
    <3> QED
      BY <1>3, <3>1, <3>2
  <2>2. CASE d # c
    BY <1>1, <1>2, <2>2 DEF ListsFit, TypeOK, table
  <2> QED
    BY <2>1, <2>2
<1>8. DeletesFit' /\ DeletedOnce' /\ UpdateReturnsOwn' /\ PageIsCounted'
  <2>1. returned[c] = {}
    BY <1>2 DEF DeletesFit
  <2> QED
    BY <1>1, <1>2, <1>4, <2>1
       DEF DeletesFit, Gone, DeletedOnce, UpdateReturnsOwn, PageIsCounted, TypeOK, table
<1>9. JobsFit'
  <2>1. \A d \in Calls \ {c} : job'[d] = job[d] /\ pc'[d] = pc[d]
    BY <1>1 DEF TypeOK
  <2>2. job'[c].method = m /\ pc'[c] = IF m = "get_many" THEN "count" ELSE "write"
    BY <1>1 DEF TypeOK
  <2> QED
    BY <2>1, <2>2 DEF JobsFit
<1> QED
  BY <1>5, <1>6, <1>7, <1>8, <1>9

\* A row is written by the one who has it locked, before it reports it.
LEMMA WriteHolds ==
  ASSUME IInv, NEW c \in Calls, WritesRow(c)
  PROVE  IInv'
<1> USE DEF IInv, Fits
<1> DEFINE x == Next1(c)
<1>1. PICK what \in {"put", "remove"}, reported \in SUBSET (Ids \X (Writers \ {Nobody})) :
        /\ Write(c, what, reported)
        /\ reported \subseteq {<<x, IF what = "put" THEN c ELSE row[x]>>}
        /\ \/ /\ what = "put" /\ job[c].method # "delete"
              /\ job[c].method \in {"create_many", "ignore"} => row[x] = Nobody
           \/ what = "remove" /\ job[c].method = "delete" /\ x \in snapshot[c]
  <2>1. x \in Ids /\ c \in Writers \ {Nobody}
    BY KeysSplit, RepositoryAssumption DEF WritesRow, TypeOK, Next1, Writers
  <2>2. x \in snapshot[c] => row[x] \in Writers \ {Nobody}
    BY <2>1 DEF DeletesFit, TypeOK
  <2> QED
    BY <2>1, <2>2 DEF WritesRow, Inserting, Exists
<1>2. /\ x \in Ids /\ Tail(todo[c]) \in Seq(Ids)
      /\ Keys(todo[c]) = {x} \cup Keys(Tail(todo[c]))
  BY KeysSplit DEF WritesRow, TypeOK, Next1
<1>3. /\ pc[c] = "write" /\ rowLock[x] \in {c, Nobody}
      /\ UNCHANGED <<job, pc, snapshot, counted, row>>
      /\ write' = [write EXCEPT ![c][x] = what] /\ rowLock' = [rowLock EXCEPT ![x] = c]
      /\ returned' = [returned EXCEPT ![c] = @ \cup reported]
      /\ todo' = [todo EXCEPT ![c] = Tail(@)]
  BY <1>1 DEF Write, WritesRow
<1>4. TypeOK'
  BY <1>1, <1>2, <1>3 DEF TypeOK
<1>5. \A d \in Calls, i \in Ids :
        write'[d][i] = IF d = c /\ i = x THEN what ELSE write[d][i]
  BY <1>2, <1>3 DEF TypeOK
<1>6. \A d \in Calls \ {c} : write[d][x] = "none"
  BY <1>2, <1>3, RepositoryAssumption DEF LocksFit
<1>7. LocksFit'
  <2>1. x \in Keys(job[c].records)
    BY <1>2 DEF ListsFit
  <2> QED
    BY <1>2, <1>3, <1>5, <1>6, <2>1 DEF LocksFit, TypeOK
<1>8. WritersFit' /\ JobsFit' /\ CountsFit'
  BY <1>3 DEF WritersFit, JobsFit, CountsFit
<1>9. ListsFit'
  <2>1. \A d \in Calls : todo'[d] = IF d = c THEN Tail(todo[c]) ELSE todo[d]
    BY <1>3 DEF TypeOK
  <2>2. \A d \in Calls : Keys(todo'[d]) \subseteq Keys(todo[d])
    BY <1>2, <2>1
  <2>3. ASSUME NEW d \in Calls, pc[d] = "write", job[d].method \in {"create_many", "upsert"},
               NEW i \in Keys(job[d].records)
        PROVE  write'[d][i] = "put" \/ i \in Keys(todo'[d])
    <3>1. i \in Ids
      BY <2>3, RecordKeys
    <3>2. write[d][i] = "put" \/ i \in Keys(todo[d])
      BY <2>3 DEF ListsFit
    <3> QED
      BY <1>1, <1>2, <1>5, <2>1, <2>3, <3>1, <3>2
  <2> QED
    BY <1>3, <2>2, <2>3 DEF ListsFit
<1>10. InsertsFit'
  BY <1>1, <1>3, <1>5 DEF InsertsFit
<1>11. \A d \in Calls : returned'[d] = IF d = c THEN returned[c] \cup reported ELSE returned[d]
  BY <1>3 DEF TypeOK
<1>12. DeletesFit'
  BY <1>1, <1>2, <1>3, <1>5, <1>11 DEF DeletesFit, Gone
<1>13. DeletedOnce' /\ UpdateReturnsOwn' /\ PageIsCounted'
  BY <1>3, <1>5, <1>11 DEF DeletedOnce, UpdateReturnsOwn, PageIsCounted
<1> QED
  BY <1>4, <1>7, <1>8, <1>9, <1>10, <1>12, <1>13

\* A row that is passed by is not one that a list to be inserted still needs.
LEMMA SkipHolds ==
  ASSUME IInv, NEW c \in Calls, SkipsRow(c)
  PROVE  IInv'
<1> USE DEF IInv, Fits
<1>1. /\ Tail(todo[c]) \in Seq(Ids)
      /\ Keys(Tail(todo[c])) \subseteq Keys(todo[c])
  BY KeysSplit DEF SkipsRow, TypeOK
<1>2. /\ UNCHANGED <<job, pc, snapshot, counted, row, rowLock, write, returned>>
      /\ todo' = [todo EXCEPT ![c] = Tail(@)]
      /\ job[c].method \notin {"create_many", "upsert"}
  BY DEF SkipsRow, Skip, table
<1>3. TypeOK'
  BY <1>1, <1>2 DEF TypeOK
<1>4. ListsFit'
  BY <1>1, <1>2 DEF ListsFit, TypeOK
<1>5. LocksFit' /\ WritersFit' /\ JobsFit' /\ InsertsFit' /\ DeletesFit' /\ CountsFit'
  BY <1>2 DEF LocksFit, WritersFit, JobsFit, InsertsFit, DeletesFit, Gone, CountsFit
<1>6. DeletedOnce' /\ UpdateReturnsOwn' /\ PageIsCounted'
  BY <1>2 DEF DeletedOnce, UpdateReturnsOwn, PageIsCounted
<1> QED
  BY <1>3, <1>4, <1>5, <1>6

\* A rollback takes everything back and leaves the table alone.
LEMMA UndoHolds ==
  ASSUME IInv, NEW c \in Calls, Undoes(c)
  PROVE  IInv'
<1> USE DEF IInv, Fits
<1>1. /\ UNCHANGED <<job, counted, row>>
      /\ \A d \in Calls, i \in Ids : write'[d][i] = IF d = c THEN "none" ELSE write[d][i]
      /\ \A i \in Ids : rowLock'[i] = IF rowLock[i] = c THEN Nobody ELSE rowLock[i]
      /\ \A d \in Calls : /\ returned'[d] = IF d = c THEN {} ELSE returned[d]
                          /\ todo'[d] = IF d = c THEN <<>> ELSE todo[d]
                          /\ snapshot'[d] = IF d = c THEN {} ELSE snapshot[d]
                          /\ pc'[d] = IF d = c THEN "failed" ELSE pc[d]
  BY DEF Undoes, Rollback, NoWrites, TypeOK
<1>2. TypeOK'
  BY DEF Undoes, Rollback, NoWrites, TypeOK
<1>3. Keys(<<>>) = {}
  BY DEF Keys
<1>4. LocksFit' /\ InsertsFit'
  BY <1>1 DEF LocksFit, InsertsFit
<1>5. WritersFit' /\ JobsFit' /\ CountsFit'
  BY <1>1 DEF WritersFit, JobsFit, CountsFit
<1>6. ListsFit'
  <2>1. ASSUME NEW d \in Calls \ {c}, NEW i \in Keys(job[d].records)
        PROVE  write'[d][i] = write[d][i]
    BY <1>1, <2>1, RecordKeys
  <2> QED
    BY <1>1, <1>3, <2>1 DEF ListsFit
<1>7. DeletesFit'
  BY <1>1 DEF DeletesFit, Gone
<1>8. DeletedOnce' /\ UpdateReturnsOwn' /\ PageIsCounted'
  BY <1>1 DEF DeletedOnce, UpdateReturnsOwn, PageIsCounted
<1> QED
  BY <1>2, <1>4, <1>5, <1>6, <1>7, <1>8

\* What a COMMIT does to rows, locks and calls.
LEMMA PublishShape ==
  ASSUME TypeOK, JobsFit, NEW c \in Calls, Publishes(c)
  PROVE  /\ UNCHANGED <<job, todo, counted>>
         /\ pc[c] \in {"write", "commit"} /\ pc'[c] \in {"refetch", "done", "failed"}
         /\ pc[c] = "write" => todo[c] = <<>>
         /\ pc'[c] = "refetch" => job[c].method = "update_many" /\ job[c].commit
         /\ \A d \in Calls \ {c} : pc'[d] = pc[d]
         /\ \A i \in Ids : /\ row'[i] = CASE write[c][i] = "put"    -> c
                                             [] write[c][i] = "remove" -> Nobody
                                             [] OTHER                  -> row[i]
                           /\ rowLock'[i] = IF rowLock[i] = c THEN Nobody ELSE rowLock[i]
         /\ \A d \in Calls, i \in Ids : write'[d][i] = IF d = c THEN "none" ELSE write[d][i]
         /\ \A d \in Calls, i \in Ids :
              i \in snapshot'[d] <=> i \in snapshot[d] /\ write[c][i] # "remove"
         /\ \A d \in Calls : \/ returned'[d] = returned[d]
                             \/ d = c /\ returned'[d] = {} /\ pc'[c] = "failed"
<1>1. Publish(c)
  BY DEF Publishes, Commit, CommitReplyLost
<1>2. /\ UNCHANGED <<job, todo, counted>>
      /\ pc[c] \in {"write", "commit"} /\ (pc[c] = "write" => todo[c] = <<>>)
  BY <1>1 DEF Publish, Written
<1>3. /\ pc'[c] \in {"refetch", "done", "failed"}
      /\ pc'[c] = "refetch" => job[c].method = "update_many" /\ job[c].commit
      /\ \A d \in Calls \ {c} : pc'[d] = pc[d]
      /\ \A d \in Calls : \/ returned'[d] = returned[d]
                          \/ d = c /\ returned'[d] = {} /\ pc'[c] = "failed"
  BY DEF Publishes, Publish, Commit, CommitReplyLost, Written, RefetchFirst, TypeOK
<1>4. \A i \in Ids : /\ row'[i] = CASE write[c][i] = "put"    -> c
                                       [] write[c][i] = "remove" -> Nobody
                                       [] OTHER                  -> row[i]
                     /\ rowLock'[i] = IF rowLock[i] = c THEN Nobody ELSE rowLock[i]
  BY <1>1 DEF Publish, Seen
<1>5. \A d \in Calls, i \in Ids : write'[d][i] = IF d = c THEN "none" ELSE write[d][i]
  BY <1>1 DEF Publish, NoWrites, TypeOK
<1>6. \A d \in Calls, i \in Ids :
        i \in snapshot'[d] <=> i \in snapshot[d] /\ write[c][i] # "remove"
  BY <1>1 DEF Publish, DropRemoved, Removed
<1> QED
  BY <1>2, <1>3, <1>4, <1>5, <1>6

\* A COMMIT changes only rows that its transaction has locked.
LEMMA PublishHolds ==
  ASSUME IInv, NEW c \in Calls, Publishes(c)
  PROVE  IInv'
<1> USE DEF IInv, Fits
<1>1. TypeOK'
  <2>1. Publish(c) /\ pc' \in [Calls -> {"idle", "write", "count", "page", "refetch", "commit",
                                        "done", "failed"}]
    BY DEF Publishes, Commit, CommitReplyLost, TypeOK
  <2>2. row' \in [Ids -> Writers]
    BY <2>1 DEF Publish, Seen, TypeOK, Writers
  <2>3. write' \in [Calls -> [Ids -> {"none", "put", "remove"}]]
    BY <2>1 DEF Publish, NoWrites, TypeOK
  <2>4. snapshot' \in [Calls -> SUBSET Ids]
    BY <2>1 DEF Publish, DropRemoved, TypeOK
  <2>5. rowLock' \in [Ids -> Calls \cup {Nobody}]
    BY <2>1 DEF Publish, TypeOK
  <2>6. returned' \in [Calls -> SUBSET (Ids \X (Writers \ {Nobody}))]
    BY DEF Publishes, Commit, CommitReplyLost, TypeOK
  <2> QED
    BY <2>1, <2>2, <2>3, <2>4, <2>5, <2>6 DEF Publish, TypeOK
<1>2. \A d \in Calls \ {c}, i \in Ids : write[d][i] # "none" => write[c][i] = "none"
  BY DEF LocksFit
<1>3. \A i \in Ids : write[c][i] \in {"none", "put", "remove"}
  BY DEF TypeOK
<1>4. \A i \in Ids : write[c][i] = "none" => row'[i] = row[i]
  BY <1>3, PublishShape
<1>5. LocksFit'
  <2> SUFFICES ASSUME NEW d \in Calls, NEW i \in Ids, write'[d][i] # "none"
               PROVE  /\ rowLock'[i] = d /\ pc'[d] \in {"write", "commit"}
                      /\ i \in Keys(job'[d].records)
    BY DEF LocksFit
  <2>1. d # c /\ write[d][i] # "none"
    BY PublishShape
  <2> QED
    BY <2>1, PublishShape DEF LocksFit
<1>6. WritersFit'
  BY <1>3, PublishShape, RepositoryAssumption DEF WritersFit
<1>7. ListsFit'
  <2>1. ASSUME NEW d \in Calls \ {c}, NEW i \in Keys(job[d].records)
        PROVE  write'[d][i] = write[d][i]
    BY <2>1, RecordKeys, PublishShape
  <2> SUFFICES ASSUME NEW d \in Calls
               PROVE  /\ Keys(todo[d]) \subseteq Keys(job[d].records)
                      /\ pc'[d] = "write" /\ job[d].method \in {"create_many", "upsert"} =>
                           \A i \in Keys(job[d].records) :
                             write'[d][i] = "put" \/ i \in Keys(todo[d])
    BY PublishShape DEF ListsFit
  <2>2. CASE d # c
    BY <2>1, <2>2, PublishShape DEF ListsFit
  <2>3. CASE d = c
    BY <2>3, PublishShape DEF ListsFit
  <2> QED
    BY <2>2, <2>3
<1>8. InsertsFit'
  BY <1>2, <1>4, PublishShape DEF InsertsFit
<1>9. \A i \in Ids, w \in Writers \ {Nobody} : Gone(i, w) => Gone(i, w)'
  BY <1>3, PublishShape DEF Gone, Writers
<1>10. DeletesFit'
  <2>1. \A d \in Calls : pc'[d] = "idle" => returned'[d] = {}
    <3> SUFFICES ASSUME NEW d \in Calls, pc'[d] = "idle"
                 PROVE  returned'[d] = {}
      OBVIOUS
    <3>1. d # c /\ pc[d] = "idle"
      BY PublishShape
    <3>2. returned'[d] = returned[d]
      BY <3>1, PublishShape
    <3> QED
      BY <3>1, <3>2 DEF DeletesFit
  <2>2. \A d \in Calls, i \in Ids : i \in snapshot'[d] => row'[i] # Nobody
    BY <1>3, PublishShape, RepositoryAssumption DEF DeletesFit
  <2>3. ASSUME NEW d \in Calls, NEW i \in Ids, NEW w \in Writers, job[d].method = "delete",
               <<i, w>> \in returned'[d]
        PROVE  /\ pc'[d] = "write" => write'[d][i] = "remove" /\ row'[i] = w
               /\ pc'[d] = "done" => Gone(i, w)'
    <3>1. CASE d # c
      <4>1. pc'[d] = pc[d] /\ <<i, w>> \in returned[d] /\ write'[d][i] = write[d][i]
        BY <2>3, <3>1, PublishShape
      <4>2. w # Nobody
        BY <4>1 DEF TypeOK
      <4> QED
        BY <1>2, <1>4, <1>9, <2>3, <3>1, <4>1, <4>2 DEF DeletesFit
    <3>2. CASE d = c
      <4>1. CASE pc'[c] = "done"
        <5>1. pc[c] = "write" /\ <<i, w>> \in returned[c]
          BY <2>3, <3>2, <4>1, PublishShape DEF JobsFit
        <5>2. write[c][i] = "remove" /\ row[i] = w /\ row'[i] = Nobody
          BY <2>3, <3>2, <5>1, PublishShape DEF DeletesFit
        <5>3. w # Nobody
          BY <5>1 DEF TypeOK
        <5>4. w \in Calls => pc'[w] \in {"refetch", "done", "failed"}
          BY <5>2, PublishShape DEF WritersFit
        <5> QED
          BY <3>2, <4>1, <5>2, <5>3, <5>4 DEF Gone
      <4>2. CASE pc'[c] # "done"
        BY <3>2, <4>2, PublishShape
      <4> QED
        BY <4>1, <4>2
    <3> QED
      BY <3>1, <3>2
  <2> QED
    BY <2>1, <2>2, <2>3, PublishShape DEF DeletesFit
<1>11. CountsFit'
  BY <1>3, PublishShape, RepositoryAssumption DEF CountsFit
<1>12. DeletedOnce'
  <2>1. ASSUME NEW d \in Calls \ {c}, job[c].method = "delete", job[d].method = "delete",
               pc'[c] = "done", pc[d] = "done", NEW i \in Ids, NEW w \in Writers,
               <<i, w>> \in returned[c], <<i, w>> \in returned[d]
        PROVE  FALSE
    <3>1. pc[c] = "write"
      BY <2>1, PublishShape DEF JobsFit
    <3>2. row[i] = w
      BY <2>1, <3>1 DEF DeletesFit
    <3> QED
      BY <2>1, <3>2 DEF DeletesFit, Gone
  <2>2. \A d \in Calls : returned'[d] \subseteq returned[d]
    BY PublishShape DEF TypeOK
  <2>3. \A d \in Calls : returned[d] \subseteq Ids \X Writers
    BY DEF TypeOK
  <2>4. ASSUME NEW d \in Calls \ {c}, job[c].method = "delete", job[d].method = "delete",
               pc'[c] = "done", pc[d] = "done"
        PROVE  returned'[c] \cap returned'[d] = {}
    BY <2>1, <2>2, <2>3, <2>4
  <2>5. ASSUME NEW a \in Calls \ {c}, NEW b \in Calls \ {c}, a # b, job[a].method = "delete",
               job[b].method = "delete", pc[a] = "done", pc[b] = "done"
        PROVE  returned'[a] \cap returned'[b] = {}
    BY <2>2, <2>5 DEF DeletedOnce
  <2> SUFFICES ASSUME NEW a \in Calls, NEW b \in Calls, a # b, job'[a].method = "delete",
                      job'[b].method = "delete", pc'[a] = "done", pc'[b] = "done"
               PROVE  returned'[a] \cap returned'[b] = {}
    BY DEF DeletedOnce
  <2> QED
    BY <2>4, <2>5, PublishShape
<1>13. UpdateReturnsOwn'
  <2> SUFFICES ASSUME NEW d \in Calls, NEW i \in Ids, pc'[d] = "commit", write'[d][i] = "put"
               PROVE  <<i, d>> \in returned'[d]
    BY DEF UpdateReturnsOwn
  <2>1. d # c /\ pc[d] = "commit" /\ write[d][i] = "put"
    BY PublishShape
  <2>2. returned'[d] = returned[d]
    BY <2>1, PublishShape
  <2> QED
    BY <2>1, <2>2 DEF UpdateReturnsOwn
<1>14. PageIsCounted'
  <2> SUFFICES ASSUME NEW d \in Calls, NEW i \in Ids, pc'[d] = "done",
                      job[d].method = "get_many", <<i, Seed>> \in returned'[d]
               PROVE  i \in counted[d]
    BY PublishShape DEF PageIsCounted
  <2>1. returned'[d] = returned[d]
    BY PublishShape
  <2>2. CASE d # c
    <3>1. pc[d] = "done"
      BY <2>2, PublishShape
    <3> QED
      BY <2>1, <3>1 DEF PageIsCounted
  <2>3. CASE d = c
    BY <2>1, <2>3, PublishShape DEF JobsFit
  <2> QED
    BY <2>2, <2>3
<1>15. JobsFit'
  BY PublishShape DEF JobsFit
<1> QED
  BY <1>15, <1>1, <1>5, <1>6, <1>7, <1>8, <1>10, <1>11, <1>12, <1>13, <1>14

\* The reads change nothing that another call sees.
LEMMA ReadsHold ==
  ASSUME IInv, NEW c \in Calls, Reads(c)
  PROVE  IInv'
<1> USE DEF IInv, Fits
<1>1. /\ UNCHANGED <<job, todo, snapshot, row, rowLock, write>>
      /\ \A d \in Calls \ {c} : /\ pc'[d] = pc[d] /\ returned'[d] = returned[d]
                               /\ counted'[d] = counted[d]
  BY DEF Reads, Refetch, RefetchFails, Count, Page, ReadFails, table, TypeOK
<1>2. \/ /\ Refetch(c) /\ job[c].method = "update_many" /\ pc[c] \in {"write", "refetch"}
         /\ pc[c] = "write" => pc'[c] = "commit"
         /\ pc[c] = "refetch" /\ job[c].commit => pc'[c] = "done"
      \/ Count(c) /\ pc[c] = "count" /\ pc'[c] = "page"
      \/ Page(c) /\ pc[c] = "page" /\ pc'[c] = "done"
      \/ /\ pc[c] \in {"count", "page", "refetch"} /\ pc'[c] = "failed"
         /\ UNCHANGED <<returned, counted>>
  <2>1. ASSUME Refetch(c)
        PROVE  job[c].method = "update_many" /\ pc[c] \in {"write", "refetch"}
    BY <2>1 DEF Refetch, Written, RefetchFirst, JobsFit
  <2> QED
    BY <2>1 DEF Reads, Refetch, Written, RefetchFirst, RefetchFails, Count, Page, ReadFails, TypeOK
<1>3. \A i \in Ids, d \in Calls : write[d][i] # "none" => i \in Keys(job[d].records)
  BY DEF LocksFit
<1>4. TypeOK'
  <2>1. pc' \in [Calls -> {"idle", "write", "count", "page", "refetch", "commit", "done", "failed"}]
    BY DEF Reads, Refetch, RefetchFails, Count, Page, ReadFails, TypeOK
  <2>2. counted' \in [Calls -> SUBSET Ids]
    <3>1. Found(job[c].records) \subseteq Ids
      BY RecordKeys DEF Found
    <3>2. counted' = counted \/ counted' = [counted EXCEPT ![c] = Found(job[c].records)]
      BY DEF Reads, Refetch, RefetchFails, Count, CountRows, Page, ReadFails
    <3> QED
      BY <3>1, <3>2 DEF TypeOK
  <2>3. returned' \in [Calls -> SUBSET (Ids \X (Writers \ {Nobody}))]
    <3>1. ASSUME NEW S \in SUBSET Found(job[c].records)
          PROVE  {<<i, row[i]>> : i \in S} \in SUBSET (Ids \X (Writers \ {Nobody}))
      BY RecordKeys DEF TypeOK, Found, Exists
    <3>2. {<<i, ReadBack(c, i)>> : i \in {j \in Keys(job[c].records) : ReadBack(c, j) # Nobody}}
            \in SUBSET (Ids \X (Writers \ {Nobody}))
      BY RecordKeys DEF TypeOK, ReadBack, Seen, Writers
    <3>3. \/ returned' = returned
          \/ \E R \in SUBSET (Ids \X (Writers \ {Nobody})) :
               returned' = [returned EXCEPT ![c] = R]
      <4>1. CASE Refetch(c)
        BY <3>2, <4>1 DEF Refetch
      <4>2. CASE Page(c)
        BY <3>1, <4>2 DEF Page
      <4> QED
        BY <4>1, <4>2 DEF Reads, RefetchFails, Count, ReadFails, table
    <3> QED
      BY <3>3 DEF TypeOK
  <2> QED
    BY <1>1, <2>1, <2>2, <2>3 DEF TypeOK
<1>5. LocksFit' /\ WritersFit' /\ JobsFit'
  <2>1. JobsFit'
    BY <1>1, <1>2 DEF JobsFit
  <2>2. pc[c] = "write" => pc'[c] = "commit"
    BY <1>2
  <2>3. pc[c] \in {"refetch", "done", "failed"} => pc'[c] \in {"refetch", "done", "failed"}
    BY <1>2 DEF JobsFit
  <2>4. pc[c] # "commit"
    BY <1>2
  <2>5. LocksFit'
    BY <1>1, <2>2, <2>4 DEF LocksFit
  <2>6. WritersFit'
    BY <1>1, <2>3 DEF WritersFit
  <2> QED
    BY <2>1, <2>5, <2>6
<1>6. ListsFit' /\ InsertsFit'
  <2>1. pc'[c] # "write"
    BY <1>2 DEF JobsFit
  <2> QED
    BY <1>1, <2>1 DEF ListsFit, InsertsFit
<1>7. DeletesFit'
  <2>1. \A i \in Ids, w \in Writers : Gone(i, w) => Gone(i, w)'
    <3>1. pc[c] \in {"refetch", "done", "failed"} => pc'[c] \in {"refetch", "done", "failed"}
      BY <1>2 DEF JobsFit
    <3> QED
      BY <1>1, <3>1 DEF Gone
  <2>2. pc'[c] # "idle" /\ pc'[c] # "write"
    BY <1>2 DEF JobsFit
  <2>3. job[c].method = "delete" => pc'[c] # "done"
    BY <1>2 DEF JobsFit
  <2> QED
    BY <1>1, <2>1, <2>2, <2>3 DEF DeletesFit
<1>8. CountsFit'
  <2> SUFFICES ASSUME NEW d \in Calls, NEW i \in Ids, pc'[d] = "page",
                      i \in Keys(job[d].records), row[i] = Seed
               PROVE  i \in counted'[d]
    BY <1>1 DEF CountsFit
  <2>1. CASE d = c
    <3>1. Count(c)
      BY <1>2, <2>1 DEF JobsFit
    <3>2. i \in Found(job[c].records)
      BY <2>1, RepositoryAssumption DEF Found, Exists
    <3> QED
      BY <2>1, <3>1, <3>2 DEF Count, CountRows, TypeOK
  <2>2. CASE d # c
    BY <1>1, <2>2 DEF CountsFit
  <2> QED
    BY <2>1, <2>2
<1>9. DeletedOnce'
  <2>1. job[c].method = "delete" => pc'[c] # "done"
    BY <1>2 DEF JobsFit
  <2> QED
    BY <1>1, <2>1 DEF DeletedOnce
<1>10. UpdateReturnsOwn'
  <2> SUFFICES ASSUME NEW d \in Calls, NEW i \in Ids, pc'[d] = "commit", write[d][i] = "put"
               PROVE  <<i, d>> \in returned'[d]
    BY <1>1 DEF UpdateReturnsOwn
  <2>1. CASE d = c
    <3>1. Refetch(c) /\ ReadBack(c, i) = c /\ c # Nobody
      BY <1>2, <2>1, RepositoryAssumption DEF ReadBack, Seen
    <3>2. i \in Keys(job[c].records)
      BY <1>3, <2>1
    <3> QED
      BY <2>1, <3>1, <3>2 DEF Refetch, TypeOK
  <2>2. CASE d # c
    BY <1>1, <2>2 DEF UpdateReturnsOwn
  <2> QED
    BY <2>1, <2>2
<1>11. PageIsCounted'
  <2> SUFFICES ASSUME NEW d \in Calls, NEW i \in Ids, pc'[d] = "done",
                      job[d].method = "get_many", <<i, Seed>> \in returned'[d]
               PROVE  i \in counted'[d]
    BY <1>1 DEF PageIsCounted
  <2>1. CASE d = c
    <3>1. Page(c) /\ pc[c] = "page"
      BY <1>2, <2>1 DEF JobsFit
    <3>2. PICK S \in SUBSET Found(job[c].records) : returned'[c] = {<<j, row[j]>> : j \in S}
      BY <3>1 DEF Page, TypeOK
    <3>3. i \in Keys(job[c].records) /\ row[i] = Seed
      BY <2>1, <3>2 DEF Found
    <3> QED
      BY <2>1, <3>1, <3>3 DEF CountsFit, Page
  <2>2. CASE d # c
    BY <1>1, <2>2 DEF PageIsCounted
  <2> QED
    BY <2>1, <2>2
<1> QED
  BY <1>4, <1>5, <1>6, <1>7, <1>8, <1>9, <1>10, <1>11

\* So does every step.
LEMMA StepHolds == IInv /\ [Next]_vars => IInv'
<1> SUFFICES ASSUME IInv, [Next]_vars
             PROVE  IInv'
  OBVIOUS
<1>1. CASE UNCHANGED vars
  <2> USE <1>1 DEF vars, table
  <2>1. TypeOK' /\ LocksFit' /\ WritersFit' /\ JobsFit' /\ ListsFit'
    BY DEF IInv, Fits, TypeOK, LocksFit, WritersFit, JobsFit, ListsFit
  <2>2. InsertsFit' /\ DeletesFit' /\ CountsFit'
    BY DEF IInv, Fits, InsertsFit, DeletesFit, Gone, CountsFit
  <2>3. DeletedOnce' /\ UpdateReturnsOwn' /\ PageIsCounted'
    BY DEF IInv, DeletedOnce, UpdateReturnsOwn, PageIsCounted
  <2> QED
    BY <2>1, <2>2, <2>3 DEF IInv, Fits
<1>2. ASSUME NEW c \in Calls, Call(c) \/ Step(c) \/ Fail(c) \/ BreakDeadlock(c)
      PROVE  IInv'
  <2>1. CASE Call(c)
    BY <2>1, CallHolds
  <2>2. CASE Step(c) \/ Fail(c) \/ BreakDeadlock(c)
    <3>1. WritesRow(c) \/ SkipsRow(c) \/ Undoes(c) \/ Publishes(c) \/ Reads(c)
      BY <2>2, StepShapes DEF IInv
    <3> QED
      BY <3>1, WriteHolds, SkipHolds, UndoHolds, PublishHolds, ReadsHold
  <2> QED
    BY <1>2, <2>1, <2>2
<1> QED
  BY <1>1, <1>2 DEF Next

-----------------------------------------------------------------------------
(* The theorems.                                                           *)

\* The invariant that the theorems below rest on.
LEMMA Invariance == Spec => []IInv
  BY InitHolds, StepHolds, PTL DEF Spec

\* The state of the calls and of the table keeps its type.
THEOREM RepositoryTyping == Spec => []TypeOK
  BY Invariance, PTL DEF IInv

\* Two deletes never report the same row: the one that has waited drops what is gone
\* (BaseRepository.delete).
THEOREM DeletesCountOnce == Spec => []DeletedOnce
  BY Invariance, PTL DEF IInv

\* An update that its caller commits returns the rows as it has updated them
\* (BaseRepository.update_many_by_pk).
THEOREM UpdatesReturnTheirRows == Spec => []UpdateReturnsOwn
  BY Invariance, PTL DEF IInv

\* A page lists no row that was there all the time and is missing in the total
\* (BaseRepository.get_many).
THEOREM PagesAreCounted == Spec => []PageIsCounted
  BY Invariance, PTL DEF IInv

\* A call's rows get into the table when it commits them, and in no other way.
LEMMA RowsArePublished ==
  ASSUME IInv, [Next]_vars, NEW c \in Calls, NEW i \in Ids, row'[i] = c, row[i] # c
  PROVE  Publishes(c) /\ write[c][i] = "put"
<1>1. c # Nobody
  BY RepositoryAssumption
<1>2. PICK d \in Calls : Call(d) \/ Step(d) \/ Fail(d) \/ BreakDeadlock(d)
  BY DEF Next, vars, table
<1>3. Publishes(d)
  <2>1. WritesRow(d) \/ SkipsRow(d) \/ Undoes(d) \/ Publishes(d) \/ Reads(d)
    BY <1>2, StepShapes DEF IInv, Call, table
  <2> QED
    BY <2>1 DEF WritesRow, Write, SkipsRow, Skip, Undoes, Rollback, Reads, Refetch, RefetchFails,
                Count, Page, ReadFails, table
<1>4. row'[i] = CASE write[d][i] = "put"    -> d
                  [] write[d][i] = "remove" -> Nobody
                  [] OTHER                  -> row[i]
  BY <1>3, PublishShape DEF IInv, Fits
<1>5. write[d][i] \in {"none", "put", "remove"}
  BY DEF IInv, TypeOK
<1> QED
  BY <1>1, <1>3, <1>4, <1>5

\* A create_many and an upsert with do_nothing leave the rows of others alone
\* (BaseRepository.create_many, upsert).
THEOREM InsertsKeepRows == Spec => InsertsNeverReplace
<1> DEFINE Kept == \A i \in Ids, c \in Calls :
                     row'[i] = c /\ row[i] # c /\ job[c].method \in {"create_many", "ignore"} =>
                       row[i] = Nobody
<1>1. IInv /\ [Next]_vars => Kept
  BY RowsArePublished DEF IInv, Fits, InsertsFit
<1>2. IInv /\ [Next]_vars => [Kept]_vars
  BY <1>1
<1> QED
  BY <1>2, Invariance, PTL DEF Spec, InsertsNeverReplace

\* A list is published when every record of it is written, and then as a whole
\* (BaseRepository.create_many, upsert).
THEOREM ListsAreWhole == Spec => ListIsWhole
<1> DEFINE Whole == \A c \in Calls, i \in Ids :
                      row'[i] = c /\ row[i] # c /\ job[c].method \in {"create_many", "upsert"} =>
                        \A n \in DOMAIN job[c].records : row'[job[c].records[n]] = c
<1>1. IInv /\ [Next]_vars => Whole
  <2> SUFFICES ASSUME IInv, [Next]_vars, NEW c \in Calls, NEW i \in Ids, row'[i] = c,
                      row[i] # c, job[c].method \in {"create_many", "upsert"},
                      NEW n \in DOMAIN job[c].records
               PROVE  row'[job[c].records[n]] = c
    OBVIOUS
  <2> DEFINE k == job[c].records[n]
  <2>1. Publishes(c)
    BY RowsArePublished
  <2>2. k \in Keys(job[c].records)
    BY DEF Keys
  <2>3. k \in Ids
    BY <2>2, RecordKeys DEF IInv
  <2>4. pc[c] = "write" /\ todo[c] = <<>>
    BY <2>1, PublishShape DEF IInv, Fits, JobsFit
  <2>5. write[c][k] = "put"
    BY <2>2, <2>4 DEF IInv, Fits, ListsFit, Keys
  <2> QED
    BY <2>1, <2>3, <2>5, PublishShape DEF IInv, Fits
<1>2. IInv /\ [Next]_vars => [Whole]_vars
  BY <1>1
<1> QED
  BY <1>2, Invariance, PTL DEF Spec, ListIsWhole

-----------------------------------------------------------------------------
(* What a call returns.                                                    *)

\* What a call has written so far, as it reports it: the row that it will leave, or the row
\* that is there until it removes it.
Reports(c, i, w) ==
  \/ write[c][i] = "put" /\ w = c
  \/ write[c][i] = "remove" /\ w = row[i]

\* A call has reported what it has written and nothing else, and only a delete removes.
ReportsFit ==
  \A c \in Calls, i \in Ids :
    /\ write[c][i] = "put" => job[c].method # "delete"
    /\ write[c][i] = "remove" => job[c].method = "delete" /\ row[i] # Nobody
    /\ pc[c] = "write" /\ job[c].method # "update_many" =>
         \A w \in Writers : w # Nobody => (<<i, w>> \in returned[c] <=> Reports(c, i, w))

\* A call that starts has reported nothing.
LEMMA CallReports ==
  ASSUME IInv, ReportsFit, NEW c \in Calls, Call(c)
  PROVE  ReportsFit'
<1>1. /\ pc[c] = "idle" /\ UNCHANGED <<row, write, returned>>
      /\ \A d \in Calls \ {c} : job'[d] = job[d] /\ pc'[d] = pc[d]
  BY DEF Call, table, IInv, TypeOK
<1>2. returned[c] = {} /\ \A i \in Ids : write[c][i] = "none"
  BY <1>1 DEF IInv, Fits, LocksFit, DeletesFit
<1> QED
  BY <1>1, <1>2 DEF ReportsFit, Reports

\* A row is reported when it is written, as it is under the lock.
LEMMA WriteReports ==
  ASSUME IInv, ReportsFit, NEW c \in Calls, WritesRow(c)
  PROVE  ReportsFit'
<1> DEFINE x == Next1(c)
<1>1. x \in Ids
  BY KeysSplit DEF WritesRow, IInv, TypeOK, Next1
<1>2. PICK what \in {"put", "remove"}, reported \in {{}, {<<x, c>>}, {<<x, row[x]>>}} :
        /\ Write(c, what, reported)
        /\ \/ what = "put" /\ job[c].method \in Inserting /\ reported = {<<x, c>>}
           \/ what = "put" /\ job[c].method = "update_many" /\ reported = {}
           \/ /\ what = "remove" /\ job[c].method = "delete" /\ row[x] # Nobody
              /\ reported = {<<x, row[x]>>}
  BY <1>1 DEF WritesRow, IInv, Fits, DeletesFit
<1>3. /\ UNCHANGED <<job, pc, row>>
      /\ \A d \in Calls, i \in Ids :
           write'[d][i] = IF d = c /\ i = x THEN what ELSE write[d][i]
      /\ \A d \in Calls :
           returned'[d] = IF d = c THEN returned[c] \cup reported ELSE returned[d]
  BY <1>1, <1>2 DEF Write, IInv, TypeOK
<1> SUFFICES ASSUME NEW d \in Calls, NEW i \in Ids
             PROVE  /\ write'[d][i] = "put" => job[d].method # "delete"
                    /\ write'[d][i] = "remove" => job[d].method = "delete" /\ row[i] # Nobody
                    /\ pc[d] = "write" /\ job[d].method # "update_many" =>
                         \A w \in Writers : w # Nobody =>
                           (<<i, w>> \in returned'[d] <=> Reports(d, i, w)')
  BY <1>3 DEF ReportsFit
<1>4. CASE d # c \/ i # x
  <2>1. \A w : <<i, w>> \in returned'[d] <=> <<i, w>> \in returned[d]
    BY <1>2, <1>3, <1>4
  <2> QED
    BY <1>3, <1>4, <2>1 DEF ReportsFit, Reports
<1>5. CASE d = c /\ i = x
  <2>1. write'[d][i] = what
    BY <1>3, <1>5
  <2>2. ASSUME job[c].method # "update_many", pc[c] = "write", NEW w \in Writers, w # Nobody
        PROVE  <<i, w>> \in returned'[c] <=> Reports(c, i, w)'
    <3>1. <<i, w>> \in returned[c] <=> Reports(c, i, w)
      BY <2>2 DEF ReportsFit
    <3>2. CASE what = "put"
      <4>1. reported = {<<i, c>>} /\ write[c][i] # "remove"
        BY <1>2, <1>5, <2>2, <3>2 DEF ReportsFit, Inserting
      <4>2. <<i, w>> \in returned'[c] <=> <<i, w>> \in returned[c] \/ w = c
        BY <1>3, <4>1
      <4>3. Reports(c, i, w)' <=> w = c
        BY <1>5, <2>1, <3>2 DEF Reports
      <4> QED
        BY <3>1, <4>1, <4>2, <4>3 DEF Reports
    <3>3. CASE what = "remove"
      <4>1. reported = {<<i, row[i]>>} /\ write[c][i] # "put"
        BY <1>2, <1>5, <2>2, <3>3 DEF ReportsFit, Inserting
      <4>2. <<i, w>> \in returned'[c] <=> <<i, w>> \in returned[c] \/ w = row[i]
        BY <1>3, <4>1
      <4>3. Reports(c, i, w)' <=> w = row[i]
        BY <1>3, <1>5, <2>1, <3>3 DEF Reports
      <4> QED
        BY <3>1, <4>1, <4>2, <4>3 DEF Reports
    <3> QED
      BY <3>2, <3>3
  <2> QED
    BY <1>2, <1>5, <2>1, <2>2 DEF Inserting, Reports
<1> QED
  BY <1>4, <1>5

\* A COMMIT changes no row that another call has reported and not yet committed.
LEMMA PublishReports ==
  ASSUME IInv, ReportsFit, NEW c \in Calls, Publishes(c)
  PROVE  ReportsFit'
<1> USE DEF IInv, Fits
<1>1. ASSUME NEW d \in Calls \ {c}, NEW i \in Ids, write[d][i] # "none"
      PROVE  row'[i] = row[i]
  <2>1. write[c][i] = "none"
    BY <1>1 DEF LocksFit, TypeOK
  <2> QED
    BY <2>1, PublishShape
<1>2. \A i \in Ids : write'[c][i] = "none" /\ pc'[c] # "write"
  BY PublishShape
<1>3. ASSUME NEW d \in Calls \ {c}
      PROVE  /\ job'[d] = job[d] /\ pc'[d] = pc[d] /\ returned'[d] = returned[d]
             /\ \A i \in Ids : write'[d][i] = write[d][i]
  BY <1>3, PublishShape
<1> QED
  BY <1>1, <1>2, <1>3 DEF ReportsFit, Reports

\* Every step keeps the reports true.
LEMMA ReportsStep == IInv /\ ReportsFit /\ [Next]_vars => ReportsFit'
<1> SUFFICES ASSUME IInv, ReportsFit, [Next]_vars
             PROVE  ReportsFit'
  OBVIOUS
<1>1. CASE UNCHANGED vars
  BY <1>1 DEF vars, table, ReportsFit, Reports
<1>2. ASSUME NEW c \in Calls, Call(c) \/ Step(c) \/ Fail(c) \/ BreakDeadlock(c)
      PROVE  ReportsFit'
  <2>1. CASE Call(c)
    BY <2>1, CallReports
  <2>2. CASE SkipsRow(c)
    BY <2>2 DEF SkipsRow, Skip, table, ReportsFit, Reports
  <2>3. CASE Undoes(c)
    <3>1. /\ UNCHANGED <<job, row>>
          /\ \A d \in Calls, i \in Ids :
               write'[d][i] = IF d = c THEN "none" ELSE write[d][i]
          /\ \A d \in Calls : /\ returned'[d] = IF d = c THEN {} ELSE returned[d]
                              /\ pc'[d] = IF d = c THEN "failed" ELSE pc[d]
      BY <2>3 DEF Undoes, Rollback, NoWrites, IInv, TypeOK
    <3> QED
      BY <3>1 DEF ReportsFit, Reports
  <2>4. CASE Reads(c)
    <3>1. /\ UNCHANGED <<job, row, write>> /\ pc'[c] # "write"
          /\ \A d \in Calls \ {c} : pc'[d] = pc[d] /\ returned'[d] = returned[d]
      BY <2>4 DEF Reads, Refetch, RefetchFails, Count, Page, ReadFails, table, IInv, TypeOK
    <3> QED
      BY <3>1 DEF ReportsFit, Reports
  <2>5. CASE Step(c) \/ Fail(c) \/ BreakDeadlock(c)
    <3>1. WritesRow(c) \/ SkipsRow(c) \/ Undoes(c) \/ Publishes(c) \/ Reads(c)
      BY <2>5, StepShapes DEF IInv
    <3> QED
      BY <3>1, <2>2, <2>3, <2>4, WriteReports, PublishReports
  <2> QED
    BY <1>2, <2>1, <2>5
<1> QED
  BY <1>1, <1>2 DEF Next

\* What create_many, upsert and delete return is what their COMMIT does to the table, for
\* any lists and any calls beside them (BaseRepository.create_many, upsert, delete).
THEOREM ReportsAreTrue == Spec => ReturnsWhatItDid
<1> DEFINE Did == \A c \in Calls : pc[c] = "write" /\ pc'[c] = "done" =>
                    returned'[c] = {<<i, IF Exists(i)' THEN row'[i] ELSE row[i]>> :
                                      i \in {j \in Ids : row'[j] # row[j]}}
<1>1. Init => ReportsFit
  BY DEF Init, ReportsFit, Reports, NoWrites
<1>2. IInv /\ ReportsFit /\ [Next]_vars => Did
  <2> SUFFICES ASSUME IInv, ReportsFit, [Next]_vars, NEW c \in Calls,
                      pc[c] = "write", pc'[c] = "done"
               PROVE  returned'[c] = {<<i, IF Exists(i)' THEN row'[i] ELSE row[i]>> :
                                        i \in {j \in Ids : row'[j] # row[j]}}
    OBVIOUS
  <2>1. Commit(c)
    <3>1. PICK d \in Calls : Call(d) \/ Step(d) \/ Fail(d) \/ BreakDeadlock(d)
      BY DEF Next, vars
    <3>2. \/ Call(d) \/ WritesRow(d) \/ SkipsRow(d) \/ Undoes(d) \/ Publishes(d)
          \/ Reads(d)
      BY <3>1, StepShapes DEF IInv
    <3>3. d = c
      BY <3>2 DEF Call, WritesRow, Write, SkipsRow, Skip, Undoes, Rollback, Publishes,
                  Commit, CommitReplyLost, Reads, Refetch, RefetchFails, Count, Page,
                  ReadFails, IInv, TypeOK
    <3>4. ~Call(c) /\ ~WritesRow(c) /\ ~SkipsRow(c) /\ ~Undoes(c) /\ ~CommitReplyLost(c)
      BY DEF Call, WritesRow, Write, SkipsRow, Skip, Undoes, Rollback, CommitReplyLost,
             IInv, TypeOK
    <3>5. ~Reads(c)
      BY DEF Reads, Refetch, Written, RefetchFirst, RefetchFails, Count, Page, ReadFails,
             IInv, TypeOK
    <3> QED
      BY <3>2, <3>3, <3>4, <3>5 DEF Publishes
  <2>2. job[c].method # "update_many" /\ returned' = returned
    BY <2>1 DEF Commit, IInv, TypeOK
  <2>3. \A i \in Ids : row'[i] = CASE write[c][i] = "put"    -> c
                                   [] write[c][i] = "remove" -> Nobody
                                   [] OTHER                  -> row[i]
    BY <2>1, PublishShape DEF IInv, Fits, Publishes
  <2>4. /\ c \in Writers /\ c # Nobody
        /\ \A i \in Ids : row[i] # c /\ row[i] \in Writers
        /\ \A i \in Ids : write[c][i] \in {"none", "put", "remove"}
        /\ returned[c] \subseteq Ids \X (Writers \ {Nobody})
    <3>1. c \in Writers /\ c # Nobody
      BY RepositoryAssumption DEF Writers
    <3>2. \A i \in Ids : row[i] # c
      BY DEF IInv, Fits, WritersFit
    <3> QED
      BY <3>1, <3>2 DEF IInv, TypeOK
  <2>5. ASSUME NEW i \in Ids, NEW w \in Writers, w # Nobody
        PROVE  <<i, w>> \in returned[c] <=>
                 row'[i] # row[i] /\ w = IF row'[i] # Nobody THEN row'[i] ELSE row[i]
    <3>1. <<i, w>> \in returned[c] <=> Reports(c, i, w)
      BY <2>2, <2>5 DEF ReportsFit
    <3>2. write[c][i] = "remove" => row[i] # Nobody
      BY DEF ReportsFit
    <3> QED
      BY <2>3, <2>4, <3>1, <3>2 DEF Reports
  <2>6. \A i \in Ids : row'[i] # row[i] =>
          (IF row'[i] # Nobody THEN row'[i] ELSE row[i]) \in Writers \ {Nobody}
    BY <2>3, <2>4
  <2> DEFINE D == {<<i, IF row'[i] # Nobody THEN row'[i] ELSE row[i]>> :
                     i \in {j \in Ids : row'[j] # row[j]}}
  <2>7. returned[c] \subseteq D
    BY <2>4, <2>5
  <2>8. D \subseteq returned[c]
    BY <2>5, <2>6
  <2> QED
    BY <2>2, <2>7, <2>8 DEF Exists
<1>3. IInv /\ ReportsFit /\ [Next]_vars => [Did]_vars
  BY <1>2
<1> QED
  BY <1>1, <1>3, Invariance, ReportsStep, PTL DEF Spec, ReturnsWhatItDid
=============================================================================
