------------------------------ MODULE Migrations ------------------------------
(***************************************************************************)
(* MigrationManager over a Database connection.  A migration is a sequence *)
(* of statements (up) that is recorded in the table migrations in the same *)
(* transaction; executedMigrations caches that table.  Between any two     *)
(* statements the connection may be lost (see Connection) and the process  *)
(* may crash and be started again, which reloads the cache.                *)
(***************************************************************************)
EXTENDS Connection, FiniteSets, SequencesExt

CONSTANTS
    Chain,       \* the migrations of migrateAll, in order
    UpLength,    \* statements of a migration
    MayRollBack, \* rollback<M>() is called as well
    OtherProcess, \* a second process migrates the same database
    MaxCalls     \* bound: calls of the manager

Migs == Range(Chain)

VARIABLES
    conn,      \* the connection
    applied,   \* for each migration, its statements in force in the database
    recorded,  \* the rows of the table migrations
    cache,     \* executedMigrations
    pc,        \* the step of the call in progress, or "idle"
    mig,       \* the migration it is about
    done,      \* statements of up() already executed
    rest,      \* migrations still to run in migrateAll
    calls,     \* calls made
    undone,    \* history: migrations rollback<M>() was called for
    foreign    \* history: migrations that the other process has executed

vars == <<conn, applied, recorded, cache, pc, mig, done, rest, calls, undone, foreign>>
-----------------------------------------------------------------------------
(* Variants with a plausible slip: a cache that starts empty, a chain that *)
(* goes on after a failure.                                                *)

StartsEmpty == {}
GoesOn == rest
-----------------------------------------------------------------------------
\* The effect of permanent work on the tables.
Up(m) == [op |-> "up", mig |-> m]
Down(m) == [op |-> "down", mig |-> m]
Mark(m) == [op |-> "mark", mig |-> m]
Unmark(m) == [op |-> "unmark", mig |-> m]

\* How often the work w is among what was done.
Times(done_, w) == Cardinality({i \in DOMAIN done_ : done_[i] = w})

AppliedAfter(work) == [m \in Migs |->
    IF Times(work, Down(m)) > 0 THEN 0 ELSE applied[m] + Times(work, Up(m))]
RecordedAfter(work) ==
    {m \in Migs : Times(work, Unmark(m)) = 0 /\ (m \in recorded \/ Times(work, Mark(m)) > 0)}

\* The rows the constructor reads.
Loaded == recorded

\* executedMigrations after the INSERT of markMigrationAsExecuted.
Marked(ok) == IF ok THEN cache \cup {mig} ELSE cache

\* What migrateAll does after a migration failed: the chain stops.
AfterFailedMigration == <<>>

\* db_.commit()
CommitOf(c) == Commit(c)

Init ==
    /\ conn = NewConnection
    /\ applied = [m \in Migs |-> 0] /\ recorded = {} /\ cache = {}
    /\ pc = "idle" /\ mig = Chain[1] /\ done = 0 /\ rest = <<>> /\ calls = 0
    /\ undone = {} /\ foreign = {}

\* One database operation of the call in progress: the connection and the
\* tables change by one of its outcomes.
Does(r) ==
    /\ conn' = r.conn
    /\ applied' = AppliedAfter(r.done)
    /\ recorded' = RecordedAfter(r.done)

\* migrateAll<...>()
MigrateAll ==
    /\ pc = "idle" /\ rest = <<>> /\ calls < MaxCalls
    /\ rest' = Chain /\ calls' = calls + 1
    /\ UNCHANGED <<conn, applied, recorded, cache, pc, mig, done, undone, foreign>>

\* The next migrate<M>() of the chain; one that is in the cache is skipped.
Migrate ==
    /\ pc = "idle" /\ rest # <<>>
    /\ mig' = Head(rest) /\ rest' = Tail(rest) /\ done' = 0
    /\ pc' = IF Head(rest) \in cache THEN "idle" ELSE "begin"
    /\ UNCHANGED <<conn, applied, recorded, cache, calls, undone, foreign>>

\* rollback<M>() of a migration that is in the cache.
RollBack(m) ==
    /\ MayRollBack /\ pc = "idle" /\ rest = <<>> /\ calls < MaxCalls
    /\ m \in cache
    /\ mig' = m /\ pc' = "downBegin" /\ calls' = calls + 1
    /\ undone' = undone \cup {m}
    /\ UNCHANGED <<conn, applied, recorded, cache, done, rest, foreign>>

\* A step of the try block: on to step `good', or into the catch block `bad'.
Try(step, outcomes, good, bad) ==
    /\ pc = step
    /\ \E r \in outcomes :
          /\ Does(r)
          /\ pc' = IF r.ok THEN good ELSE bad

\* What the catch block of migrate starts with: nothing outside a transaction.
CatchOf(c) == IF c.flag THEN "undoTo" ELSE "fail"

TryMigrate(step, outcomes, good) ==
    /\ pc = step
    /\ \E r \in outcomes :
          /\ Does(r)
          /\ pc' = IF r.ok THEN good ELSE CatchOf(r.conn)

BeginUp ==
    /\ TryMigrate("begin", Transaction(conn), "savepoint")
    /\ UNCHANGED <<cache, mig, done, rest, calls, undone, foreign>>
SavepointUp ==
    /\ TryMigrate("savepoint", Savepoint(conn), "up")
    /\ UNCHANGED <<cache, mig, done, rest, calls, undone, foreign>>
ExecuteUp ==
    /\ done < UpLength
    /\ TryMigrate("up", Execute(conn, Up(mig)), "up")
    /\ done' = done + 1
    /\ UNCHANGED <<cache, mig, rest, calls, undone, foreign>>

\* markMigrationAsExecuted: the row, then the cache.
MarkExecuted ==
    /\ done = UpLength
    /\ TryMigrate("up", Execute(conn, Mark(mig)), "commit")
    /\ cache' = Marked(pc' = "commit")
    /\ UNCHANGED <<mig, done, rest, calls, undone, foreign>>
CommitUp ==
    /\ TryMigrate("commit", CommitOf(conn), "idle")
    /\ UNCHANGED <<cache, mig, done, rest, calls, undone, foreign>>

\* The catch block: back to the savepoint, then the whole transaction; their
\* exceptions are swallowed.
UndoToSavepoint ==
    /\ Try("undoTo", RollbackTo(conn), "undo", "undo")
    /\ UNCHANGED <<cache, mig, done, rest, calls, undone, foreign>>
UndoAll ==
    /\ Try("undo", Rollback(conn), "fail", "fail")
    /\ UNCHANGED <<cache, mig, done, rest, calls, undone, foreign>>

\* The exception leaves migrate and ends the chain.
MigrationFails ==
    /\ pc = "fail"
    /\ pc' = "idle" /\ rest' = AfterFailedMigration
    /\ UNCHANGED <<conn, applied, recorded, cache, mig, done, calls, undone, foreign>>

\* rollback<M>: transaction, down(), the row, commit; rollback("") on failure.
BeginDown ==
    /\ Try("downBegin", Transaction(conn), "down", "undo")
    /\ UNCHANGED <<cache, mig, done, rest, calls, undone, foreign>>
ExecuteDown ==
    /\ Try("down", Execute(conn, Down(mig)), "unmark", "undo")
    /\ UNCHANGED <<cache, mig, done, rest, calls, undone, foreign>>
UnmarkExecuted ==
    /\ Try("unmark", Execute(conn, Unmark(mig)), "downCommit", "undo")
    /\ cache' = IF pc' = "downCommit" THEN cache \ {mig} ELSE cache
    /\ UNCHANGED <<mig, done, rest, calls, undone, foreign>>
CommitDown ==
    /\ Try("downCommit", CommitOf(conn), "idle", "undo")
    /\ UNCHANGED <<cache, mig, done, rest, calls, undone, foreign>>

\* Another process, with a cache of its own, executes m and commits: nothing
\* keeps two processes apart, and the column name is not unique.
OtherMigrates(m) ==
    /\ OtherProcess /\ m \notin recorded
    /\ \A i, j \in DOMAIN Chain : Chain[j] = m /\ i < j => Chain[i] \in recorded
    /\ applied' = [applied EXCEPT ![m] = @ + UpLength]
    /\ recorded' = recorded \cup {m} /\ foreign' = foreign \cup {m}
    /\ UNCHANGED <<conn, cache, pc, mig, done, rest, calls, undone>>

\* The process crashes, or ends, and is started again: a new connection, the
\* open transaction rolled back by the server, the cache read again.
Restart ==
    /\ pc # "idle" \/ conn # NewConnection
    /\ conn' = NewConnection /\ cache' = Loaded
    /\ pc' = "idle" /\ rest' = <<>>
    /\ UNCHANGED <<applied, recorded, mig, done, calls, undone, foreign>>

Next ==
    \/ MigrateAll \/ Migrate \/ \E m \in Migs : RollBack(m)
    \/ BeginUp \/ SavepointUp \/ ExecuteUp \/ MarkExecuted \/ CommitUp
    \/ UndoToSavepoint \/ UndoAll \/ MigrationFails
    \/ BeginDown \/ ExecuteDown \/ UnmarkExecuted \/ CommitDown
    \/ Restart \/ \E m \in Migs : OtherMigrates(m)

Spec == Init /\ [][Next]_vars
-----------------------------------------------------------------------------
(* Properties.                                                             *)

\* The shape of the state.
TypeOK ==
    /\ conn.srv \in {"idle", "active", "aborted", "lost"} /\ conn.flag \in BOOLEAN
    /\ applied \in [Migs -> 0..(UpLength * MaxCalls)]
    /\ recorded \subseteq Migs /\ cache \subseteq Migs
    /\ pc \in {"idle", "begin", "savepoint", "up", "commit", "undoTo", "undo", "fail",
               "downBegin", "down", "unmark", "downCommit"}
    /\ mig \in Migs /\ done \in 0..(UpLength + 1)
    /\ \E i \in 1..(Len(Chain) + 1) : rest = SubSeq(Chain, i, Len(Chain))
    /\ calls \in 0..MaxCalls /\ undone \subseteq Migs /\ foreign \subseteq Migs

\* A migration is in force completely and once, or not at all, exactly when
\* its row is in the table, whatever failed or crashed on the way.  One that
\* another process executed after the cache was loaded is executed again, but
\* also then as a whole.
WholeOrNothing ==
    \A m \in Migs :
        /\ applied[m] > 0 <=> m \in recorded
        /\ applied[m] % UpLength = 0
        /\ m \notin foreign => applied[m] <= UpLength

\* A migration is in force only if all the migrations before it in the chain
\* are, but for those that were rolled back on request: a failure stops the
\* chain and a later run takes it up again.
InOrder ==
    \A i, j \in DOMAIN Chain :
        i < j /\ Chain[j] \in recorded => Chain[i] \in recorded \cup undone

===============================================================================
