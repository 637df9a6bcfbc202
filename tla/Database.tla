------------------------------- MODULE Database -------------------------------
(***************************************************************************)
(* A Database object used by one caller: any sequence of its operations.   *)
(* The caller numbers the statements it executes, so that a transaction's  *)
(* work can be told apart.                                                 *)
(***************************************************************************)
EXTENDS Connection, FiniteSets, SequencesExt

CONSTANT
    MaxStatements   \* bound: statements executed

VARIABLES
    conn,       \* the connection
    permanent,  \* the statements that are permanent in the database
    next,       \* number of the next statement
    last,       \* history: the last operation, what it returned, the work before it
    plain       \* history: no savepoint and no query() has been used so far

vars == <<conn, permanent, next, last, plain>>

Init ==
    /\ conn = NewConnection /\ permanent = <<>> /\ next = 1
    /\ last = [op |-> "none", ok |-> TRUE, work |-> <<>>]
    /\ plain = TRUE

\* One operation with the given outcomes.
Call(op, outcomes) ==
    \E r \in outcomes :
       /\ conn' = r.conn
       /\ permanent' = permanent \o r.done
       /\ last' = [op |-> op, ok |-> r.ok, work |-> conn.work]
       /\ plain' = (plain /\ op \notin {"savepoint", "rollbackTo", "query"})

CallTransaction == Call("transaction", Transaction(conn)) /\ UNCHANGED next
CallSavepoint == Call("savepoint", Savepoint(conn)) /\ UNCHANGED next
CallRollback == Call("rollback", Rollback(conn)) /\ UNCHANGED next
CallRollbackTo == Call("rollbackTo", RollbackTo(conn)) /\ UNCHANGED next
CallCommit == Call("commit", Commit(conn)) /\ UNCHANGED next
CallExecute ==
    /\ next <= MaxStatements
    /\ Call("execute", Execute(conn, next))
    /\ next' = next + 1
CallQuery == Call("query", Query(conn)) /\ UNCHANGED next

Next ==
    \/ CallTransaction \/ CallSavepoint \/ CallRollback \/ CallRollbackTo
    \/ CallCommit \/ CallExecute \/ CallQuery

Spec == Init /\ [][Next]_vars
-----------------------------------------------------------------------------
(* Properties.                                                             *)

\* The shape of the state.
TypeOK ==
    /\ conn.srv \in {"idle", "active", "aborted", "lost"}
    /\ conn.work \in Seq(1..MaxStatements) /\ conn.mark \in -1..MaxStatements
    /\ conn.flag \in BOOLEAN
    /\ permanent \in Seq(1..MaxStatements) /\ next \in 1..(MaxStatements + 1)
    /\ plain \in BOOLEAN

\* A Database implements a TransactionalStore: statements become permanent in
\* the order they were executed, none twice, a transaction as a whole or not
\* at all, also across rollbacks, savepoints and lost answers.
Store == INSTANCE TransactionalStore WITH committed <- permanent, pending <- conn.work
ImplementsStore == Store!Spec

\* A commit that returns normally has made the transaction's work permanent,
\* for a caller who uses neither savepoints nor query(): a failed query()
\* leaves the transaction aborted, and COMMIT then succeeds and rolls back.
CommitTellsTruth ==
    plain /\ last.op = "commit" /\ last.ok => ToSet(last.work) \subseteq ToSet(permanent)

===============================================================================
