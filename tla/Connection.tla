------------------------------ MODULE Connection ------------------------------
(***************************************************************************)
(* The class Database: one PostgreSQL connection, its operations and the   *)
(* flag in_transaction_ that mirrors the server's transaction state.  An   *)
(* operation is the set of its possible outcomes: whether it returned      *)
(* normally, the connection after it, and the work it made permanent.      *)
(*                                                                         *)
(* The server is external.  It is modelled by PostgreSQL's rules for the   *)
(* commands Database sends: a failed statement aborts the transaction; in  *)
(* an aborted one everything but ROLLBACK, ROLLBACK TO and COMMIT is       *)
(* refused, and COMMIT then rolls back and reports success; BEGIN inside a *)
(* transaction and ROLLBACK or COMMIT outside one only warn; a statement   *)
(* outside a transaction is permanent at once.  A connection can be lost   *)
(* in any command (it is never reset); the outcome of a COMMIT, or of a    *)
(* statement outside a transaction, that loses it is unknown.              *)
(***************************************************************************)
EXTENDS Integers, Sequences

CONSTANTS
    DeferredErrors,  \* a COMMIT may be refused (deferred constraints)
    Cancels          \* a SAVEPOINT may be refused (timeouts, cancellation)

NoMark == -1

\* srv: the server's transaction state; work: what the open transaction did;
\* mark: how much of it precedes the savepoint; flag: in_transaction_.
NewConnection == [srv |-> "idle", work |-> <<>>, mark |-> NoMark, flag |-> FALSE]

Returns(c, done) == [ok |-> TRUE, conn |-> c, done |-> done]
Throws(c, done) == [ok |-> FALSE, conn |-> c, done |-> done]

\* No transaction is open; the client's flag is the client's business.
Ended(c) == [c EXCEPT !.srv = "idle", !.work = <<>>, !.mark = NoMark]
Aborted(c) == IF c.srv = "active" THEN [c EXCEPT !.srv = "aborted"] ELSE c
Lost(c) == [Ended(c) EXCEPT !.srv = "lost"]

\* PQexec: an answer of the server, or the connection is lost.
PQexec(c, answers) ==
    IF c.srv = "lost" THEN {Throws(c, <<>>)} ELSE answers \cup {Throws(Lost(c), <<>>)}

InTransaction(c) == c.srv # "idle"
-----------------------------------------------------------------------------
(* The commands.                                                           *)

SqlBegin(c) == PQexec(c,
    IF c.srv = "aborted" THEN {Throws(c, <<>>)} ELSE {Returns([c EXCEPT !.srv = "active"], <<>>)})

SqlSavepoint(c) == PQexec(c,
    (IF c.srv = "active" THEN {Returns([c EXCEPT !.mark = Len(c.work)], <<>>)}
                         ELSE {Throws(c, <<>>)})
    \cup (IF Cancels THEN {Throws(Aborted(c), <<>>)} ELSE {}))

SqlRollback(c) == PQexec(c, {Returns(Ended(c), <<>>)})

SqlRollbackTo(c) == PQexec(c,
    IF InTransaction(c) /\ c.mark # NoMark
      THEN {Returns([c EXCEPT !.srv = "active", !.work = SubSeq(@, 1, c.mark)], <<>>)}
      ELSE {Throws(Aborted(c), <<>>)})

SqlCommit(c) == PQexec(c,
    IF c.srv = "active"
      THEN {Returns(Ended(c), c.work), Throws(Lost(c), c.work)}
           \cup (IF DeferredErrors THEN {Throws(Ended(c), <<>>)} ELSE {})
      ELSE {Returns(Ended(c), <<>>)})

\* A statement with effect w.
SqlStatement(c, w) == PQexec(c,
    CASE c.srv = "active" -> {Returns([c EXCEPT !.work = Append(@, w)], <<>>), Throws(Aborted(c), <<>>)}
      [] c.srv = "aborted" -> {Throws(c, <<>>)}
      [] c.srv = "idle" -> {Returns(c, <<w>>), Throws(c, <<>>), Throws(Lost(c), <<w>>)})
-----------------------------------------------------------------------------
(* A variant with a plausible slip: a failed statement that is not rolled  *)
(* back.                                                                   *)

NoRollback(c) == {c}
-----------------------------------------------------------------------------
(* The operations of Database.                                             *)

\* transaction(""): the flag is set before BEGIN is sent.
Transaction(c) == SqlBegin([c EXCEPT !.flag = TRUE])

\* transaction(name)
Savepoint(c) == IF c.flag THEN SqlSavepoint(c) ELSE {Throws(c, <<>>)}

\* rollback(""): the flag is cleared first.
Rollback(c) == IF c.flag THEN SqlRollback([c EXCEPT !.flag = FALSE]) ELSE {Returns(c, <<>>)}

\* rollback(name): a failure clears the flag.
RollbackTo(c) ==
    IF ~c.flag THEN {Returns(c, <<>>)}
    ELSE {IF r.ok THEN r ELSE [r EXCEPT !.conn.flag = FALSE] : r \in SqlRollbackTo(c)}

\* commit(): the flag is cleared only when COMMIT was accepted.
Commit(c) == {IF r.ok THEN [r EXCEPT !.conn.flag = FALSE] ELSE r : r \in SqlCommit(c)}

\* execute's ROLLBACK after a failed statement, whatever its result.
AfterFailure(c) ==
    IF c.flag THEN {r.conn : r \in SqlRollback([c EXCEPT !.flag = FALSE])} ELSE {c}

\* A variant with a plausible slip: the statement is sent twice.
SendsTwice(c, w) == UNION
    {IF r.ok THEN {[r EXCEPT !.done = @ \o @]} ELSE {Throws(d, r.done) : d \in AfterFailure(r.conn)}
       : r \in SqlStatement(c, w)}

\* execute(sql)
Execute(c, w) == UNION
    {IF r.ok THEN {r} ELSE {Throws(d, r.done) : d \in AfterFailure(r.conn)} : r \in SqlStatement(c, w)}

\* query(sql), queryToVector, queryMap: a failure is thrown, nothing else.
Query(c) == PQexec(c,
    IF c.srv = "aborted" THEN {Throws(c, <<>>)}
                         ELSE {Returns(c, <<>>), Throws(Aborted(c), <<>>)})
===============================================================================
