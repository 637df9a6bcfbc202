-------------------------- MODULE PersistenceProofs --------------------------
(***************************************************************************)
(* Proofs about the users of a database connection, for every number of    *)
(* statements and whether or not the server may refuse COMMIT and          *)
(* SAVEPOINT.                                                              *)
(***************************************************************************)
EXTENDS Persistence, FiniteSets, SequenceTheorems, FiniteSetTheorems, TLAPS

-----------------------------------------------------------------------------
(* What the operations of a connection do to it.                           *)

\* A connection; without a transaction there is no work, and a savepoint is
\* within the work.
Clean(W, c) ==
    /\ DOMAIN c = {"srv", "work", "mark", "flag"}
    /\ c.srv \in {"idle", "active", "aborted", "lost"} /\ c.flag \in BOOLEAN
    /\ c.work \in Seq(W) /\ c.mark \in Int
    /\ c.srv \in {"idle", "lost"} => c.work = <<>>
    /\ -1 <= c.mark /\ c.mark <= Len(c.work)

\* The client knows that a transaction is open, and none is aborted.
Honest(c) == c.srv # "aborted" /\ (c.srv = "active" => c.flag)

\* Nothing becomes permanent, and of the work at most a last part is lost.
Kept(c, r) ==
    /\ r.done = <<>>
    /\ \/ r.conn.work = c.work
       \/ r.conn.work = <<>>
       \/ c.mark \in 0..Len(c.work) /\ r.conn.work = SubSeq(c.work, 1, c.mark)

\* The ways in which a transaction ends.
LEMMA Endings ==
    ASSUME NEW W, NEW c, Clean(W, c)
    PROVE  /\ Clean(W, Ended(c)) /\ Ended(c).work = <<>>
           /\ Ended(c).srv = "idle" /\ Ended(c).flag = c.flag
           /\ Clean(W, Lost(c)) /\ Lost(c).work = <<>>
           /\ Lost(c).srv = "lost" /\ Lost(c).flag = c.flag
           /\ Clean(W, Aborted(c)) /\ Aborted(c).work = c.work
           /\ Aborted(c).flag = c.flag /\ Aborted(c).srv # "active"
           /\ c.srv # "active" => Aborted(c) = c
<1>1. /\ Clean(W, Ended(c)) /\ Ended(c).work = <<>>
      /\ Ended(c).srv = "idle" /\ Ended(c).flag = c.flag
  BY DEF Clean, Ended, NoMark
<1>2. /\ Clean(W, Lost(c)) /\ Lost(c).work = <<>>
      /\ Lost(c).srv = "lost" /\ Lost(c).flag = c.flag
  BY <1>1 DEF Clean, Lost
<1>3. CASE c.srv = "active"
  <2>1. Aborted(c) = [c EXCEPT !.srv = "aborted"]
    BY <1>3 DEF Aborted
  <2>2. /\ Clean(W, Aborted(c)) /\ Aborted(c).work = c.work
        /\ Aborted(c).flag = c.flag /\ Aborted(c).srv # "active"
    BY <2>1 DEF Clean
  <2> QED BY <1>1, <1>2, <1>3, <2>2 DEF Clean
<1>4. CASE c.srv # "active"
  BY <1>1, <1>2, <1>4 DEF Clean, Aborted
<1> QED BY <1>3, <1>4

\* A changed flag leaves a connection clean.
LEMMA Flags ==
    ASSUME NEW W, NEW c, Clean(W, c), NEW b \in BOOLEAN
    PROVE  /\ Clean(W, [c EXCEPT !.flag = b])
           /\ [c EXCEPT !.flag = b].work = c.work /\ [c EXCEPT !.flag = b].srv = c.srv
           /\ [c EXCEPT !.flag = b].mark = c.mark /\ [c EXCEPT !.flag = b].flag = b
BY DEF Clean

\* The parts of an outcome.
LEMMA Parts ==
    \A c, d : /\ Returns(c, d).ok = TRUE /\ Throws(c, d).ok = FALSE
              /\ Returns(c, d).conn = c /\ Throws(c, d).conn = c
              /\ Returns(c, d).done = d /\ Throws(c, d).done = d
BY DEF Returns, Throws

\* transaction(""): afterwards the client knows of the transaction.
LEMMA TransactionDoes ==
    ASSUME NEW W, NEW c, Clean(W, c), NEW r \in Transaction(c)
    PROVE  Clean(W, r.conn) /\ Kept(c, r) /\ (Honest(c) => Honest(r.conn))
<1> DEFINE e == [c EXCEPT !.flag = TRUE]
<1>1. /\ Clean(W, e) /\ e.work = c.work /\ e.srv = c.srv /\ e.mark = c.mark /\ e.flag = TRUE
  BY Flags
<1> HIDE DEF e
<1>2. r \in SqlBegin(e)
  BY DEF Transaction, e
<1>3. CASE r = Throws(Lost(e), <<>>)
  <2>1. Clean(W, Lost(e)) /\ Lost(e).work = <<>> /\ Lost(e).srv = "lost"
    BY <1>1, Endings
  <2>2. r.conn = Lost(e) /\ r.done = <<>>
    BY <1>3, Parts
  <2> QED BY <2>1, <2>2 DEF Kept, Honest
<1>4. CASE r = Throws(e, <<>>)
  BY <1>1, <1>4, Parts DEF Kept, Honest
<1>5. CASE e.srv \notin {"aborted", "lost"} /\ r = Returns([e EXCEPT !.srv = "active"], <<>>)
  <2>1. /\ Clean(W, [e EXCEPT !.srv = "active"]) /\ [e EXCEPT !.srv = "active"].work = e.work
        /\ [e EXCEPT !.srv = "active"].flag = TRUE /\ [e EXCEPT !.srv = "active"].srv = "active"
    BY <1>1, <1>5 DEF Clean
  <2>2. r.conn = [e EXCEPT !.srv = "active"] /\ r.done = <<>>
    BY <1>5, Parts
  <2> QED BY <1>1, <2>1, <2>2 DEF Kept, Honest
<1>6. \/ r = Throws(Lost(e), <<>>)
      \/ r = Throws(e, <<>>)
      \/ e.srv \notin {"aborted", "lost"} /\ r = Returns([e EXCEPT !.srv = "active"], <<>>)
  BY <1>2 DEF SqlBegin, PQexec
<1> QED
  BY <1>3, <1>4, <1>5, <1>6

\* transaction(name)
LEMMA SavepointDoes ==
    ASSUME NEW W, NEW c, Clean(W, c), NEW r \in Savepoint(c)
    PROVE  Clean(W, r.conn) /\ Kept(c, r)
<1>1. \/ r = Throws(c, <<>>)
      \/ r = Throws(Lost(c), <<>>)
      \/ r = Throws(Aborted(c), <<>>)
      \/ c.srv = "active" /\ r = Returns([c EXCEPT !.mark = Len(c.work)], <<>>)
  BY DEF Savepoint, SqlSavepoint, PQexec
<1>2. CASE r = Throws(c, <<>>)
  BY <1>2, Parts DEF Kept
<1>3. CASE r = Throws(Lost(c), <<>>)
  <2>1. Clean(W, Lost(c)) /\ Lost(c).work = <<>>
    BY Endings
  <2>2. r.conn = Lost(c) /\ r.done = <<>>
    BY <1>3, Parts
  <2> QED BY <2>1, <2>2 DEF Kept
<1>4. CASE r = Throws(Aborted(c), <<>>)
  BY <1>4, Parts, Endings DEF Kept
<1>5. CASE c.srv = "active" /\ r = Returns([c EXCEPT !.mark = Len(c.work)], <<>>)
  <2>1. r.conn = [c EXCEPT !.mark = Len(c.work)] /\ r.done = <<>>
    BY <1>5, Parts
  <2> QED BY <2>1, <1>5 DEF Kept, Clean
<1> QED BY <1>1, <1>2, <1>3, <1>4, <1>5

\* What the command ROLLBACK leaves of any connection.
LEMMA SqlRollbackDoes ==
    ASSUME NEW W, NEW c, Clean(W, c), NEW r \in SqlRollback(c)
    PROVE  /\ Clean(W, r.conn) /\ r.conn.work = <<>> /\ r.done = <<>>
           /\ r.conn.srv \in {"idle", "lost"} /\ r.conn.flag = c.flag
           /\ c.srv = "lost" => r.conn.srv = "lost"
<1>1. \/ c.srv = "lost" /\ r = Throws(c, <<>>)
      \/ r = Throws(Lost(c), <<>>)
      \/ c.srv # "lost" /\ r = Returns(Ended(c), <<>>)
  BY DEF SqlRollback, PQexec
<1>2. CASE c.srv = "lost" /\ r = Throws(c, <<>>)
  BY <1>2, Parts DEF Clean
<1>3. CASE r = Throws(Lost(c), <<>>)
  BY <1>3, Parts, Endings
<1>4. CASE c.srv # "lost" /\ r = Returns(Ended(c), <<>>)
  BY <1>4, Parts, Endings
<1> QED BY <1>1, <1>2, <1>3, <1>4

\* rollback("")
LEMMA RollbackDoes ==
    ASSUME NEW W, NEW c, Clean(W, c), NEW r \in Rollback(c)
    PROVE  Clean(W, r.conn) /\ Kept(c, r) /\ (Honest(c) => Honest(r.conn))
<1>1. CASE c.flag
  <2>1. r \in SqlRollback([c EXCEPT !.flag = FALSE])
    BY <1>1 DEF Rollback
  <2>2. Clean(W, [c EXCEPT !.flag = FALSE])
    BY Flags
  <2>3. /\ Clean(W, r.conn) /\ r.conn.work = <<>> /\ r.done = <<>>
        /\ r.conn.srv \in {"idle", "lost"}
    BY <2>1, <2>2, SqlRollbackDoes
  <2> QED BY <2>3 DEF Kept, Honest
<1>2. CASE ~c.flag
  BY <1>2, Parts DEF Rollback, Kept
<1> QED BY <1>1, <1>2

\* rollback(name): back to the savepoint, or the transaction is aborted.
LEMMA RollbackToDoes ==
    ASSUME NEW W, NEW c, Clean(W, c), NEW r \in RollbackTo(c)
    PROVE  Clean(W, r.conn) /\ Kept(c, r)
<1>1. CASE ~c.flag
  BY <1>1, Parts DEF RollbackTo, Kept
<1>2. CASE c.flag
  <2>1. PICK q \in SqlRollbackTo(c) :
           r = IF q.ok THEN q ELSE [q EXCEPT !.conn.flag = FALSE]
    BY <1>2 DEF RollbackTo
  <2>2. \/ q = Throws(c, <<>>)
        \/ q = Throws(Lost(c), <<>>)
        \/ q = Throws(Aborted(c), <<>>)
        \/ /\ c.srv \notin {"idle", "lost"} /\ c.mark # -1
           /\ q = Returns([c EXCEPT !.srv = "active", !.work = SubSeq(@, 1, c.mark)], <<>>)
    <3>1. CASE c.srv = "lost"
      BY <3>1 DEF SqlRollbackTo, PQexec
    <3>2. CASE c.srv # "lost" /\ InTransaction(c) /\ c.mark # NoMark
      BY <3>2 DEF SqlRollbackTo, PQexec, InTransaction, NoMark
    <3>3. CASE c.srv # "lost" /\ ~(InTransaction(c) /\ c.mark # NoMark)
      BY <3>3 DEF SqlRollbackTo, PQexec
    <3> QED BY <3>1, <3>2, <3>3
  <2>3. ASSUME NEW d, Clean(W, d), q = Throws(d, <<>>), d.work = c.work \/ d.work = <<>>
        PROVE  Clean(W, r.conn) /\ Kept(c, r)
    <3>1. r.conn = [d EXCEPT !.flag = FALSE] /\ r.done = <<>>
      <4>1. q = [ok |-> FALSE, conn |-> d, done |-> <<>>]
        BY <2>3 DEF Throws
      <4>2. r = [q EXCEPT !.conn.flag = FALSE]
        BY <2>1, <4>1
      <4>3. q.conn = d /\ q.done = <<>> /\ DOMAIN q = {"ok", "conn", "done"}
        BY <4>1
      <4>4. r.conn = [q.conn EXCEPT !.flag = FALSE] /\ r.done = q.done
        BY <4>2, <4>3
      <4> QED BY <4>3, <4>4
    <3>2. Clean(W, r.conn) /\ r.conn.work = d.work
      <4>1. Clean(W, d)
        BY <2>3
      <4>2. Clean(W, [d EXCEPT !.flag = FALSE]) /\ [d EXCEPT !.flag = FALSE].work = d.work
        BY <4>1 DEF Clean
      <4> QED BY <3>1, <4>2
    <3> QED BY <2>3, <3>1, <3>2 DEF Kept
  <2>4. CASE /\ c.srv \notin {"idle", "lost"} /\ c.mark # -1
             /\ q = Returns([c EXCEPT !.srv = "active", !.work = SubSeq(@, 1, c.mark)], <<>>)
    <3>1. /\ r.conn = [c EXCEPT !.srv = "active", !.work = SubSeq(c.work, 1, c.mark)]
          /\ r.done = <<>>
      BY <2>1, <2>4, Parts
    <3>2. c.mark \in 0..Len(c.work)
      BY <2>4 DEF Clean
    <3>3. SubSeq(c.work, 1, c.mark) \in Seq(W) /\ Len(SubSeq(c.work, 1, c.mark)) = c.mark
      BY <3>2 DEF Clean
    <3> QED BY <3>1, <3>2, <3>3 DEF Kept, Clean
  <2> QED BY <2>2, <2>3, <2>4, Endings
<1> QED BY <1>1, <1>2

\* commit(): all of the work becomes permanent, or none; the former if commit
\* returns on an honest connection.
LEMMA CommitDoes ==
    ASSUME NEW W, NEW c, Clean(W, c), NEW r \in Commit(c)
    PROVE  /\ Clean(W, r.conn) /\ r.conn.work = <<>> /\ r.done \in {<<>>, c.work}
           /\ Honest(c) => Honest(r.conn) /\ (r.ok => r.done = c.work)
<1>1. PICK q \in SqlCommit(c) :
         r = IF q.ok THEN [q EXCEPT !.conn.flag = FALSE] ELSE q
  BY DEF Commit
<1>2. \/ c.srv = "lost" /\ q = Throws(c, <<>>)
      \/ q = Throws(Lost(c), <<>>)
      \/ q = Throws(Lost(c), c.work)
      \/ q = Throws(Ended(c), <<>>)
      \/ q = Returns(Ended(c), c.work)
      \/ c.srv \in {"idle", "aborted"} /\ q = Returns(Ended(c), <<>>)
  BY DEF SqlCommit, PQexec, Clean
<1>3. ASSUME NEW d, NEW w, q = Throws(d, w), Clean(W, d), d.work = <<>>,
             d.srv \in {"idle", "lost"}, w \in {<<>>, c.work}
      PROVE  /\ Clean(W, r.conn) /\ r.conn.work = <<>> /\ r.done \in {<<>>, c.work}
             /\ Honest(c) => Honest(r.conn) /\ (r.ok => r.done = c.work)
  <2>1. r.ok = FALSE /\ r.conn = d /\ r.done = w
    BY <1>1, <1>3, Parts
  <2> QED BY <2>1, <1>3 DEF Honest
<1>4. ASSUME NEW w, q = Returns(Ended(c), w), w \in {<<>>, c.work},
             Honest(c) => w = c.work
      PROVE  /\ Clean(W, r.conn) /\ r.conn.work = <<>> /\ r.done \in {<<>>, c.work}
             /\ Honest(c) => Honest(r.conn) /\ (r.ok => r.done = c.work)
  <2>1. r.conn = [Ended(c) EXCEPT !.flag = FALSE] /\ r.done = w
    BY <1>1, <1>4 DEF Returns
  <2>2. Clean(W, r.conn) /\ r.conn.work = <<>> /\ r.conn.srv = "idle"
    <3> DEFINE d == Ended(c)
    <3>1. Clean(W, d) /\ d.work = <<>> /\ d.srv = "idle"
      BY Endings
    <3> HIDE DEF d
    <3>2. /\ Clean(W, [d EXCEPT !.flag = FALSE]) /\ [d EXCEPT !.flag = FALSE].work = d.work
          /\ [d EXCEPT !.flag = FALSE].srv = d.srv
      BY <3>1, Flags
    <3> QED BY <2>1, <3>1, <3>2 DEF d
  <2> QED BY <2>1, <2>2, <1>4 DEF Honest
<1>5. CASE c.srv = "lost" /\ q = Throws(c, <<>>)
  BY <1>3, <1>5 DEF Clean
<1>6. CASE c.srv \in {"idle", "aborted"} /\ q = Returns(Ended(c), <<>>)
  BY <1>4, <1>6 DEF Clean, Honest
<1>7. CASE q = Throws(Lost(c), <<>>) \/ q = Throws(Lost(c), c.work)
  BY <1>3, <1>7, Endings
<1>8. CASE q = Throws(Ended(c), <<>>)
  BY <1>3, <1>8, Endings
<1>9. CASE q = Returns(Ended(c), c.work)
  BY <1>4, <1>9
<1> QED BY <1>2, <1>5, <1>6, <1>7, <1>8, <1>9

\* The ROLLBACK after a failed statement.
LEMMA AfterFailureDoes ==
    ASSUME NEW W, NEW c, Clean(W, c), NEW d \in AfterFailure(c)
    PROVE  /\ Clean(W, d) /\ d.work \in {<<>>, c.work}
           /\ c.flag => d.srv \in {"idle", "lost"}
           /\ ~c.flag => d = c
<1>1. CASE c.flag
  <2>1. PICK r \in SqlRollback([c EXCEPT !.flag = FALSE]) : d = r.conn
    BY <1>1 DEF AfterFailure
  <2>2. Clean(W, [c EXCEPT !.flag = FALSE])
    BY Flags
  <2>3. Clean(W, r.conn) /\ r.conn.work = <<>> /\ r.conn.srv \in {"idle", "lost"}
    BY <2>1, <2>2, SqlRollbackDoes
  <2> QED BY <1>1, <2>1, <2>3
<1>2. CASE ~c.flag
  BY <1>2 DEF AfterFailure
<1> QED BY <1>1, <1>2

\* execute(sql) with effect w: it is added to the work of the transaction, is
\* permanent at once outside one, or has no effect; on an honest connection
\* a failure leaves no transaction.
LEMMA ExecuteDoes ==
    ASSUME NEW W, NEW c, Clean(W, c), NEW w \in W, NEW r \in Execute(c, w)
    PROVE  /\ Clean(W, r.conn) /\ (Honest(c) => Honest(r.conn))
           /\ \/ r.done = <<>> /\ r.conn.work \in {<<>>, c.work}
              \/ r.done = <<>> /\ r.conn.work = Append(c.work, w)
              \/ c.work = <<>> /\ r.done = <<w>> /\ r.conn.work = <<>>
<1> DEFINE G == /\ Clean(W, r.conn) /\ (Honest(c) => Honest(r.conn))
                /\ \/ r.done = <<>> /\ r.conn.work \in {<<>>, c.work}
                   \/ r.done = <<>> /\ r.conn.work = Append(c.work, w)
                   \/ c.work = <<>> /\ r.done = <<w>> /\ r.conn.work = <<>>
<1>1. PICK q \in SqlStatement(c, w) :
         r \in IF q.ok THEN {q}
               ELSE {Throws(d, q.done) : d \in AfterFailure(q.conn)}
  BY DEF Execute
<1>2. \/ c.srv = "lost" /\ q = Throws(c, <<>>)
      \/ q = Throws(Lost(c), <<>>)
      \/ c.srv = "active" /\ q = Returns([c EXCEPT !.work = Append(@, w)], <<>>)
      \/ c.srv = "active" /\ q = Throws(Aborted(c), <<>>)
      \/ c.srv \in {"aborted", "idle"} /\ q = Throws(c, <<>>)
      \/ c.srv = "idle" /\ q = Returns(c, <<w>>)
      \/ c.srv = "idle" /\ q = Throws(Lost(c), <<w>>)
  BY DEF SqlStatement, PQexec, Clean
<1>3. CASE c.srv = "active" /\ q = Returns([c EXCEPT !.work = Append(@, w)], <<>>)
  <2>1. r.conn = [c EXCEPT !.work = Append(c.work, w)] /\ r.done = <<>>
    BY <1>1, <1>3, Parts
  <2>2. Append(c.work, w) \in Seq(W) /\ Len(Append(c.work, w)) = Len(c.work) + 1
        /\ Len(c.work) \in Nat
    BY DEF Clean
  <2> QED BY <2>1, <2>2, <1>3 DEF Clean, Honest
<1>4. CASE c.srv = "idle" /\ q = Returns(c, <<w>>)
  <2>1. r.conn = c /\ r.done = <<w>>
    BY <1>1, <1>4, Parts
  <2> QED BY <2>1, <1>4 DEF Clean
<1>5. ASSUME NEW b, NEW e, q = Throws(b, e), Clean(W, b), b.flag = c.flag,
             b.work \in {<<>>, c.work}, e \in {<<>>, <<w>>},
             e = <<w>> => c.work = <<>>,
             Honest(c) => (b.srv \in {"idle", "lost"} \/ c.flag)
      PROVE  G
  <2>1. PICK d \in AfterFailure(b) : r = Throws(d, e)
    BY <1>1, <1>5, Parts
  <2>2. r.conn = d /\ r.done = e
    BY <2>1, Parts
  <2>3. /\ Clean(W, d) /\ d.work \in {<<>>, b.work}
        /\ b.flag => d.srv \in {"idle", "lost"}
        /\ ~b.flag => d = b
    BY <1>5, AfterFailureDoes
  <2>4. Honest(c) => Honest(d)
    BY <1>5, <2>3 DEF Honest
  <2> QED BY <1>5, <2>2, <2>3, <2>4
<1>6. CASE c.srv = "lost" /\ q = Throws(c, <<>>)
  BY <1>5, <1>6
<1>7. CASE q = Throws(Lost(c), <<>>)
  BY <1>5, <1>7, Endings
<1>8. CASE c.srv = "active" /\ q = Throws(Aborted(c), <<>>)
  <2>1. Honest(c) => c.flag
    BY <1>8 DEF Honest
  <2> QED BY <1>5, <1>8, <2>1, Endings
<1>9. CASE c.srv \in {"aborted", "idle"} /\ q = Throws(c, <<>>)
  <2>1. Honest(c) => c.srv = "idle"
    BY <1>9 DEF Honest
  <2> QED BY <1>5, <1>9, <2>1
<1>10. CASE c.srv = "idle" /\ q = Throws(Lost(c), <<w>>)
  <2>1. c.work = <<>>
    BY <1>10 DEF Clean
  <2> QED BY <1>5, <1>10, <2>1, Endings
<1> QED BY <1>2, <1>3, <1>4, <1>6, <1>7, <1>8, <1>9, <1>10

\* query(sql)
LEMMA QueryDoes ==
    ASSUME NEW W, NEW c, Clean(W, c), NEW r \in Query(c)
    PROVE  Clean(W, r.conn) /\ Kept(c, r)
<1>1. \/ r = Throws(c, <<>>) \/ r = Returns(c, <<>>)
      \/ r = Throws(Lost(c), <<>>)
      \/ r = Throws(Aborted(c), <<>>)
  BY DEF Query, PQexec
<1>2. CASE r = Throws(c, <<>>) \/ r = Returns(c, <<>>)
  BY <1>2, Parts DEF Kept
<1>3. CASE r = Throws(Lost(c), <<>>)
  <2>1. Clean(W, Lost(c)) /\ Lost(c).work = <<>>
    BY Endings
  <2>2. r.conn = Lost(c) /\ r.done = <<>>
    BY <1>3, Parts
  <2> QED BY <2>1, <2>2 DEF Kept
<1>4. CASE r = Throws(Aborted(c), <<>>)
  BY <1>4, Parts, Endings DEF Kept
<1> QED BY <1>1, <1>2, <1>3, <1>4
-----------------------------------------------------------------------------
(* The operations as migrate<M>() and rollback<M>() use them.              *)

\* transaction("") without a transaction of its own: it is open, or refused.
LEMMA BeginOutcome ==
    ASSUME NEW W, NEW c, Clean(W, c), c.work = <<>>, c.srv # "active", NEW r \in Transaction(c)
    PROVE  /\ Clean(W, r.conn) /\ r.done = <<>> /\ r.conn.work = <<>> /\ r.conn.flag = TRUE
           /\ r.ok \in BOOLEAN /\ (r.ok <=> r.conn.srv = "active")
           /\ c.srv = "lost" => r.conn.srv = "lost"
<1> DEFINE e == [c EXCEPT !.flag = TRUE]
           b == [e EXCEPT !.srv = "active"]
<1>1. /\ Clean(W, e) /\ e.work = c.work /\ e.srv = c.srv /\ e.flag = TRUE
  BY Flags
<1>2. /\ e.srv # "lost" => Clean(W, b)
      /\ b.work = e.work /\ b.flag = TRUE /\ b.srv = "active"
  BY <1>1 DEF Clean
<1>3. /\ Clean(W, Lost(e)) /\ Lost(e).work = <<>> /\ Lost(e).srv = "lost" /\ Lost(e).flag = TRUE
  <2> HIDE DEF e
  <2>1. /\ Clean(W, Lost(e)) /\ Lost(e).work = <<>> /\ Lost(e).srv = "lost"
        /\ Lost(e).flag = e.flag
    BY <1>1, Endings
  <2> QED BY <1>1, <2>1
<1>4. \/ r = Throws(Lost(e), <<>>)
      \/ r = Throws(e, <<>>)
      \/ e.srv # "lost" /\ r = Returns(b, <<>>)
  BY DEF Transaction, SqlBegin, PQexec
<1> HIDE DEF e, b
<1>5. CASE r = Throws(Lost(e), <<>>)
  <2>1. r.ok = FALSE /\ r.conn = Lost(e) /\ r.done = <<>> BY <1>5, Parts
  <2> QED BY <2>1, <1>3
<1>6. CASE r = Throws(e, <<>>)
  <2>1. r.ok = FALSE /\ r.conn = e /\ r.done = <<>> BY <1>6, Parts
  <2> QED BY <2>1, <1>1
<1>7. CASE e.srv # "lost" /\ r = Returns(b, <<>>)
  <2>1. r.ok = TRUE /\ r.conn = b /\ r.done = <<>> BY <1>7, Parts
  <2> QED BY <2>1, <1>1, <1>2, <1>7
<1> QED BY <1>4, <1>5, <1>6, <1>7

\* transaction(name) at the start of a transaction.
LEMMA SavepointOutcome ==
    ASSUME NEW W, NEW c, Clean(W, c), c.work = <<>>, c.srv = "active", c.flag,
           NEW r \in Savepoint(c)
    PROVE  /\ Clean(W, r.conn) /\ r.done = <<>> /\ r.conn.work = <<>> /\ r.conn.flag
           /\ r.ok \in BOOLEAN /\ (r.ok <=> r.conn.srv = "active")
<1> DEFINE b == [c EXCEPT !.mark = Len(c.work)]
<1>1. Clean(W, b) /\ b.work = c.work /\ b.flag = c.flag /\ b.srv = c.srv
  <2>1. Len(c.work) \in Nat
    BY DEF Clean
  <2>2. /\ DOMAIN b = DOMAIN c /\ b.work = c.work /\ b.flag = c.flag /\ b.srv = c.srv
        /\ b.mark = Len(c.work)
    BY DEF Clean
  <2> HIDE DEF b
  <2> QED BY <2>1, <2>2 DEF Clean
<1>2. \/ r = Throws(Lost(c), <<>>) \/ r = Throws(Aborted(c), <<>>) \/ r = Returns(b, <<>>)
  BY DEF Savepoint, SqlSavepoint, PQexec
<1> HIDE DEF b
<1>3. CASE r = Throws(Lost(c), <<>>)
  <2>1. r.ok = FALSE /\ r.conn = Lost(c) /\ r.done = <<>> BY <1>3, Parts
  <2>2. /\ Clean(W, Lost(c)) /\ Lost(c).work = <<>> /\ Lost(c).srv = "lost"
        /\ Lost(c).flag = c.flag
    BY Endings
  <2> QED BY <2>1, <2>2
<1>4. CASE r = Throws(Aborted(c), <<>>)
  <2>1. r.ok = FALSE /\ r.conn = Aborted(c) /\ r.done = <<>> BY <1>4, Parts
  <2>2. /\ Clean(W, Aborted(c)) /\ Aborted(c).work = c.work /\ Aborted(c).srv # "active"
        /\ Aborted(c).flag = c.flag
    BY Endings
  <2> QED BY <2>1, <2>2
<1>5. CASE r = Returns(b, <<>>)
  <2>1. r.ok = TRUE /\ r.conn = b /\ r.done = <<>> BY <1>5, Parts
  <2> QED BY <2>1, <1>1
<1> QED BY <1>2, <1>3, <1>4, <1>5

\* execute(sql) in a transaction the client knows of: it is added to the work,
\* or the transaction is rolled back.
LEMMA ExecuteOutcome ==
    ASSUME NEW W, NEW c, Clean(W, c), c.srv = "active", c.flag, NEW w \in W,
           NEW r \in Execute(c, w)
    PROVE  /\ Clean(W, r.conn) /\ r.done = <<>> /\ r.ok \in BOOLEAN
           /\ r.ok => /\ r.conn.srv = "active" /\ r.conn.flag
                      /\ r.conn.work = Append(c.work, w)
           /\ ~r.ok => /\ r.conn.srv \in {"idle", "lost"} /\ ~r.conn.flag
                       /\ r.conn.work = <<>>
<1> DEFINE b == [c EXCEPT !.work = Append(c.work, w)]
<1>1. PICK q \in SqlStatement(c, w) :
         r \in IF q.ok THEN {q} ELSE {Throws(d, q.done) : d \in AfterFailure(q.conn)}
  BY DEF Execute
<1>2. \/ q = Throws(Lost(c), <<>>) \/ q = Throws(Aborted(c), <<>>) \/ q = Returns(b, <<>>)
  BY DEF SqlStatement, PQexec
<1>3. /\ Clean(W, b) /\ b.work = Append(c.work, w) /\ b.srv = "active" /\ b.flag
  <2>1. Append(c.work, w) \in Seq(W) /\ Len(Append(c.work, w)) = Len(c.work) + 1
        /\ Len(c.work) \in Nat
    BY DEF Clean
  <2>2. /\ DOMAIN b = DOMAIN c /\ b.work = Append(c.work, w) /\ b.flag = c.flag
        /\ b.srv = c.srv /\ b.mark = c.mark
    BY DEF Clean
  <2> HIDE DEF b
  <2> QED BY <2>1, <2>2 DEF Clean
<1> HIDE DEF b
<1>4. CASE q = Returns(b, <<>>)
  <2>1. r.ok = TRUE /\ r.conn = b /\ r.done = <<>> BY <1>1, <1>4, Parts
  <2> QED BY <2>1, <1>3
<1>5. ASSUME NEW e, Clean(W, e), e.flag = c.flag, q = Throws(e, <<>>)
      PROVE  /\ Clean(W, r.conn) /\ r.done = <<>> /\ r.ok = FALSE
             /\ r.conn.srv \in {"idle", "lost"} /\ ~r.conn.flag /\ r.conn.work = <<>>
  <2>1. PICK d \in AfterFailure(e) : r = Throws(d, <<>>)
    BY <1>1, <1>5, Parts
  <2> DEFINE g == [e EXCEPT !.flag = FALSE]
  <2>2. PICK p \in SqlRollback(g) : d = p.conn
    BY <1>5 DEF AfterFailure
  <2>3. Clean(W, g) /\ g.flag = FALSE
    BY <1>5, Flags
  <2> HIDE DEF g
  <2>4. Clean(W, d) /\ d.work = <<>> /\ d.srv \in {"idle", "lost"} /\ d.flag = FALSE
    <3>1. /\ Clean(W, p.conn) /\ p.conn.work = <<>> /\ p.conn.srv \in {"idle", "lost"}
          /\ p.conn.flag = g.flag
      BY <2>2, <2>3, SqlRollbackDoes
    <3> QED BY <2>2, <2>3, <3>1
  <2>5. r.ok = FALSE /\ r.conn = d /\ r.done = <<>>
    BY <2>1, Parts
  <2> QED BY <2>4, <2>5
<1>6. CASE q = Throws(Lost(c), <<>>)
  <2>1. Clean(W, Lost(c)) /\ Lost(c).flag = c.flag BY Endings
  <2> QED BY <1>5, <1>6, <2>1
<1>7. CASE q = Throws(Aborted(c), <<>>)
  <2>1. Clean(W, Aborted(c)) /\ Aborted(c).flag = c.flag BY Endings
  <2> QED BY <1>5, <1>7, <2>1
<1> QED BY <1>2, <1>3, <1>4, <1>6, <1>7

\* commit() by a server that refuses no COMMIT: it is done, or the connection
\* is lost and nobody knows.
LEMMA CommitOutcome ==
    ASSUME ~DeferredErrors, NEW W, NEW c, Clean(W, c), c.srv = "active", c.flag,
           NEW r \in Commit(c)
    PROVE  /\ Clean(W, r.conn) /\ r.conn.work = <<>> /\ r.ok \in BOOLEAN
           /\ r.ok => r.done = c.work /\ r.conn.srv = "idle" /\ ~r.conn.flag
           /\ ~r.ok => r.done \in {<<>>, c.work} /\ r.conn.srv = "lost" /\ r.conn.flag
<1> DEFINE e == Ended(c)
           f == [e EXCEPT !.flag = FALSE]
<1>1. Clean(W, e) /\ e.work = <<>> /\ e.srv = "idle"
  BY Endings
<1>2. PICK q \in SqlCommit(c) : r = IF q.ok THEN [q EXCEPT !.conn.flag = FALSE] ELSE q
  BY DEF Commit
<1>3. \/ q = Throws(Lost(c), <<>>) \/ q = Throws(Lost(c), c.work) \/ q = Returns(e, c.work)
  BY DEF SqlCommit, PQexec
<1> HIDE DEF e
<1>4. Clean(W, f) /\ f.work = <<>> /\ f.srv = "idle" /\ f.flag = FALSE
  BY <1>1, Flags
<1>5. CASE q = Returns(e, c.work)
  <2>1. r.ok = TRUE /\ r.conn = f /\ r.done = c.work
    BY <1>2, <1>5 DEF Returns
  <2> QED BY <2>1, <1>4
<1>6. CASE q = Throws(Lost(c), <<>>) \/ q = Throws(Lost(c), c.work)
  <2>1. r.ok = FALSE /\ r.conn = Lost(c) /\ r.done \in {<<>>, c.work}
    BY <1>2, <1>6, Parts
  <2>2. /\ Clean(W, Lost(c)) /\ Lost(c).work = <<>> /\ Lost(c).srv = "lost"
        /\ Lost(c).flag = c.flag
    BY Endings
  <2> QED BY <2>1, <2>2
<1> QED BY <1>3, <1>5, <1>6

\* rollback(name) when the transaction has done nothing.
LEMMA UndoToOutcome ==
    ASSUME NEW W, NEW c, Clean(W, c), c.work = <<>>, c.srv # "active", NEW r \in RollbackTo(c)
    PROVE  /\ Clean(W, r.conn) /\ r.done = <<>> /\ r.conn.work = <<>>
           /\ r.conn.srv = "active" => r.conn.flag
           /\ c.srv = "lost" => r.conn.srv = "lost"
<1>1. CASE ~c.flag
  <2>1. r = Returns(c, <<>>) BY <1>1 DEF RollbackTo
  <2>2. r.conn = c /\ r.done = <<>> BY <2>1, Parts
  <2> QED BY <2>2
<1>2. CASE c.flag
  <2> DEFINE b == [c EXCEPT !.srv = "active", !.work = SubSeq(@, 1, c.mark)]
  <2>1. PICK q \in SqlRollbackTo(c) : r = IF q.ok THEN q ELSE [q EXCEPT !.conn.flag = FALSE]
    BY <1>2 DEF RollbackTo
  <2>2. \/ q = Throws(c, <<>>) \/ q = Throws(Lost(c), <<>>)
        \/ c.srv # "lost" /\ c.mark # -1 /\ q = Returns(b, <<>>)
    BY DEF SqlRollbackTo, PQexec, InTransaction, NoMark, Aborted
  <2>3. ASSUME NEW d, Clean(W, d), d.work = <<>>, d.srv # "active", q = Throws(d, <<>>),
               c.srv = "lost" => d.srv = "lost"
        PROVE  /\ Clean(W, r.conn) /\ r.done = <<>> /\ r.conn.work = <<>>
               /\ r.conn.srv # "active"
               /\ c.srv = "lost" => r.conn.srv = "lost"
    <3>1. r.conn = [d EXCEPT !.flag = FALSE] /\ r.done = <<>>
      BY <2>1, <2>3 DEF Throws
    <3>2. /\ Clean(W, [d EXCEPT !.flag = FALSE])
          /\ [d EXCEPT !.flag = FALSE].work = d.work /\ [d EXCEPT !.flag = FALSE].srv = d.srv
      BY <2>3, Flags
    <3> QED BY <3>1, <3>2, <2>3
  <2>4. CASE q = Throws(c, <<>>)
    BY <2>3, <2>4
  <2>5. CASE q = Throws(Lost(c), <<>>)
    <3>1. Clean(W, Lost(c)) /\ Lost(c).work = <<>> /\ Lost(c).srv = "lost" BY Endings
    <3> QED BY <2>3, <2>5, <3>1
  <2>6. CASE c.srv # "lost" /\ c.mark # -1 /\ q = Returns(b, <<>>)
    <3>1. r.conn = b /\ r.done = <<>>
      BY <2>1, <2>6, Parts
    <3>2. c.mark = 0
      BY <2>6 DEF Clean
    <3>3. b.srv = "active" /\ b.flag /\ b.work = <<>> /\ Clean(W, b)
      <4>1. SubSeq(c.work, 1, c.mark) = <<>>
        BY <3>2, SubSeqEmpty DEF Clean
      <4> QED BY <4>1, <1>2 DEF Clean
    <3> QED BY <3>1, <3>3, <2>6
  <2> QED BY <2>2, <2>4, <2>5, <2>6
<1> QED BY <1>1, <1>2

\* rollback("") when the transaction has done nothing.
LEMMA UndoOutcome ==
    ASSUME NEW W, NEW c, Clean(W, c), c.work = <<>>, c.srv = "active" => c.flag,
           NEW r \in Rollback(c)
    PROVE  /\ Clean(W, r.conn) /\ r.done = <<>> /\ r.conn.work = <<>>
           /\ r.conn.srv # "active" /\ ~r.conn.flag
           /\ c.srv = "lost" => r.conn.srv = "lost"
<1>1. CASE ~c.flag
  <2>1. r = Returns(c, <<>>) BY <1>1 DEF Rollback
  <2>2. r.conn = c /\ r.done = <<>> BY <2>1, Parts
  <2> QED BY <1>1, <2>2
<1>2. CASE c.flag
  <2> DEFINE d == [c EXCEPT !.flag = FALSE]
  <2>1. r \in SqlRollback(d)
    BY <1>2 DEF Rollback
  <2>2. Clean(W, d) /\ d.flag = FALSE /\ d.srv = c.srv
    BY Flags
  <2> HIDE DEF d
  <2> QED BY <2>1, <2>2, SqlRollbackDoes
<1> QED BY <1>1, <1>2
-----------------------------------------------------------------------------
(* The operations in the hands of the caller.                              *)

LEMMA SameForCaller ==
    ASSUME NEW c
    PROVE  /\ Caller!NewConnection = NewConnection
           /\ Caller!Transaction(c) = Transaction(c) /\ Caller!Savepoint(c) = Savepoint(c)
           /\ Caller!Rollback(c) = Rollback(c) /\ Caller!RollbackTo(c) = RollbackTo(c)
           /\ Caller!Commit(c) = Commit(c) /\ Caller!Query(c) = Query(c)
           /\ \A w : Caller!Execute(c, w) = Execute(c, w)
<1> USE DEF Caller!NoMark, NoMark, Caller!Returns, Returns, Caller!Throws, Throws,
            Caller!Ended, Ended, Caller!Aborted, Aborted, Caller!Lost, Lost,
            Caller!PQexec, PQexec, Caller!InTransaction, InTransaction
<1>1. Caller!NewConnection = NewConnection
  BY DEF Caller!NewConnection, NewConnection
<1>2. Caller!Transaction(c) = Transaction(c)
  BY DEF Caller!Transaction, Transaction, Caller!SqlBegin, SqlBegin
<1>3. Caller!Savepoint(c) = Savepoint(c)
  BY DEF Caller!Savepoint, Savepoint, Caller!SqlSavepoint, SqlSavepoint
<1>4. \A d : Caller!SqlRollback(d) = SqlRollback(d)
  BY DEF Caller!SqlRollback, SqlRollback
<1>5. Caller!Rollback(c) = Rollback(c)
  BY DEF Caller!Rollback, Rollback, Caller!SqlRollback, SqlRollback
<1>6. Caller!RollbackTo(c) = RollbackTo(c)
  <2>1. Caller!SqlRollbackTo(c) = SqlRollbackTo(c)
    BY DEF Caller!SqlRollbackTo, SqlRollbackTo
  <2> QED BY <2>1 DEF Caller!RollbackTo, RollbackTo
<1>7. Caller!Commit(c) = Commit(c)
  <2>1. Caller!SqlCommit(c) = SqlCommit(c)
    BY DEF Caller!SqlCommit, SqlCommit
  <2> QED BY <2>1 DEF Caller!Commit, Commit
<1>8. Caller!Query(c) = Query(c)
  BY DEF Caller!Query, Query
<1>9. ASSUME NEW w PROVE Caller!Execute(c, w) = Execute(c, w)
  <2>1. Caller!SqlStatement(c, w) = SqlStatement(c, w)
    BY DEF Caller!SqlStatement, SqlStatement
  <2>2. \A d : Caller!AfterFailure(d) = AfterFailure(d)
    BY DEF Caller!AfterFailure, AfterFailure, Caller!SqlRollback, SqlRollback
  <2> QED BY <2>1, <2>2 DEF Caller!Execute, Execute
<1> QED BY <1>1, <1>2, <1>3, <1>5, <1>6, <1>7, <1>8, <1>9
-----------------------------------------------------------------------------
(* A Database in the hands of one caller.                                  *)

\* Statements with numbers smaller than n.
Below(s, n) == s \in Seq(Nat) /\ \A i \in 1..Len(s) : s[i] < n

\* The statements that are permanent or in the transaction were numbered
\* before the next one; without savepoints and query() the client and the
\* server agree on the transaction; and commit() has told the truth.
CallerInv ==
    /\ Clean(Nat, dbConn) /\ next \in Nat /\ plain \in BOOLEAN
    /\ Below(dbConn.work, next) /\ Below(permanent, next)
    /\ plain => Honest(dbConn)
    /\ CommitTellsTruth

\* Parts and combinations of numbered statements.
LEMMA BelowFacts ==
    ASSUME NEW n \in Nat, NEW s, Below(s, n)
    PROVE  /\ Below(<<>>, n) /\ Below(s, n + 1) /\ Below(Append(s, n), n + 1)
           /\ \A k \in 0..Len(s) : Below(SubSeq(s, 1, k), n)
           /\ \A t : Below(t, n) => Below(s \o t, n)
<1>1. Below(<<>>, n) /\ Below(s, n + 1)
  BY DEF Below
<1>2. Below(Append(s, n), n + 1)
  BY DEF Below
<1>3. ASSUME NEW k \in 0..Len(s) PROVE Below(SubSeq(s, 1, k), n)
  BY <1>3 DEF Below
<1>4. ASSUME NEW t, Below(t, n) PROVE Below(s \o t, n)
  BY <1>4 DEF Below
<1> QED BY <1>1, <1>2, <1>3, <1>4

\* The first part of a sequence, in the words of the abstract store.
LEMMA PrefixFacts ==
    ASSUME NEW s \in Seq(Nat)
    PROVE  /\ Caller!Store!IsPrefix(s, s) /\ Caller!Store!IsPrefix(<<>>, s)
           /\ \A k \in 0..Len(s) : Caller!Store!IsPrefix(SubSeq(s, 1, k), s)
<1>1. Caller!Store!IsPrefix(s, s)
  BY DEF Caller!Store!IsPrefix
<1>2. Caller!Store!IsPrefix(<<>>, s)
  <2>1. SubSeq(s, 1, 0) = <<>> BY SubSeqEmpty
  <2>2. SubSeq(<<>>, 1, 0) = <<>> OBVIOUS
  <2> QED BY <2>1, <2>2 DEF Caller!Store!IsPrefix
<1>3. ASSUME NEW k \in 0..Len(s) PROVE Caller!Store!IsPrefix(SubSeq(s, 1, k), s)
  <2> DEFINE p == SubSeq(s, 1, k)
  <2>1. p \in Seq(Nat) /\ Len(p) = k
    OBVIOUS
  <2>2. SubSeq(p, 1, Len(p)) = p
    BY <2>1, SubSeqFull
  <2> QED BY <2>1, <2>2 DEF Caller!Store!IsPrefix
<1> QED BY <1>1, <1>2, <1>3

\* A number that is not used yet is fresh for the abstract store.
LEMMA FreshNumber ==
    ASSUME CallerInv
    PROVE  /\ Caller!Store!Fresh(next)
           /\ next \notin Caller!Store!Range(permanent) \cup Caller!Store!Range(dbConn.work)
<1>1. ASSUME NEW s, Below(s, next), NEW x \in Caller!Store!Range(s)
      PROVE  x \in Nat /\ x < next
  <2>1. PICK i \in 1..Len(s) : x = s[i]
    BY <1>1 DEF Caller!Store!Range, Below
  <2> QED BY <1>1, <2>1 DEF Below
<1>2. /\ \A x \in Caller!Store!Range(permanent) : x \in Nat /\ x < next
      /\ \A x \in Caller!Store!Range(dbConn.work) : x \in Nat /\ x < next
  BY <1>1 DEF CallerInv
<1> QED BY <1>2 DEF CallerInv, Caller!Store!Fresh

\* The four things an operation can do, and the steps of the abstract store
\* they are.
LEMMA TakesBack ==
    ASSUME CallerInv, permanent' = permanent, next' \in {next, next + 1},
           \/ dbConn'.work = dbConn.work \/ dbConn'.work = <<>>
           \/ \E k \in 0..Len(dbConn.work) : dbConn'.work = SubSeq(dbConn.work, 1, k)
    PROVE  Below(dbConn'.work, next') /\ Below(permanent', next') /\ Caller!Store!Next
<1>1. /\ Below(dbConn.work, next) /\ Below(permanent, next) /\ next \in Nat
      /\ dbConn.work \in Seq(Nat)
  BY DEF CallerInv, Below
<1>2. Below(dbConn'.work, next) /\ Caller!Store!IsPrefix(dbConn'.work, dbConn.work)
  <2>1. CASE dbConn'.work = dbConn.work
    BY <1>1, <2>1, PrefixFacts
  <2>2. CASE dbConn'.work = <<>>
    <3>1. Below(<<>>, next) BY <1>1, BelowFacts
    <3> QED BY <1>1, <2>2, <3>1, PrefixFacts
  <2>3. ASSUME NEW k \in 0..Len(dbConn.work), dbConn'.work = SubSeq(dbConn.work, 1, k)
        PROVE  Below(dbConn'.work, next) /\ Caller!Store!IsPrefix(dbConn'.work, dbConn.work)
    <3>1. Below(SubSeq(dbConn.work, 1, k), next) BY <1>1, BelowFacts
    <3> QED BY <1>1, <2>3, <3>1, PrefixFacts
  <2> QED BY <2>1, <2>2, <2>3
<1>3. Below(dbConn'.work, next') /\ Below(permanent', next')
  BY <1>1, <1>2, BelowFacts
<1> QED BY <1>2, <1>3 DEF Caller!Store!Next, Caller!Store!TakeBack

LEMMA Commits ==
    ASSUME CallerInv, permanent' = permanent \o dbConn.work, next' = next, dbConn'.work = <<>>
    PROVE  Below(dbConn'.work, next') /\ Below(permanent', next') /\ Caller!Store!Next
BY BelowFacts DEF CallerInv, Caller!Store!Next, Caller!Store!Commit

LEMMA Adds ==
    ASSUME CallerInv, permanent' = permanent, next' = next + 1,
           dbConn'.work = Append(dbConn.work, next)
    PROVE  Below(dbConn'.work, next') /\ Below(permanent', next') /\ Caller!Store!Next
<1>1. Below(dbConn'.work, next') /\ Below(permanent', next')
  BY BelowFacts DEF CallerInv
<1>2. next \in Caller!Store!Range(dbConn'.work)
  <2>1. /\ Len(dbConn.work) + 1 \in DOMAIN Append(dbConn.work, next)
        /\ Append(dbConn.work, next)[Len(dbConn.work) + 1] = next
    BY DEF CallerInv, Below
  <2> QED BY <2>1 DEF Caller!Store!Range
<1>3. next \in Caller!Store!Given
  BY <1>2, FreshNumber DEF Caller!Store!Given
<1>4. Caller!Store!Do(next)
  BY FreshNumber DEF Caller!Store!Do
<1> QED BY <1>1, <1>3, <1>4 DEF Caller!Store!Next

LEMMA AddsAtOnce ==
    ASSUME CallerInv, permanent' = permanent \o <<next>>, next' = next + 1,
           dbConn.work = <<>>, dbConn'.work = <<>>
    PROVE  Below(dbConn'.work, next') /\ Below(permanent', next') /\ Caller!Store!Next
<1>1. permanent \o <<next>> = Append(permanent, next)
  BY DEF CallerInv, Below
<1>2. Below(dbConn'.work, next') /\ Below(permanent', next')
  <2>1. Below(Append(permanent, next), next + 1)
    BY BelowFacts DEF CallerInv
  <2>2. Below(<<>>, next + 1)
    BY DEF Below
  <2> QED BY <1>1, <2>1, <2>2
<1>3. next \in Caller!Store!Range(permanent')
  <2>1. /\ Len(permanent) + 1 \in DOMAIN Append(permanent, next)
        /\ Append(permanent, next)[Len(permanent) + 1] = next
    BY DEF CallerInv, Below
  <2> QED BY <1>1, <2>1 DEF Caller!Store!Range
<1>4. next \in Caller!Store!Given
  BY <1>3, FreshNumber DEF Caller!Store!Given
<1>5. Caller!Store!DoAtOnce(next)
  BY <1>1, FreshNumber DEF Caller!Store!DoAtOnce
<1> QED BY <1>2, <1>4, <1>5 DEF Caller!Store!Next

\* What the history variables hold after an operation o with outcome r.
Remembers(o, r) ==
    /\ dbConn' = r.conn
    /\ permanent' = permanent \o r.done
    /\ last' = [op |-> o, ok |-> r.ok, work |-> dbConn.work]
    /\ plain' = (plain /\ o \notin {"savepoint", "rollbackTo", "query"})

\* An operation keeps CallerInv if its numbers are in order, if it keeps an
\* honest connection honest, and if a commit that returned told the truth.
LEMMA OperationInv ==
    ASSUME CallerInv, NEW o, NEW r, Remembers(o, r), Clean(Nat, r.conn), next' \in Nat,
           Below(dbConn'.work, next'), Below(permanent', next'),
           o \notin {"savepoint", "rollbackTo", "query"}
              => (Honest(dbConn) => Honest(r.conn)),
           o = "commit" /\ Honest(dbConn) /\ r.ok
              => Caller!ToSet(dbConn.work) \subseteq Caller!ToSet(permanent')
    PROVE  CallerInv'
<1>1. Clean(Nat, dbConn') /\ plain' \in BOOLEAN
  BY DEF Remembers
<1>2. plain' => plain /\ Honest(dbConn) /\ Honest(dbConn')
  BY DEF Remembers, CallerInv
<1>3. last'.op = o /\ last'.ok = r.ok /\ last'.work = dbConn.work
  BY DEF Remembers
<1>4. CommitTellsTruth'
  BY <1>2, <1>3 DEF CommitTellsTruth, Caller!CommitTellsTruth
<1> QED BY <1>1, <1>2, <1>4 DEF CallerInv

\* An operation that makes nothing permanent and may take work back.
LEMMA KeptCall ==
    ASSUME CallerInv, NEW o, o # "commit", NEW r, Remembers(o, r), next' = next,
           Clean(Nat, r.conn), Kept(dbConn, r),
           o \notin {"savepoint", "rollbackTo", "query"}
              => (Honest(dbConn) => Honest(r.conn))
    PROVE  CallerInv' /\ Caller!Store!Next
<1>1. permanent' = permanent
  <2>1. permanent \o <<>> = permanent BY DEF CallerInv, Below
  <2> QED BY <2>1 DEF Remembers, Kept
<1>2. \/ dbConn'.work = dbConn.work \/ dbConn'.work = <<>>
      \/ \E k \in 0..Len(dbConn.work) : dbConn'.work = SubSeq(dbConn.work, 1, k)
  BY DEF Kept, Remembers
<1>3. Below(dbConn'.work, next') /\ Below(permanent', next') /\ Caller!Store!Next
  BY <1>1, <1>2, TakesBack
<1>4. next' \in Nat
  BY DEF CallerInv
<1> QED BY <1>3, <1>4, OperationInv

\* Every operation keeps CallerInv and is a step of the abstract store.
LEMMA CallerStep ==
    ASSUME CallerInv, Caller!Next
    PROVE  CallerInv' /\ Caller!Store!Next
<1>1. Clean(Nat, dbConn) /\ next \in Nat
  BY DEF CallerInv
<1>2. CASE Caller!CallTransaction
  <2>1. PICK r \in Transaction(dbConn) : Remembers("transaction", r)
    BY <1>2, SameForCaller DEF Caller!CallTransaction, Caller!Call, Remembers
  <2> QED BY <1>1, <1>2, <2>1, TransactionDoes, KeptCall DEF Caller!CallTransaction
<1>3. CASE Caller!CallSavepoint
  <2>1. PICK r \in Savepoint(dbConn) : Remembers("savepoint", r)
    BY <1>3, SameForCaller DEF Caller!CallSavepoint, Caller!Call, Remembers
  <2> QED BY <1>1, <1>3, <2>1, SavepointDoes, KeptCall DEF Caller!CallSavepoint
<1>4. CASE Caller!CallRollback
  <2>1. PICK r \in Rollback(dbConn) : Remembers("rollback", r)
    BY <1>4, SameForCaller DEF Caller!CallRollback, Caller!Call, Remembers
  <2> QED BY <1>1, <1>4, <2>1, RollbackDoes, KeptCall DEF Caller!CallRollback
<1>5. CASE Caller!CallRollbackTo
  <2>1. PICK r \in RollbackTo(dbConn) : Remembers("rollbackTo", r)
    BY <1>5, SameForCaller DEF Caller!CallRollbackTo, Caller!Call, Remembers
  <2> QED BY <1>1, <1>5, <2>1, RollbackToDoes, KeptCall DEF Caller!CallRollbackTo
<1>6. CASE Caller!CallQuery
  <2>1. PICK r \in Query(dbConn) : Remembers("query", r)
    BY <1>6, SameForCaller DEF Caller!CallQuery, Caller!Call, Remembers
  <2> QED BY <1>1, <1>6, <2>1, QueryDoes, KeptCall DEF Caller!CallQuery
<1>7. CASE Caller!CallCommit
  <2>1. PICK r \in Commit(dbConn) : Remembers("commit", r)
    BY <1>7, SameForCaller DEF Caller!CallCommit, Caller!Call, Remembers
  <2>2. /\ Clean(Nat, r.conn) /\ r.conn.work = <<>> /\ r.done \in {<<>>, dbConn.work}
        /\ Honest(dbConn) => Honest(r.conn) /\ (r.ok => r.done = dbConn.work)
    BY <1>1, CommitDoes
  <2>3. next' = next /\ dbConn'.work = <<>> /\ permanent' = permanent \o r.done
    BY <1>7, <2>1, <2>2 DEF Caller!CallCommit, Remembers
  <2>4. Below(dbConn'.work, next') /\ Below(permanent', next') /\ Caller!Store!Next
    <3>1. CASE r.done = dbConn.work
      BY <2>3, <3>1, Commits
    <3>2. CASE r.done = <<>>
      <4>1. permanent \o <<>> = permanent BY DEF CallerInv, Below
      <4> QED BY <2>3, <3>2, <4>1, TakesBack
    <3> QED BY <2>2, <3>1, <3>2
  <2>5. r.done = dbConn.work => Caller!ToSet(dbConn.work) \subseteq Caller!ToSet(permanent')
    <3>1. permanent \in Seq(Nat) /\ dbConn.work \in Seq(Nat)
      BY DEF CallerInv, Below
    <3> SUFFICES ASSUME r.done = dbConn.work, NEW x \in Caller!ToSet(dbConn.work)
                 PROVE  x \in Caller!ToSet(permanent')
      OBVIOUS
    <3>2. PICK i \in 1..Len(dbConn.work) : x = dbConn.work[i]
      BY <3>1 DEF Caller!ToSet
    <3>3. /\ Len(permanent) + i \in DOMAIN (permanent \o dbConn.work)
          /\ (permanent \o dbConn.work)[Len(permanent) + i] = dbConn.work[i]
      BY <3>1
    <3> QED BY <2>3, <3>2, <3>3 DEF Caller!ToSet
  <2>6. next' \in Nat
    BY <1>1, <2>3
  <2> QED BY <2>1, <2>2, <2>4, <2>5, <2>6, OperationInv
<1>8. CASE Caller!CallExecute
  <2>1. PICK r \in Execute(dbConn, next) : Remembers("execute", r)
    BY <1>8, SameForCaller DEF Caller!CallExecute, Caller!Call, Remembers
  <2>2. /\ Clean(Nat, r.conn) /\ (Honest(dbConn) => Honest(r.conn))
        /\ \/ r.done = <<>> /\ r.conn.work \in {<<>>, dbConn.work}
           \/ r.done = <<>> /\ r.conn.work = Append(dbConn.work, next)
           \/ dbConn.work = <<>> /\ r.done = <<next>> /\ r.conn.work = <<>>
    BY <1>1, ExecuteDoes
  <2>3. /\ next' = next + 1 /\ dbConn'.work = r.conn.work
        /\ permanent' = permanent \o r.done
    BY <1>8, <2>1 DEF Caller!CallExecute, Remembers
  <2>4. permanent \o <<>> = permanent
    BY DEF CallerInv, Below
  <2>5. Below(dbConn'.work, next') /\ Below(permanent', next') /\ Caller!Store!Next
    <3>1. CASE r.done = <<>> /\ r.conn.work \in {<<>>, dbConn.work}
      BY <2>3, <2>4, <3>1, TakesBack
    <3>2. CASE r.done = <<>> /\ r.conn.work = Append(dbConn.work, next)
      BY <2>3, <2>4, <3>2, Adds
    <3>3. CASE dbConn.work = <<>> /\ r.done = <<next>> /\ r.conn.work = <<>>
      BY <2>3, <3>3, AddsAtOnce
    <3> QED BY <2>2, <3>1, <3>2, <3>3
  <2>6. next' \in Nat
    BY <1>1, <2>3
  <2> QED BY <2>1, <2>2, <2>5, <2>6, OperationInv
<1> QED
  BY <1>2, <1>3, <1>4, <1>5, <1>6, <1>7, <1>8 DEF Caller!Next

\* CallerInv holds initially and is kept by every step of the composition,
\* which is one of the abstract store or leaves it alone.
LEMMA CallerInduction ==
    /\ Init => CallerInv /\ Caller!Store!Init
    /\ CallerInv /\ [Next]_vars
         => CallerInv' /\ [Caller!Store!Next]_<<permanent, dbConn.work>>
<1>1. ASSUME Init PROVE CallerInv /\ Caller!Store!Init
  <2>1. Caller!Init
    BY <1>1 DEF Init
  <2>2. Clean(Nat, dbConn) /\ Honest(dbConn) /\ dbConn.work = <<>>
    BY <2>1 DEF Caller!Init, Caller!NewConnection, Caller!NoMark, Clean, Honest
  <2>3. CommitTellsTruth
    BY <2>1 DEF Caller!Init, CommitTellsTruth, Caller!CommitTellsTruth
  <2>4. Below(<<>>, 1)
    BY DEF Below
  <2>5. permanent = <<>> /\ next = 1 /\ plain = TRUE
    BY <2>1 DEF Caller!Init
  <2> QED
    BY <2>2, <2>3, <2>4, <2>5 DEF CallerInv, Caller!Store!Init
<1>2. ASSUME CallerInv, [Next]_vars
      PROVE  CallerInv' /\ [Caller!Store!Next]_<<permanent, dbConn.work>>
  <2>1. Caller!Next \/ UNCHANGED callerVars
    BY <1>2 DEF Next, vars
  <2>2. CASE UNCHANGED callerVars
    <3>1. UNCHANGED <<dbConn, permanent, next, last, plain>>
      BY <2>2 DEF callerVars
    <3>2. CommitTellsTruth'
      BY <1>2, <3>1 DEF CallerInv, CommitTellsTruth, Caller!CommitTellsTruth
    <3> QED BY <1>2, <3>1, <3>2 DEF CallerInv
  <2> QED BY <1>2, <2>1, <2>2, CallerStep
<1> QED BY <1>1, <1>2

\* CommitTellsTruth, for every number of statements and whatever the server
\* refuses: without savepoints and query(), a commit() that returns has made
\* the work of its transaction permanent.
THEOREM CommitIsTrue == Spec => []CommitTellsTruth
<1>1. CallerInv => CommitTellsTruth
  BY DEF CallerInv
<1> QED
  BY CallerInduction, <1>1, PTL DEF Spec

\* ImplementsStore: through every failure, rollback and lost connection a
\* Database is a TransactionalStore.
THEOREM IsStore == Spec => ImplementsStore
BY CallerInduction, PTL DEF Spec, ImplementsStore, Caller!ImplementsStore, Caller!Store!Spec
-----------------------------------------------------------------------------
(* Migrations.                                                             *)

Migs == Manager!Migs
Ops == [op : {"up", "down", "mark", "unmark"}, mig : Migs]

\* The steps of migrate<M>() up to its commit, and those of rollback<M>().
UpSteps == {"begin", "savepoint", "up", "commit"}
DownSteps == {"downBegin", "down", "unmark", "downCommit"}

\* How many migrations of the chain migrateAll has begun.
Begun == Len(Chain) - Len(rest)

\* The shape of the manager's state.
ManagerTypes ==
    /\ applied \in [Migs -> Nat] /\ recorded \subseteq Migs /\ cache \subseteq Migs
    /\ mig \in Migs /\ done \in Nat
    /\ pc \in {"idle", "undoTo", "undo", "fail"} \cup UpSteps \cup DownSteps
    /\ rest \in Seq(Migs) /\ Len(rest) <= Len(Chain)
    /\ \A i \in 1..Len(rest) : rest[i] = Chain[Begun + i]

\* What the open transaction has done, step by step: the client knows of it,
\* and it holds exactly the statements executed so far.
TransactionAt ==
    /\ pc \in {"idle", "begin", "downBegin", "fail"} =>
          conn.work = <<>> /\ ~conn.flag /\ conn.srv # "active"
    /\ pc = "undoTo" => conn.work = <<>> /\ conn.srv # "active"
    /\ pc = "undo" => conn.work = <<>> /\ (conn.srv = "active" => conn.flag)
    /\ pc \in {"savepoint", "up", "commit", "down", "unmark", "downCommit"} =>
          conn.srv = "active" /\ conn.flag
    /\ pc \in {"begin", "savepoint"} => done = 0
    /\ pc \in {"savepoint", "down"} => conn.work = <<>>
    /\ pc = "up" =>
          /\ done <= UpLength /\ Len(conn.work) = done
          /\ \A i \in 1..done : conn.work[i] = Manager!Up(mig)
    /\ pc = "commit" =>
          /\ Len(conn.work) = UpLength + 1 /\ conn.work[UpLength + 1] = Manager!Mark(mig)
          /\ \A i \in 1..UpLength : conn.work[i] = Manager!Up(mig)
    /\ pc = "unmark" => conn.work = <<Manager!Down(mig)>>
    /\ pc = "downCommit" =>
          /\ Len(conn.work) = 2
          /\ conn.work[1] = Manager!Down(mig) /\ conn.work[2] = Manager!Unmark(mig)

\* The cache is the table of migrations, but for what another process wrote,
\* for what was rolled back, and for the row of the transaction in progress.
\* A lost connection ends that until the next start.
CacheIsTable ==
    /\ pc = "commit" => mig \in cache
    /\ pc \in DownSteps => mig \in undone /\ rest = <<>>
    /\ conn.srv # "lost" =>
          /\ recorded \subseteq cache \cup foreign \cup (IF pc = "downCommit" THEN {mig} ELSE {})
          /\ cache \subseteq recorded \cup undone \cup (IF pc = "commit" THEN {mig} ELSE {})

\* The chain so far is in force, or was rolled back; what migrate<M>() is about
\* to execute is not, unless another process was faster.
ChainSoFar ==
    conn.srv # "lost" =>
        /\ pc \in UpSteps =>
              /\ mig \notin recorded \/ mig \in foreign
              /\ Begun >= 1 /\ mig = Chain[Begun]
              /\ \A i \in 1..(Begun - 1) : Chain[i] \in recorded \cup undone
        /\ pc = "idle" /\ rest # <<>> =>
              \A i \in 1..Begun : Chain[i] \in recorded \cup undone

\* WholeOrNothing, with multiples for remainders.
InForce ==
    \A m \in Migs :
        /\ applied[m] > 0 <=> m \in recorded
        /\ \E k \in Nat : applied[m] = k * UpLength
        /\ m \notin foreign => applied[m] <= UpLength

ManagerInv ==
    /\ Clean(Ops, conn) /\ ManagerTypes /\ TransactionAt /\ CacheIsTable /\ ChainSoFar
    /\ InForce /\ InOrder

\* The operations in the hands of the manager.
LEMMA SameForManager ==
    ASSUME NEW c
    PROVE  /\ Manager!NewConnection = NewConnection
           /\ Manager!Transaction(c) = Transaction(c) /\ Manager!Savepoint(c) = Savepoint(c)
           /\ Manager!Rollback(c) = Rollback(c) /\ Manager!RollbackTo(c) = RollbackTo(c)
           /\ Manager!CommitOf(c) = Commit(c)
           /\ \A w : Manager!Execute(c, w) = Execute(c, w)
<1> USE DEF Manager!NoMark, NoMark, Manager!Returns, Returns, Manager!Throws, Throws,
            Manager!Ended, Ended, Manager!Aborted, Aborted, Manager!Lost, Lost,
            Manager!PQexec, PQexec, Manager!InTransaction, InTransaction
<1>1. Manager!NewConnection = NewConnection
  BY DEF Manager!NewConnection, NewConnection
<1>2. Manager!Transaction(c) = Transaction(c)
  BY DEF Manager!Transaction, Transaction, Manager!SqlBegin, SqlBegin
<1>3. Manager!Savepoint(c) = Savepoint(c)
  BY DEF Manager!Savepoint, Savepoint, Manager!SqlSavepoint, SqlSavepoint
<1>4. \A d : Manager!SqlRollback(d) = SqlRollback(d)
  BY DEF Manager!SqlRollback, SqlRollback
<1>5. Manager!Rollback(c) = Rollback(c)
  BY DEF Manager!Rollback, Rollback, Manager!SqlRollback, SqlRollback
<1>6. Manager!RollbackTo(c) = RollbackTo(c)
  <2>1. Manager!SqlRollbackTo(c) = SqlRollbackTo(c)
    BY DEF Manager!SqlRollbackTo, SqlRollbackTo
  <2> QED BY <2>1 DEF Manager!RollbackTo, RollbackTo
<1>7. Manager!CommitOf(c) = Commit(c)
  <2>1. Manager!SqlCommit(c) = SqlCommit(c)
    BY DEF Manager!SqlCommit, SqlCommit
  <2> QED BY <2>1 DEF Manager!CommitOf, Manager!Commit, Commit
<1>8. ASSUME NEW w PROVE Manager!Execute(c, w) = Execute(c, w)
  <2>1. Manager!SqlStatement(c, w) = SqlStatement(c, w)
    BY DEF Manager!SqlStatement, SqlStatement
  <2>2. \A d : Manager!AfterFailure(d) = AfterFailure(d)
    BY DEF Manager!AfterFailure, AfterFailure, Manager!SqlRollback, SqlRollback
  <2> QED BY <2>1, <2>2 DEF Manager!Execute, Execute
<1> QED BY <1>1, <1>2, <1>3, <1>5, <1>6, <1>7, <1>8

\* Work that was not done, was done, was done n times in a row.
LEMMA TimesFacts ==
    ASSUME NEW S, NEW s \in Seq(S), NEW w
    PROVE  /\ Manager!Times(s, w) \in Nat
           /\ Manager!Times(s, w) = 0 <=> \A i \in 1..Len(s) : s[i] # w
           /\ \A n \in Nat : (\A i \in 1..Len(s) : s[i] = w <=> i \in 1..n) /\ n <= Len(s)
                                => Manager!Times(s, w) = n
<1> DEFINE I == {i \in DOMAIN s : s[i] = w}
<1>1. Manager!Times(s, w) = Cardinality(I)
  BY Zenon DEF Manager!Times, Manager!Cardinality, Cardinality
<1>2. Len(s) \in Nat /\ DOMAIN s = 1..Len(s)
  OBVIOUS
<1>3. IsFiniteSet(1..Len(s))
  BY <1>2, FS_Interval
<1>4. IsFiniteSet(I) /\ Cardinality(I) \in Nat
  BY <1>2, <1>3, FS_Subset, FS_CardinalityType
<1>5. Cardinality(I) = 0 <=> I = {}
  BY <1>4, FS_EmptySet
<1>6. ASSUME NEW n \in Nat, \A i \in 1..Len(s) : s[i] = w <=> i \in 1..n, n <= Len(s)
      PROVE  Cardinality(I) = n
  <2>1. I = 1..n
    BY <1>2, <1>6
  <2>2. Cardinality(1..n) = n
    BY FS_Interval
  <2> QED BY <2>1, <2>2
<1>7. I = {} <=> \A i \in 1..Len(s) : s[i] # w
  BY <1>2
<1> QED BY <1>1, <1>4, <1>5, <1>6, <1>7

\* The operations on the tables are four different things for each migration.
LEMMA OpsDiffer ==
    /\ \A m, k : Manager!Up(m) # Manager!Down(k) /\ Manager!Up(m) # Manager!Mark(k)
                 /\ Manager!Up(m) # Manager!Unmark(k) /\ Manager!Down(m) # Manager!Mark(k)
                 /\ Manager!Down(m) # Manager!Unmark(k) /\ Manager!Mark(m) # Manager!Unmark(k)
    /\ \A m, k : m # k => /\ Manager!Up(m) # Manager!Up(k) /\ Manager!Mark(m) # Manager!Mark(k)
                          /\ Manager!Down(m) # Manager!Down(k)
                          /\ Manager!Unmark(m) # Manager!Unmark(k)
    /\ \A m \in Migs : /\ Manager!Up(m) \in Ops /\ Manager!Down(m) \in Ops
                       /\ Manager!Mark(m) \in Ops /\ Manager!Unmark(m) \in Ops
<1>1. \A m, k : Manager!Up(m) # Manager!Down(k) /\ Manager!Up(m) # Manager!Mark(k)
                 /\ Manager!Up(m) # Manager!Unmark(k) /\ Manager!Down(m) # Manager!Mark(k)
                 /\ Manager!Down(m) # Manager!Unmark(k) /\ Manager!Mark(m) # Manager!Unmark(k)
  BY DEF Manager!Up, Manager!Down, Manager!Mark, Manager!Unmark
<1>2. \A m, k : m # k => /\ Manager!Up(m) # Manager!Up(k) /\ Manager!Mark(m) # Manager!Mark(k)
                          /\ Manager!Down(m) # Manager!Down(k)
                          /\ Manager!Unmark(m) # Manager!Unmark(k)
  BY DEF Manager!Up, Manager!Down, Manager!Mark, Manager!Unmark
<1>3. \A m \in Migs : /\ Manager!Up(m) \in Ops /\ Manager!Down(m) \in Ops
                       /\ Manager!Mark(m) \in Ops /\ Manager!Unmark(m) \in Ops
  BY DEF Manager!Up, Manager!Down, Manager!Mark, Manager!Unmark, Ops
<1> QED BY <1>1, <1>2, <1>3

\* Nothing done leaves the tables as they are.
LEMMA NothingDone ==
    ASSUME ManagerTypes
    PROVE  Manager!AppliedAfter(<<>>) = applied /\ Manager!RecordedAfter(<<>>) = recorded
<1>1. \A w : Manager!Times(<<>>, w) = 0
  <2> TAKE w
  <2>1. {i \in DOMAIN <<>> : <<>>[i] = w} = {}
    OBVIOUS
  <2>2. Manager!Times(<<>>, w) = Cardinality({i \in DOMAIN <<>> : <<>>[i] = w})
    BY Zenon DEF Manager!Times, Manager!Cardinality, Cardinality
  <2> QED BY <2>1, <2>2, FS_EmptySet
<1>2. Manager!AppliedAfter(<<>>) = applied
  BY <1>1 DEF Manager!AppliedAfter, ManagerTypes, Migs
<1>3. Manager!RecordedAfter(<<>>) = recorded
  BY <1>1 DEF Manager!RecordedAfter, ManagerTypes, Migs
<1> QED BY <1>2, <1>3

\* The work of migrate<M>() puts the migration in force once more.
LEMMA UpDone ==
    ASSUME ManagerTypes, TransactionAt, Clean(Ops, conn), pc = "commit"
    PROVE  /\ Manager!AppliedAfter(conn.work)
                = [m \in Migs |-> IF m = mig THEN applied[m] + UpLength ELSE applied[m]]
           /\ Manager!RecordedAfter(conn.work) = recorded \cup {mig}
<1> DEFINE s == conn.work
<1>1. /\ s \in Seq(Ops) /\ Len(s) = UpLength + 1 /\ s[UpLength + 1] = Manager!Mark(mig)
      /\ \A i \in 1..UpLength : s[i] = Manager!Up(mig)
      /\ UpLength \in Nat \ {0}
  BY ChainAssumption DEF TransactionAt, Clean
<1> HIDE DEF s
<1>2. \A i \in 1..Len(s) : i \in 1..UpLength \/ i = UpLength + 1
  BY <1>1
<1>3. \A m : Manager!Times(s, Manager!Down(m)) = 0 /\ Manager!Times(s, Manager!Unmark(m)) = 0
  <2> TAKE m
  <2>1. \A i \in 1..Len(s) : s[i] # Manager!Down(m) /\ s[i] # Manager!Unmark(m)
    BY <1>1, <1>2, OpsDiffer
  <2> QED BY <1>1, <2>1, TimesFacts
<1>4. \A m : m # mig => Manager!Times(s, Manager!Up(m)) = 0 /\ Manager!Times(s, Manager!Mark(m)) = 0
  <2> SUFFICES ASSUME NEW m, m # mig
               PROVE  Manager!Times(s, Manager!Up(m)) = 0 /\ Manager!Times(s, Manager!Mark(m)) = 0
    OBVIOUS
  <2>1. \A i \in 1..Len(s) : s[i] # Manager!Up(m) /\ s[i] # Manager!Mark(m)
    BY <1>1, <1>2, OpsDiffer
  <2> QED BY <1>1, <2>1, TimesFacts
<1>5. Manager!Times(s, Manager!Up(mig)) = UpLength
  <2>1. \A i \in 1..Len(s) : s[i] = Manager!Up(mig) <=> i \in 1..UpLength
    BY <1>1, <1>2, OpsDiffer
  <2>2. UpLength <= Len(s)
    BY <1>1
  <2> QED BY <1>1, <2>1, <2>2, TimesFacts
<1>6. Manager!Times(s, Manager!Mark(mig)) > 0
  <2>1. ~ \A i \in 1..Len(s) : s[i] # Manager!Mark(mig)
    BY <1>1
  <2>2. Manager!Times(s, Manager!Mark(mig)) \in Nat /\ Manager!Times(s, Manager!Mark(mig)) # 0
    BY <1>1, <2>1, TimesFacts
  <2> QED BY <2>2
<1>7. \A m \in Migs : (IF Manager!Times(s, Manager!Down(m)) > 0 THEN 0
                        ELSE applied[m] + Manager!Times(s, Manager!Up(m)))
                      = IF m = mig THEN applied[m] + UpLength ELSE applied[m]
  BY <1>3, <1>4, <1>5 DEF ManagerTypes
<1>8. Manager!AppliedAfter(s)
        = [m \in Migs |-> IF m = mig THEN applied[m] + UpLength ELSE applied[m]]
  BY <1>7 DEF Manager!AppliedAfter, Migs
<1>9. Manager!RecordedAfter(s) = recorded \cup {mig}
  BY <1>3, <1>4, <1>6 DEF Manager!RecordedAfter, ManagerTypes, Migs
<1> QED BY <1>8, <1>9 DEF s

\* The work of rollback<M>() ends the migration.
LEMMA DownDone ==
    ASSUME ManagerTypes, TransactionAt, Clean(Ops, conn), pc = "downCommit"
    PROVE  /\ Manager!AppliedAfter(conn.work)
                = [m \in Migs |-> IF m = mig THEN 0 ELSE applied[m]]
           /\ Manager!RecordedAfter(conn.work) = recorded \ {mig}
<1> DEFINE s == conn.work
<1>1. /\ s \in Seq(Ops) /\ Len(s) = 2
      /\ s[1] = Manager!Down(mig) /\ s[2] = Manager!Unmark(mig)
  BY DEF TransactionAt, Clean
<1> HIDE DEF s
<1>a. \A i \in 1..Len(s) : i = 1 \/ i = 2
  BY <1>1
<1>2. \A m : Manager!Times(s, Manager!Up(m)) = 0 /\ Manager!Times(s, Manager!Mark(m)) = 0
  <2> TAKE m
  <2>1. \A i \in 1..Len(s) : s[i] # Manager!Up(m) /\ s[i] # Manager!Mark(m)
    BY <1>1, <1>a, OpsDiffer
  <2> QED BY <1>1, <2>1, TimesFacts
<1>3. \A m : m # mig => /\ Manager!Times(s, Manager!Down(m)) = 0
                        /\ Manager!Times(s, Manager!Unmark(m)) = 0
  <2> SUFFICES ASSUME NEW m, m # mig
               PROVE  /\ Manager!Times(s, Manager!Down(m)) = 0
                      /\ Manager!Times(s, Manager!Unmark(m)) = 0
    OBVIOUS
  <2>1. \A i \in 1..Len(s) : s[i] # Manager!Down(m) /\ s[i] # Manager!Unmark(m)
    BY <1>1, <1>a, OpsDiffer
  <2> QED BY <1>1, <2>1, TimesFacts
<1>4. Manager!Times(s, Manager!Down(mig)) > 0 /\ Manager!Times(s, Manager!Unmark(mig)) # 0
  <2>1. /\ ~ \A i \in 1..Len(s) : s[i] # Manager!Down(mig)
        /\ ~ \A i \in 1..Len(s) : s[i] # Manager!Unmark(mig)
    BY <1>1
  <2>2. /\ Manager!Times(s, Manager!Down(mig)) \in Nat /\ Manager!Times(s, Manager!Down(mig)) # 0
        /\ Manager!Times(s, Manager!Unmark(mig)) # 0
    BY <1>1, <2>1, TimesFacts
  <2> QED BY <2>2
<1>5. \A m \in Migs : (IF Manager!Times(s, Manager!Down(m)) > 0 THEN 0
                        ELSE applied[m] + Manager!Times(s, Manager!Up(m)))
                      = IF m = mig THEN 0 ELSE applied[m]
  BY <1>2, <1>3, <1>4 DEF ManagerTypes
<1>6. Manager!AppliedAfter(s) = [m \in Migs |-> IF m = mig THEN 0 ELSE applied[m]]
  BY <1>5 DEF Manager!AppliedAfter, Migs
<1>7. Manager!RecordedAfter(s) = recorded \ {mig}
  BY <1>2, <1>3, <1>4 DEF Manager!RecordedAfter, ManagerTypes, Migs
<1> QED BY <1>6, <1>7 DEF s

\* A step that leaves the tables and their history alone.
LEMMA QuietTables ==
    ASSUME InForce, InOrder, UNCHANGED <<applied, recorded, undone, foreign>>
    PROVE  InForce' /\ InOrder'
<1>1. InForce'
  BY DEF InForce
<1>2. InOrder'
  BY DEF InOrder, Manager!InOrder
<1> QED BY <1>1, <1>2

\* An operation of the database that makes nothing permanent.
LEMMA QuietDoes ==
    ASSUME ManagerTypes, NEW r, Manager!Does(r), r.done = <<>>
    PROVE  conn' = r.conn /\ applied' = applied /\ recorded' = recorded
BY NothingDone DEF Manager!Does

\* The pieces of the invariant that do not look at the connection's work.
LEMMA MigrateAllInv ==
    ASSUME ManagerInv, Manager!MigrateAll
    PROVE  ManagerInv'
<1> USE DEF ManagerInv, Manager!MigrateAll
<1>1. Clean(Ops, conn)' /\ InForce' /\ InOrder'
  BY QuietTables
<1>2. Chain \in Seq(Migs)
  BY ChainAssumption DEF Migs, Manager!Migs, Manager!Range
<1>3. Begun' = 0 /\ Len(rest') = Len(Chain)
  BY <1>2 DEF Begun
<1>4. ManagerTypes'
  BY <1>2, <1>3 DEF ManagerTypes, UpSteps, DownSteps
<1>5. TransactionAt'
  BY DEF TransactionAt
<1>6. CacheIsTable'
  BY DEF CacheIsTable, UpSteps, DownSteps
<1>7. ChainSoFar'
  BY <1>3 DEF ChainSoFar, UpSteps
<1> QED BY <1>1, <1>4, <1>5, <1>6, <1>7

LEMMA MigrateInv ==
    ASSUME ManagerInv, Manager!Migrate
    PROVE  ManagerInv'
<1> USE DEF ManagerInv, Manager!Migrate
<1>1. Clean(Ops, conn)' /\ InForce' /\ InOrder'
  BY QuietTables
<1>2. /\ rest \in Seq(Migs) /\ rest # <<>> /\ Len(rest) \in Nat \ {0}
      /\ rest' = Tail(rest) /\ Len(rest') = Len(rest) - 1 /\ rest' \in Seq(Migs)
      /\ \A i \in 1..Len(rest') : rest'[i] = rest[i + 1]
  BY DEF ManagerTypes
<1>3. Len(Chain) \in Nat
  BY ChainAssumption
<1>4. Begun \in Nat /\ Begun' = Begun + 1 /\ Begun' <= Len(Chain)
  BY <1>2, <1>3 DEF Begun, ManagerTypes
<1>5. mig' = rest[1] /\ mig' \in Migs /\ mig' = Chain[Begun']
  <2>1. mig' = rest[1] /\ rest[1] \in Migs
    BY <1>2
  <2>2. rest[1] = Chain[Begun + 1]
    BY <1>2 DEF ManagerTypes
  <2> QED BY <1>4, <2>1, <2>2
<1>6. ManagerTypes'
  <2>1. \A i \in 1..Len(rest') : rest'[i] = Chain[Begun' + i]
    <3> TAKE i \in 1..Len(rest')
    <3>1. i + 1 \in 1..Len(rest) /\ rest'[i] = rest[i + 1]
      BY <1>2
    <3>2. rest[i + 1] = Chain[Begun + (i + 1)]
      BY <3>1 DEF ManagerTypes
    <3>3. Begun + (i + 1) = Begun' + i
      BY <1>4
    <3> QED BY <3>1, <3>2, <3>3
  <2>2. pc' \in {"idle", "begin"} /\ done' = 0 /\ Len(rest') <= Len(Chain)
    BY <1>2, <1>3 DEF ManagerTypes
  <2> QED BY <1>2, <1>5, <2>1, <2>2 DEF ManagerTypes, UpSteps
<1>7. TransactionAt'
  BY DEF TransactionAt
<1>8. CacheIsTable'
  BY DEF CacheIsTable, UpSteps, DownSteps
<1>9. ChainSoFar'
  <2> SUFFICES ASSUME conn.srv # "lost"
               PROVE  /\ pc' \in UpSteps =>
                           /\ mig' \notin recorded \/ mig' \in foreign
                           /\ Begun' >= 1 /\ mig' = Chain[Begun']
                           /\ \A i \in 1..(Begun' - 1) : Chain[i] \in recorded \cup undone
                      /\ pc' = "idle" /\ rest' # <<>> =>
                           \A i \in 1..Begun' : Chain[i] \in recorded \cup undone
    BY DEF ChainSoFar
  <2>1. \A i \in 1..Begun : Chain[i] \in recorded \cup undone
    BY DEF ChainSoFar
  <2>2. recorded \subseteq cache \cup foreign /\ cache \subseteq recorded \cup undone
    BY DEF CacheIsTable
  <2>3. CASE mig' \in cache
    <3>1. pc' = "idle" BY <1>2, <2>3
    <3>2. \A i \in 1..Begun' : i \in 1..Begun \/ i = Begun'
      BY <1>4
    <3> QED BY <3>1, <3>2, <2>1, <2>2, <2>3, <1>5 DEF UpSteps
  <2>4. CASE mig' \notin cache
    <3>1. pc' = "begin" BY <1>2, <2>4
    <3>2. Begun' - 1 = Begun /\ Begun' >= 1 BY <1>4
    <3> QED BY <3>1, <3>2, <2>1, <2>2, <2>4, <1>5 DEF UpSteps
  <2> QED BY <2>3, <2>4
<1> QED BY <1>1, <1>6, <1>7, <1>8, <1>9

LEMMA RollBackInv ==
    ASSUME ManagerInv, NEW m \in Migs, Manager!RollBack(m)
    PROVE  ManagerInv'
<1> USE DEF ManagerInv, Manager!RollBack
<1>1. Clean(Ops, conn)' /\ InForce'
  BY DEF InForce
<1>2. InOrder'
  BY DEF InOrder, Manager!InOrder
<1>3. ManagerTypes'
  BY DEF ManagerTypes, DownSteps, Begun
<1>4. TransactionAt'
  BY DEF TransactionAt
<1>5. CacheIsTable'
  BY DEF CacheIsTable, DownSteps
<1>6. ChainSoFar'
  BY DEF ChainSoFar, UpSteps
<1> QED BY <1>1, <1>2, <1>3, <1>4, <1>5, <1>6

\* A step inside a call that neither commits nor touches the cache.
LEMMA QuietStep ==
    ASSUME ManagerInv, UNCHANGED <<applied, recorded, cache, mig, rest, undone, foreign>>,
           pc \notin {"commit", "downCommit"}, pc' \notin {"commit", "downCommit", "idle"},
           pc' \in {"undoTo", "undo", "fail"} \cup UpSteps \cup DownSteps,
           pc' \in UpSteps => pc \in UpSteps, pc' \in DownSteps => pc \in DownSteps,
           conn.srv = "lost" => conn'.srv = "lost",
           done' \in Nat
    PROVE  ManagerTypes' /\ CacheIsTable' /\ ChainSoFar' /\ InForce' /\ InOrder'
<1> USE DEF ManagerInv
<1>1. InForce' /\ InOrder'
  BY QuietTables
<1>2. Begun' = Begun
  BY DEF Begun
<1>3. ManagerTypes'
  BY <1>2 DEF ManagerTypes
<1>4. CacheIsTable'
  BY DEF CacheIsTable
<1>5. ChainSoFar'
  BY <1>2 DEF ChainSoFar
<1> QED BY <1>1, <1>3, <1>4, <1>5

LEMMA BeginUpInv ==
    ASSUME ManagerInv, Manager!BeginUp
    PROVE  ManagerInv'
<1>1. PICK r \in Transaction(conn) :
         /\ pc = "begin" /\ Manager!Does(r)
         /\ pc' = IF r.ok THEN "savepoint" ELSE Manager!CatchOf(r.conn)
         /\ UNCHANGED <<cache, mig, done, rest, undone, foreign>>
  BY SameForManager DEF Manager!BeginUp, Manager!TryMigrate
<1>2. Clean(Ops, conn) /\ conn.work = <<>> /\ conn.srv # "active"
  BY <1>1 DEF ManagerInv, TransactionAt
<1>3. /\ Clean(Ops, r.conn) /\ r.done = <<>> /\ r.conn.work = <<>> /\ r.conn.flag = TRUE
      /\ r.ok \in BOOLEAN /\ (r.ok <=> r.conn.srv = "active")
      /\ conn.srv = "lost" => r.conn.srv = "lost"
  BY <1>2, BeginOutcome
<1>4. conn' = r.conn /\ applied' = applied /\ recorded' = recorded
  BY <1>1, <1>3, QuietDoes DEF ManagerInv
<1>5. pc' = IF r.ok THEN "savepoint" ELSE "undoTo"
  BY <1>1, <1>3 DEF Manager!CatchOf
<1>6. TransactionAt'
  BY <1>1, <1>3, <1>4, <1>5 DEF ManagerInv, TransactionAt
<1>7. done' \in Nat
  BY <1>1 DEF ManagerInv, ManagerTypes
<1>8. ManagerTypes' /\ CacheIsTable' /\ ChainSoFar' /\ InForce' /\ InOrder'
  BY <1>1, <1>3, <1>4, <1>5, <1>7, QuietStep DEF UpSteps, DownSteps
<1> QED BY <1>3, <1>4, <1>6, <1>8 DEF ManagerInv

LEMMA SavepointUpInv ==
    ASSUME ManagerInv, Manager!SavepointUp
    PROVE  ManagerInv'
<1>1. PICK r \in Savepoint(conn) :
         /\ pc = "savepoint" /\ Manager!Does(r)
         /\ pc' = IF r.ok THEN "up" ELSE Manager!CatchOf(r.conn)
         /\ UNCHANGED <<cache, mig, done, rest, undone, foreign>>
  BY SameForManager DEF Manager!SavepointUp, Manager!TryMigrate
<1>2. Clean(Ops, conn) /\ conn.work = <<>> /\ conn.srv = "active" /\ conn.flag
  BY <1>1 DEF ManagerInv, TransactionAt
<1>3. /\ Clean(Ops, r.conn) /\ r.done = <<>> /\ r.conn.work = <<>> /\ r.conn.flag
      /\ r.ok \in BOOLEAN /\ (r.ok <=> r.conn.srv = "active")
  BY <1>2, SavepointOutcome
<1>4. conn' = r.conn /\ applied' = applied /\ recorded' = recorded
  BY <1>1, <1>3, QuietDoes DEF ManagerInv
<1>5. pc' = IF r.ok THEN "up" ELSE "undoTo"
  BY <1>1, <1>3 DEF Manager!CatchOf
<1>6. done = 0 /\ done' \in Nat
  BY <1>1 DEF ManagerInv, TransactionAt
<1>7. TransactionAt'
  BY <1>1, <1>3, <1>4, <1>5, <1>6, ChainAssumption DEF TransactionAt
<1>8. ManagerTypes' /\ CacheIsTable' /\ ChainSoFar' /\ InForce' /\ InOrder'
  BY <1>1, <1>2, <1>4, <1>5, <1>6, QuietStep DEF UpSteps, DownSteps
<1> QED BY <1>3, <1>4, <1>7, <1>8 DEF ManagerInv

LEMMA ExecuteUpInv ==
    ASSUME ManagerInv, Manager!ExecuteUp
    PROVE  ManagerInv'
<1>1. PICK r \in Execute(conn, Manager!Up(mig)) :
         /\ pc = "up" /\ Manager!Does(r)
         /\ pc' = IF r.ok THEN "up" ELSE Manager!CatchOf(r.conn)
         /\ done < UpLength /\ done' = done + 1
         /\ UNCHANGED <<cache, mig, rest, undone, foreign>>
  BY SameForManager DEF Manager!ExecuteUp, Manager!TryMigrate
<1>2. /\ Clean(Ops, conn) /\ conn.srv = "active" /\ conn.flag /\ Manager!Up(mig) \in Ops
      /\ conn.work \in Seq(Ops) /\ Len(conn.work) = done
      /\ \A i \in 1..done : conn.work[i] = Manager!Up(mig)
      /\ done \in Nat /\ UpLength \in Nat
  BY <1>1, OpsDiffer, ChainAssumption DEF ManagerInv, ManagerTypes, TransactionAt, Clean
<1>3. /\ Clean(Ops, r.conn) /\ r.done = <<>> /\ r.ok \in BOOLEAN
      /\ r.ok => /\ r.conn.srv = "active" /\ r.conn.flag
                 /\ r.conn.work = Append(conn.work, Manager!Up(mig))
      /\ ~r.ok => /\ r.conn.srv \in {"idle", "lost"} /\ ~r.conn.flag
                  /\ r.conn.work = <<>>
  BY <1>2, ExecuteOutcome
<1>4. conn' = r.conn /\ applied' = applied /\ recorded' = recorded
  BY <1>1, <1>3, QuietDoes DEF ManagerInv
<1>5. pc' = IF r.ok THEN "up" ELSE "fail"
  BY <1>1, <1>3 DEF Manager!CatchOf
<1>6. TransactionAt'
  <2>1. CASE r.ok
    <3>1. /\ done' <= UpLength /\ conn'.work = Append(conn.work, Manager!Up(mig))
          /\ conn'.srv = "active" /\ conn'.flag /\ pc' = "up" /\ mig' = mig
      BY <1>1, <1>2, <1>3, <1>4, <1>5, <2>1
    <3>2. /\ Len(conn'.work) = done'
          /\ \A i \in 1..done' : conn'.work[i] = Manager!Up(mig)
      BY <1>1, <1>2, <3>1
    <3>3. Manager!Up(mig)' = Manager!Up(mig)
      BY <3>1 DEF Manager!Up
    <3> QED BY <3>1, <3>2, <3>3 DEF TransactionAt
  <2>2. CASE ~r.ok
    BY <1>3, <1>4, <1>5, <2>2 DEF TransactionAt
  <2> QED BY <1>3, <2>1, <2>2
<1>7. done' \in Nat
  BY <1>1, <1>2
<1>8. ManagerTypes' /\ CacheIsTable' /\ ChainSoFar' /\ InForce' /\ InOrder'
  BY <1>1, <1>2, <1>4, <1>5, <1>7, QuietStep DEF UpSteps, DownSteps
<1> QED BY <1>3, <1>4, <1>6, <1>8 DEF ManagerInv

\* The row is in the transaction and its name in the cache, or neither.
LEMMA MarkExecutedInv ==
    ASSUME ManagerInv, Manager!MarkExecuted
    PROVE  ManagerInv'
<1>1. PICK r \in Execute(conn, Manager!Mark(mig)) :
         /\ pc = "up" /\ Manager!Does(r)
         /\ pc' = IF r.ok THEN "commit" ELSE Manager!CatchOf(r.conn)
         /\ done = UpLength /\ cache' = Manager!Marked(pc' = "commit")
         /\ UNCHANGED <<mig, done, rest, undone, foreign>>
  BY SameForManager DEF Manager!MarkExecuted, Manager!TryMigrate
<1>2. /\ Clean(Ops, conn) /\ conn.srv = "active" /\ conn.flag /\ Manager!Mark(mig) \in Ops
      /\ conn.work \in Seq(Ops) /\ Len(conn.work) = UpLength
      /\ \A i \in 1..UpLength : conn.work[i] = Manager!Up(mig)
      /\ UpLength \in Nat /\ done' \in Nat
  BY <1>1, OpsDiffer, ChainAssumption DEF ManagerInv, ManagerTypes, TransactionAt, Clean
<1>3. /\ Clean(Ops, r.conn) /\ r.done = <<>> /\ r.ok \in BOOLEAN
      /\ r.ok => /\ r.conn.srv = "active" /\ r.conn.flag
                 /\ r.conn.work = Append(conn.work, Manager!Mark(mig))
      /\ ~r.ok => /\ r.conn.srv \in {"idle", "lost"} /\ ~r.conn.flag
                  /\ r.conn.work = <<>>
  BY <1>2, ExecuteOutcome
<1>4. conn' = r.conn /\ applied' = applied /\ recorded' = recorded
  BY <1>1, <1>3, QuietDoes DEF ManagerInv
<1>5. CASE r.ok
  <2>1. pc' = "commit" /\ cache' = cache \cup {mig}
    BY <1>1, <1>5 DEF Manager!Marked
  <2>2. /\ conn'.work = Append(conn.work, Manager!Mark(mig))
        /\ conn'.srv = "active" /\ conn'.flag /\ mig' = mig
    BY <1>1, <1>3, <1>4, <1>5
  <2>3. /\ Len(conn'.work) = UpLength + 1 /\ conn'.work[UpLength + 1] = Manager!Mark(mig)
        /\ \A i \in 1..UpLength : conn'.work[i] = Manager!Up(mig)
    BY <1>2, <2>2
  <2>4. Manager!Up(mig)' = Manager!Up(mig) /\ Manager!Mark(mig)' = Manager!Mark(mig)
    BY <2>2 DEF Manager!Up, Manager!Mark
  <2>5. TransactionAt'
    BY <2>1, <2>2, <2>3, <2>4 DEF TransactionAt
  <2>6. Begun' = Begun
    BY <1>1 DEF Begun
  <2>7. ManagerTypes'
    BY <1>1, <1>2, <1>4, <2>1, <2>6 DEF ManagerInv, ManagerTypes, UpSteps
  <2>8. CacheIsTable'
    BY <1>1, <1>2, <1>4, <2>1 DEF ManagerInv, CacheIsTable, DownSteps
  <2>9. ChainSoFar'
    BY <1>1, <1>2, <1>4, <2>1, <2>6 DEF ManagerInv, ChainSoFar, UpSteps
  <2>10. InForce' /\ InOrder'
    BY <1>1, <1>4, QuietTables DEF ManagerInv
  <2> QED BY <1>3, <1>4, <2>5, <2>7, <2>8, <2>9, <2>10 DEF ManagerInv
<1>6. CASE ~r.ok
  <2>1. pc' = "fail" /\ cache' = cache
    BY <1>1, <1>3, <1>6 DEF Manager!CatchOf, Manager!Marked
  <2>2. TransactionAt'
    BY <1>3, <1>4, <1>6, <2>1 DEF TransactionAt
  <2>3. ManagerTypes' /\ CacheIsTable' /\ ChainSoFar' /\ InForce' /\ InOrder'
    BY <1>1, <1>2, <1>4, <2>1, QuietStep DEF UpSteps, DownSteps
  <2> QED BY <1>3, <1>4, <2>2, <2>3 DEF ManagerInv
<1> QED BY <1>3, <1>5, <1>6

\* A migration is executed as a whole, after those before it, by this process
\* or by another.
LEMMA PutInForce ==
    ASSUME InForce, InOrder, applied \in [Migs -> Nat], NEW m \in Migs,
           applied' = [x \in Migs |-> IF x = m THEN applied[x] + UpLength ELSE applied[x]],
           recorded' = recorded \cup {m}, undone' = undone, foreign \subseteq foreign',
           m \notin recorded \/ m \in foreign',
           NEW n \in DOMAIN Chain, Chain[n] = m,
           \A i \in 1..(n - 1) : Chain[i] \in recorded \cup undone
    PROVE  applied' \in [Migs -> Nat] /\ InForce' /\ InOrder'
<1>1. UpLength \in Nat \ {0} /\ Len(Chain) \in Nat /\ DOMAIN Chain = 1..Len(Chain)
  BY ChainAssumption
<1>2. applied' \in [Migs -> Nat]
  BY <1>1
<1>3. Migs' = Migs
  BY DEF Migs, Manager!Migs, Manager!Range
<1>4. InForce'
  <2> SUFFICES ASSUME NEW x \in Migs
               PROVE  /\ applied'[x] > 0 <=> x \in recorded'
                      /\ \E k \in Nat : applied'[x] = k * UpLength
                      /\ x \notin foreign' => applied'[x] <= UpLength
    BY <1>3 DEF InForce
  <2>1. PICK k \in Nat : applied[x] = k * UpLength
    BY DEF InForce
  <2>2. applied[x] \in Nat /\ (applied[x] > 0 <=> x \in recorded)
        /\ (x \notin foreign => applied[x] <= UpLength)
    BY DEF InForce
  <2>3. CASE x = m
    <3>1. applied'[x] = applied[x] + UpLength /\ x \in recorded'
      BY <2>3
    <3>2. applied'[x] = (k + 1) * UpLength /\ k + 1 \in Nat
      BY <1>1, <2>1, <3>1
    <3>3. x \notin foreign' => applied[x] = 0
      BY <2>2, <2>3
    <3>4. applied'[x] > 0
      BY <1>1, <2>2, <3>1
    <3>5. x \notin foreign' => applied'[x] <= UpLength
      BY <1>1, <3>1, <3>3
    <3> QED BY <3>1, <3>2, <3>4, <3>5
  <2>4. CASE x # m
    <3>1. applied'[x] = applied[x] /\ (x \in recorded' <=> x \in recorded)
      BY <2>4
    <3> QED BY <2>1, <2>2, <3>1
  <2> QED BY <2>3, <2>4
<1>5. InOrder'
  <2> SUFFICES ASSUME NEW i \in DOMAIN Chain, NEW j \in DOMAIN Chain,
                      i < j, Chain[j] \in recorded'
               PROVE  Chain[i] \in recorded' \cup undone'
    BY DEF InOrder, Manager!InOrder
  <2>1. CASE Chain[j] \in recorded
    BY <2>1 DEF InOrder, Manager!InOrder
  <2>2. CASE Chain[j] = m
    <3>1. j = n
      BY <2>2, ChainAssumption
    <3>2. i \in 1..(n - 1)
      BY <1>1, <3>1
    <3> QED BY <3>2
  <2> QED BY <2>1, <2>2
<1> QED BY <1>2, <1>4, <1>5

\* commit() of migrate<M>(): the migration is in force, or the connection is
\* lost and the outcome unknown, but whole.
LEMMA CommitUpInv ==
    ASSUME ~DeferredErrors, ManagerInv, Manager!CommitUp
    PROVE  ManagerInv'
<1>1. PICK r \in Commit(conn) :
         /\ pc = "commit" /\ Manager!Does(r)
         /\ pc' = IF r.ok THEN "idle" ELSE Manager!CatchOf(r.conn)
         /\ UNCHANGED <<cache, mig, done, rest, undone, foreign>>
  BY SameForManager DEF Manager!CommitUp, Manager!TryMigrate
<1>2. /\ Clean(Ops, conn) /\ conn.srv = "active" /\ conn.flag
      /\ mig \in Migs /\ applied \in [Migs -> Nat]
  BY <1>1 DEF ManagerInv, TransactionAt, ManagerTypes
<1>3. /\ Clean(Ops, r.conn) /\ r.conn.work = <<>> /\ r.ok \in BOOLEAN
      /\ r.ok => r.done = conn.work /\ r.conn.srv = "idle" /\ ~r.conn.flag
      /\ ~r.ok => r.done \in {<<>>, conn.work} /\ r.conn.srv = "lost" /\ r.conn.flag
  BY <1>2, CommitOutcome
<1>4. conn' = r.conn
  BY <1>1 DEF Manager!Does
<1>5. pc' = IF r.ok THEN "idle" ELSE "undoTo"
  BY <1>1, <1>3 DEF Manager!CatchOf
<1>6. TransactionAt'
  BY <1>3, <1>4, <1>5 DEF TransactionAt
<1>7. Begun' = Begun
  BY <1>1 DEF Begun
<1>8. /\ mig \notin recorded \/ mig \in foreign
      /\ Begun \in DOMAIN Chain /\ mig = Chain[Begun]
      /\ \A i \in 1..(Begun - 1) : Chain[i] \in recorded \cup undone
      /\ Len(Chain) \in Nat /\ Len(rest) \in Nat
  <2>1. /\ mig \notin recorded \/ mig \in foreign
        /\ Begun >= 1 /\ mig = Chain[Begun]
        /\ \A i \in 1..(Begun - 1) : Chain[i] \in recorded \cup undone
    BY <1>1, <1>2 DEF ManagerInv, ChainSoFar, UpSteps
  <2>2. Len(Chain) \in Nat /\ Len(rest) \in Nat /\ DOMAIN Chain = 1..Len(Chain)
    BY ChainAssumption DEF ManagerInv, ManagerTypes
  <2>3. Begun \in 1..Len(Chain)
    BY <2>1, <2>2 DEF Begun
  <2> QED BY <2>1, <2>2, <2>3
<1>9. CASE r.done = conn.work
  <2>1. /\ applied' = [m \in Migs |-> IF m = mig THEN applied[m] + UpLength ELSE applied[m]]
        /\ recorded' = recorded \cup {mig}
    BY <1>1, <1>9, UpDone DEF ManagerInv, Manager!Does
  <2>2. applied' \in [Migs -> Nat] /\ InForce' /\ InOrder'
    BY <1>1, <1>2, <1>8, <2>1, PutInForce DEF ManagerInv
  <2>3. ManagerTypes'
    BY <1>1, <1>2, <1>5, <1>7, <2>1, <2>2 DEF ManagerInv, ManagerTypes, UpSteps
  <2>4. CacheIsTable'
    BY <1>1, <1>2, <1>3, <1>4, <1>5, <2>1 DEF ManagerInv, CacheIsTable, DownSteps
  <2>5. ChainSoFar'
    <3>1. \A i \in 1..Begun : i \in 1..(Begun - 1) \/ i = Begun
      BY <1>8 DEF Begun
    <3>2. \A i \in 1..Begun : Chain[i] \in recorded' \cup undone
      BY <1>8, <2>1, <3>1
    <3> QED BY <1>1, <1>5, <1>7, <3>2 DEF ChainSoFar, UpSteps
  <2> QED BY <1>3, <1>4, <1>6, <2>2, <2>3, <2>4, <2>5 DEF ManagerInv
<1>10. CASE ~r.ok /\ r.done = <<>>
  <2>1. applied' = applied /\ recorded' = recorded
    BY <1>1, <1>10, QuietDoes DEF ManagerInv
  <2>2. InForce' /\ InOrder'
    BY <1>1, <2>1, QuietTables DEF ManagerInv
  <2>3. ManagerTypes'
    BY <1>1, <1>2, <1>5, <1>7, <2>1 DEF ManagerInv, ManagerTypes, UpSteps
  <2>4. CacheIsTable' /\ ChainSoFar'
    BY <1>1, <1>3, <1>4, <1>5, <1>10 DEF ManagerInv, CacheIsTable, ChainSoFar, DownSteps
  <2> QED BY <1>3, <1>4, <1>6, <2>2, <2>3, <2>4 DEF ManagerInv
<1> QED BY <1>3, <1>9, <1>10

LEMMA UndoToSavepointInv ==
    ASSUME ManagerInv, Manager!UndoToSavepoint
    PROVE  ManagerInv'
<1>1. PICK r \in RollbackTo(conn) :
         /\ pc = "undoTo" /\ Manager!Does(r) /\ pc' = "undo"
         /\ UNCHANGED <<cache, mig, done, rest, undone, foreign>>
  BY SameForManager DEF Manager!UndoToSavepoint, Manager!Try
<1>2. Clean(Ops, conn) /\ conn.work = <<>> /\ conn.srv # "active" /\ done' \in Nat
  BY <1>1 DEF ManagerInv, TransactionAt, ManagerTypes
<1>3. /\ Clean(Ops, r.conn) /\ r.done = <<>> /\ r.conn.work = <<>>
      /\ r.conn.srv = "active" => r.conn.flag
      /\ conn.srv = "lost" => r.conn.srv = "lost"
  BY <1>2, UndoToOutcome
<1>4. conn' = r.conn /\ applied' = applied /\ recorded' = recorded
  BY <1>1, <1>3, QuietDoes DEF ManagerInv
<1>5. TransactionAt'
  BY <1>1, <1>3, <1>4 DEF TransactionAt
<1>6. ManagerTypes' /\ CacheIsTable' /\ ChainSoFar' /\ InForce' /\ InOrder'
  BY <1>1, <1>2, <1>3, <1>4, QuietStep DEF UpSteps, DownSteps
<1> QED BY <1>3, <1>4, <1>5, <1>6 DEF ManagerInv

LEMMA UndoAllInv ==
    ASSUME ManagerInv, Manager!UndoAll
    PROVE  ManagerInv'
<1>1. PICK r \in Rollback(conn) :
         /\ pc = "undo" /\ Manager!Does(r) /\ pc' = "fail"
         /\ UNCHANGED <<cache, mig, done, rest, undone, foreign>>
  BY SameForManager DEF Manager!UndoAll, Manager!Try
<1>2. Clean(Ops, conn) /\ conn.work = <<>> /\ (conn.srv = "active" => conn.flag) /\ done' \in Nat
  BY <1>1 DEF ManagerInv, TransactionAt, ManagerTypes
<1>3. /\ Clean(Ops, r.conn) /\ r.done = <<>> /\ r.conn.work = <<>>
      /\ r.conn.srv # "active" /\ ~r.conn.flag
      /\ conn.srv = "lost" => r.conn.srv = "lost"
  BY <1>2, UndoOutcome
<1>4. conn' = r.conn /\ applied' = applied /\ recorded' = recorded
  BY <1>1, <1>3, QuietDoes DEF ManagerInv
<1>5. TransactionAt'
  BY <1>1, <1>3, <1>4 DEF TransactionAt
<1>6. ManagerTypes' /\ CacheIsTable' /\ ChainSoFar' /\ InForce' /\ InOrder'
  BY <1>1, <1>2, <1>3, <1>4, QuietStep DEF UpSteps, DownSteps
<1> QED BY <1>3, <1>4, <1>5, <1>6 DEF ManagerInv

LEMMA MigrationFailsInv ==
    ASSUME ManagerInv, Manager!MigrationFails
    PROVE  ManagerInv'
<1> USE DEF ManagerInv, Manager!MigrationFails, Manager!AfterFailedMigration
<1>1. Clean(Ops, conn)' /\ InForce' /\ InOrder'
  BY QuietTables
<1>2. rest' = <<>> /\ rest' \in Seq(Migs) /\ Len(rest') = 0
  OBVIOUS
<1>3. Len(Chain) \in Nat
  BY ChainAssumption
<1>4. ManagerTypes'
  BY <1>2, <1>3 DEF ManagerTypes
<1>5. TransactionAt'
  BY DEF TransactionAt
<1>6. CacheIsTable'
  BY DEF CacheIsTable, DownSteps
<1>7. ChainSoFar'
  BY <1>2 DEF ChainSoFar, UpSteps
<1> QED BY <1>1, <1>4, <1>5, <1>6, <1>7

LEMMA BeginDownInv ==
    ASSUME ManagerInv, Manager!BeginDown
    PROVE  ManagerInv'
<1>1. PICK r \in Transaction(conn) :
         /\ pc = "downBegin" /\ Manager!Does(r)
         /\ pc' = IF r.ok THEN "down" ELSE "undo"
         /\ UNCHANGED <<cache, mig, done, rest, undone, foreign>>
  BY SameForManager DEF Manager!BeginDown, Manager!Try
<1>2. Clean(Ops, conn) /\ conn.work = <<>> /\ conn.srv # "active" /\ done' \in Nat
  BY <1>1 DEF ManagerInv, TransactionAt, ManagerTypes
<1>3. /\ Clean(Ops, r.conn) /\ r.done = <<>> /\ r.conn.work = <<>> /\ r.conn.flag = TRUE
      /\ r.ok \in BOOLEAN /\ (r.ok <=> r.conn.srv = "active")
      /\ conn.srv = "lost" => r.conn.srv = "lost"
  BY <1>2, BeginOutcome
<1>4. conn' = r.conn /\ applied' = applied /\ recorded' = recorded
  BY <1>1, <1>3, QuietDoes DEF ManagerInv
<1>5. TransactionAt'
  BY <1>1, <1>3, <1>4 DEF TransactionAt
<1>6. ManagerTypes' /\ CacheIsTable' /\ ChainSoFar' /\ InForce' /\ InOrder'
  BY <1>1, <1>2, <1>3, <1>4, QuietStep DEF UpSteps, DownSteps
<1> QED BY <1>3, <1>4, <1>5, <1>6 DEF ManagerInv

LEMMA ExecuteDownInv ==
    ASSUME ManagerInv, Manager!ExecuteDown
    PROVE  ManagerInv'
<1>1. PICK r \in Execute(conn, Manager!Down(mig)) :
         /\ pc = "down" /\ Manager!Does(r)
         /\ pc' = IF r.ok THEN "unmark" ELSE "undo"
         /\ UNCHANGED <<cache, mig, done, rest, undone, foreign>>
  BY SameForManager DEF Manager!ExecuteDown, Manager!Try
<1>2. /\ Clean(Ops, conn) /\ conn.srv = "active" /\ conn.flag /\ Manager!Down(mig) \in Ops
      /\ conn.work = <<>> /\ done' \in Nat
  BY <1>1, OpsDiffer DEF ManagerInv, ManagerTypes, TransactionAt
<1>3. /\ Clean(Ops, r.conn) /\ r.done = <<>> /\ r.ok \in BOOLEAN
      /\ r.ok => /\ r.conn.srv = "active" /\ r.conn.flag
                 /\ r.conn.work = Append(conn.work, Manager!Down(mig))
      /\ ~r.ok => /\ r.conn.srv \in {"idle", "lost"} /\ ~r.conn.flag
                  /\ r.conn.work = <<>>
  BY <1>2, ExecuteOutcome
<1>4. conn' = r.conn /\ applied' = applied /\ recorded' = recorded
  BY <1>1, <1>3, QuietDoes DEF ManagerInv
<1>5. Append(conn.work, Manager!Down(mig)) = <<Manager!Down(mig)>>
  BY <1>2
<1>6. Manager!Down(mig)' = Manager!Down(mig)
  BY <1>1 DEF Manager!Down
<1>7. TransactionAt'
  BY <1>1, <1>3, <1>4, <1>5, <1>6 DEF TransactionAt
<1>8. ManagerTypes' /\ CacheIsTable' /\ ChainSoFar' /\ InForce' /\ InOrder'
  BY <1>1, <1>2, <1>4, QuietStep DEF UpSteps, DownSteps
<1> QED BY <1>3, <1>4, <1>7, <1>8 DEF ManagerInv

\* The row leaves the table in the transaction, its name the cache at once.
LEMMA UnmarkExecutedInv ==
    ASSUME ManagerInv, Manager!UnmarkExecuted
    PROVE  ManagerInv'
<1>1. PICK r \in Execute(conn, Manager!Unmark(mig)) :
         /\ pc = "unmark" /\ Manager!Does(r)
         /\ pc' = IF r.ok THEN "downCommit" ELSE "undo"
         /\ cache' = IF pc' = "downCommit" THEN cache \ {mig} ELSE cache
         /\ UNCHANGED <<mig, done, rest, undone, foreign>>
  BY SameForManager DEF Manager!UnmarkExecuted, Manager!Try
<1>2. /\ Clean(Ops, conn) /\ conn.srv = "active" /\ conn.flag /\ Manager!Unmark(mig) \in Ops
      /\ conn.work = <<Manager!Down(mig)>> /\ done' \in Nat
  BY <1>1, OpsDiffer DEF ManagerInv, ManagerTypes, TransactionAt
<1>3. /\ Clean(Ops, r.conn) /\ r.done = <<>> /\ r.ok \in BOOLEAN
      /\ r.ok => /\ r.conn.srv = "active" /\ r.conn.flag
                 /\ r.conn.work = Append(conn.work, Manager!Unmark(mig))
      /\ ~r.ok => /\ r.conn.srv \in {"idle", "lost"} /\ ~r.conn.flag
                  /\ r.conn.work = <<>>
  <2>1. Clean(Ops, conn) /\ conn.srv = "active" /\ conn.flag /\ Manager!Unmark(mig) \in Ops
    BY <1>2
  <2> QED BY <2>1, ExecuteOutcome
<1>4. conn' = r.conn /\ applied' = applied /\ recorded' = recorded
  BY <1>1, <1>3, QuietDoes DEF ManagerInv
<1>5. CASE r.ok
  <2>1. pc' = "downCommit" /\ cache' = cache \ {mig} /\ mig' = mig
    BY <1>1, <1>5
  <2>2. Manager!Down(mig)' = Manager!Down(mig) /\ Manager!Unmark(mig)' = Manager!Unmark(mig)
    BY <2>1 DEF Manager!Down, Manager!Unmark
  <2>3. /\ Len(conn'.work) = 2
        /\ conn'.work[1] = Manager!Down(mig) /\ conn'.work[2] = Manager!Unmark(mig)
    <3>1. conn.work \in Seq(Ops) /\ Len(conn.work) = 1 /\ conn.work[1] = Manager!Down(mig)
      BY <1>2 DEF Clean
    <3>2. conn'.work = Append(conn.work, Manager!Unmark(mig))
      BY <1>3, <1>4, <1>5
    <3> HIDE DEF Manager!Down, Manager!Unmark
    <3> QED BY <3>1, <3>2, <1>2
  <2>4. TransactionAt'
    BY <1>3, <1>4, <1>5, <2>1, <2>2, <2>3 DEF TransactionAt
  <2>5. Begun' = Begun
    BY <1>1 DEF Begun
  <2>6. ManagerTypes'
    BY <1>1, <1>2, <1>4, <2>1, <2>5 DEF ManagerInv, ManagerTypes, DownSteps
  <2>7. CacheIsTable'
    BY <1>1, <1>2, <1>4, <2>1 DEF ManagerInv, CacheIsTable, DownSteps
  <2>8. ChainSoFar'
    BY <2>1 DEF ChainSoFar, UpSteps
  <2>9. InForce' /\ InOrder'
    BY <1>1, <1>4, QuietTables DEF ManagerInv
  <2> QED BY <1>3, <1>4, <2>4, <2>6, <2>7, <2>8, <2>9 DEF ManagerInv
<1>6. CASE ~r.ok
  <2>1. pc' = "undo" /\ cache' = cache
    BY <1>1, <1>6
  <2>2. TransactionAt'
    BY <1>3, <1>4, <1>6, <2>1 DEF TransactionAt
  <2>3. ManagerTypes' /\ CacheIsTable' /\ ChainSoFar' /\ InForce' /\ InOrder'
    BY <1>1, <1>2, <1>4, <2>1, QuietStep DEF UpSteps, DownSteps
  <2> QED BY <1>3, <1>4, <2>2, <2>3 DEF ManagerInv
<1> QED BY <1>3, <1>5, <1>6

\* commit() of rollback<M>(): the migration is gone, or the connection is.
LEMMA CommitDownInv ==
    ASSUME ~DeferredErrors, ManagerInv, Manager!CommitDown
    PROVE  ManagerInv'
<1>1. PICK r \in Commit(conn) :
         /\ pc = "downCommit" /\ Manager!Does(r)
         /\ pc' = IF r.ok THEN "idle" ELSE "undo"
         /\ UNCHANGED <<cache, mig, done, rest, undone, foreign>>
  BY SameForManager DEF Manager!CommitDown, Manager!Try
<1>2. /\ Clean(Ops, conn) /\ conn.srv = "active" /\ conn.flag
      /\ mig \in Migs /\ applied \in [Migs -> Nat] /\ mig \in undone /\ rest = <<>>
  BY <1>1 DEF ManagerInv, TransactionAt, ManagerTypes, CacheIsTable, DownSteps
<1>3. /\ Clean(Ops, r.conn) /\ r.conn.work = <<>> /\ r.ok \in BOOLEAN
      /\ r.ok => r.done = conn.work /\ r.conn.srv = "idle" /\ ~r.conn.flag
      /\ ~r.ok => r.done \in {<<>>, conn.work} /\ r.conn.srv = "lost" /\ r.conn.flag
  BY <1>2, CommitOutcome
<1>4. conn' = r.conn
  BY <1>1 DEF Manager!Does
<1>5. TransactionAt'
  BY <1>1, <1>3, <1>4 DEF TransactionAt
<1>6. Begun' = Begun
  BY <1>1 DEF Begun
<1>7. ChainSoFar'
  BY <1>1, <1>2 DEF ChainSoFar, UpSteps
<1>8. CASE r.done = conn.work
  <2>1. /\ applied' = [m \in Migs |-> IF m = mig THEN 0 ELSE applied[m]]
        /\ recorded' = recorded \ {mig}
    BY <1>1, <1>8, DownDone DEF ManagerInv, Manager!Does
  <2>2. InForce'
    <3> SUFFICES ASSUME NEW x \in Migs
                 PROVE  /\ applied'[x] > 0 <=> x \in recorded'
                        /\ \E k \in Nat : applied'[x] = k * UpLength
                        /\ x \notin foreign' => applied'[x] <= UpLength
      BY DEF InForce, Migs, Manager!Migs, Manager!Range
    <3>1. UpLength \in Nat
      BY ChainAssumption
    <3>2. CASE x = mig
      <4>1. applied'[x] = 0 /\ x \notin recorded' /\ 0 = 0 * UpLength
        BY <2>1, <3>1, <3>2
      <4> QED BY <3>1, <4>1
    <3>3. CASE x # mig
      <4>1. applied'[x] = applied[x] /\ (x \in recorded' <=> x \in recorded)
        BY <2>1, <3>3
      <4> QED BY <1>1, <4>1 DEF ManagerInv, InForce
    <3> QED BY <3>2, <3>3
  <2>3. InOrder'
    BY <1>1, <1>2, <2>1 DEF ManagerInv, InOrder, Manager!InOrder
  <2>4. applied' \in [Migs -> Nat]
    BY <1>2, <2>1
  <2>5. ManagerTypes'
    BY <1>1, <1>2, <1>6, <2>1, <2>4 DEF ManagerInv, ManagerTypes, UpSteps
  <2>6. CacheIsTable'
    BY <1>1, <1>2, <1>3, <1>4, <2>1 DEF ManagerInv, CacheIsTable, DownSteps
  <2> QED BY <1>3, <1>4, <1>5, <1>7, <2>2, <2>3, <2>5, <2>6 DEF ManagerInv
<1>9. CASE ~r.ok /\ r.done = <<>>
  <2>1. applied' = applied /\ recorded' = recorded
    BY <1>1, <1>9, QuietDoes DEF ManagerInv
  <2>2. InForce' /\ InOrder'
    BY <1>1, <2>1, QuietTables DEF ManagerInv
  <2>3. ManagerTypes'
    BY <1>1, <1>2, <1>6, <2>1 DEF ManagerInv, ManagerTypes, UpSteps
  <2>4. CacheIsTable'
    BY <1>1, <1>3, <1>4, <1>9 DEF ManagerInv, CacheIsTable, DownSteps
  <2> QED BY <1>3, <1>4, <1>5, <1>7, <2>2, <2>3, <2>4 DEF ManagerInv
<1> QED BY <1>3, <1>8, <1>9

\* Another process is faster.
LEMMA OtherMigratesInv ==
    ASSUME ManagerInv, NEW m \in Migs, Manager!OtherMigrates(m)
    PROVE  ManagerInv'
<1> USE DEF Manager!OtherMigrates
<1>1. PICK n \in DOMAIN Chain : Chain[n] = m
  BY DEF Migs, Manager!Migs, Manager!Range
<1>2. Len(Chain) \in Nat /\ DOMAIN Chain = 1..Len(Chain)
  BY ChainAssumption
<1>3. \A i \in 1..(n - 1) : Chain[i] \in recorded
  BY <1>1, <1>2
<1>4. applied \in [Migs -> Nat]
  BY DEF ManagerInv, ManagerTypes
<1>5. applied' = [x \in Migs |-> IF x = m THEN applied[x] + UpLength ELSE applied[x]]
  BY <1>4
<1>6. applied' \in [Migs -> Nat] /\ InForce' /\ InOrder'
  <2>1. /\ recorded' = recorded \cup {m} /\ undone' = undone /\ foreign \subseteq foreign'
        /\ m \notin recorded \/ m \in foreign'
        /\ \A i \in 1..(n - 1) : Chain[i] \in recorded \cup undone
    BY <1>3
  <2> QED BY <1>1, <1>4, <1>5, <2>1, PutInForce DEF ManagerInv
<1>7. Begun' = Begun
  BY DEF Begun
<1>8. ManagerTypes'
  BY <1>6, <1>7 DEF ManagerInv, ManagerTypes
<1>9. TransactionAt' /\ Clean(Ops, conn)'
  BY DEF ManagerInv, TransactionAt
<1>10. CacheIsTable'
  BY DEF ManagerInv, CacheIsTable
<1>11. ChainSoFar'
  BY <1>7 DEF ManagerInv, ChainSoFar
<1> QED BY <1>6, <1>8, <1>9, <1>10, <1>11 DEF ManagerInv

\* A new connection has no transaction.
LEMMA NewIsClean ==
    ASSUME NEW W
    PROVE  Clean(W, NewConnection)
BY DEF Clean, NewConnection, NoMark

LEMMA RestartInv ==
    ASSUME ManagerInv, Manager!Restart
    PROVE  ManagerInv'
<1>1. /\ conn' = NewConnection /\ cache' = recorded /\ pc' = "idle" /\ rest' = <<>>
      /\ UNCHANGED <<applied, recorded, mig, done, undone, foreign>>
  BY SameForManager DEF Manager!Restart, Manager!Loaded
<1>2. Clean(Ops, conn)'
  BY <1>1, NewIsClean
<1>3. rest' \in Seq(Migs) /\ Len(rest') = 0 /\ Len(Chain) \in Nat
  BY <1>1, ChainAssumption
<1>4. ManagerTypes'
  BY <1>1, <1>3 DEF ManagerInv, ManagerTypes
<1>5. TransactionAt'
  BY <1>1 DEF TransactionAt, NewConnection
<1>6. CacheIsTable'
  BY <1>1 DEF CacheIsTable, DownSteps
<1>7. ChainSoFar'
  BY <1>1 DEF ChainSoFar, UpSteps
<1>8. InForce' /\ InOrder'
  BY <1>1, QuietTables DEF ManagerInv
<1> QED BY <1>2, <1>4, <1>5, <1>6, <1>7, <1>8 DEF ManagerInv

LEMMA ManagerStarts ==
    ASSUME Manager!Init
    PROVE  ManagerInv
<1> USE DEF Manager!Init
<1>1. conn = NewConnection
  BY SameForManager
<1>2. Clean(Ops, conn)
  BY <1>1, NewIsClean
<1>3. rest \in Seq(Migs) /\ Len(rest) = 0 /\ Len(Chain) \in Nat \ {0} /\ UpLength \in Nat
  BY ChainAssumption
<1>4. mig \in Migs /\ applied = [m \in Migs |-> 0]
  BY <1>3, ChainAssumption DEF Migs, Manager!Migs, Manager!Range
<1>5. ManagerTypes
  BY <1>3, <1>4 DEF ManagerTypes
<1>6. TransactionAt
  BY <1>1 DEF TransactionAt, NewConnection
<1>7. CacheIsTable /\ ChainSoFar
  BY DEF CacheIsTable, ChainSoFar, DownSteps, UpSteps
<1>8. InForce
  <2>1. 0 = 0 * UpLength
    BY <1>3
  <2> QED BY <1>3, <1>4, <2>1 DEF InForce
<1>9. InOrder
  BY DEF InOrder, Manager!InOrder
<1> QED BY <1>2, <1>5, <1>6, <1>7, <1>8, <1>9 DEF ManagerInv

LEMMA ManagerStep ==
    ASSUME ~DeferredErrors, ManagerInv, [Next]_vars
    PROVE  ManagerInv'
<1>1. CASE Manager!Next
  <2>1. Manager!Migs = Migs
    BY DEF Migs
  <2> QED
    BY <1>1, <2>1, MigrateAllInv, MigrateInv, RollBackInv, BeginUpInv, SavepointUpInv,
       ExecuteUpInv, MarkExecutedInv, CommitUpInv, UndoToSavepointInv, UndoAllInv,
       MigrationFailsInv, BeginDownInv, ExecuteDownInv, UnmarkExecutedInv, CommitDownInv,
       RestartInv, OtherMigratesInv
    DEF Manager!Next
<1>2. CASE UNCHANGED managerVars
  <2>1. UNCHANGED <<conn, applied, recorded, cache, pc, mig, done, rest, undone, foreign>>
    BY <1>2 DEF managerVars
  <2>2. ManagerTypes' /\ TransactionAt' /\ Clean(Ops, conn)'
    BY <2>1 DEF ManagerInv, ManagerTypes, TransactionAt, Begun
  <2>3. CacheIsTable' /\ ChainSoFar'
    BY <2>1 DEF ManagerInv, CacheIsTable, ChainSoFar, Begun
  <2>4. InForce' /\ InOrder'
    BY <2>1, QuietTables DEF ManagerInv
  <2> QED BY <2>2, <2>3, <2>4 DEF ManagerInv
<1> QED BY <1>1, <1>2 DEF Next, vars

\* Where no constraint is deferred to COMMIT, a migration is in force only if
\* those before it in the chain are, or were rolled back on request: for every
\* chain, through failing statements, lost connections, crashes and another
\* process that migrates the same database.
THEOREM MigrationsInOrder == ~DeferredErrors => (Spec => []InOrder)
<1> SUFFICES ASSUME ~DeferredErrors PROVE Spec => []InOrder
  OBVIOUS
<1>1. Init => ManagerInv
  BY ManagerStarts DEF Init
<1>2. ManagerInv /\ [Next]_vars => ManagerInv'
  BY ManagerStep
<1>3. ManagerInv => InOrder
  BY DEF ManagerInv
<1> QED BY <1>1, <1>2, <1>3, PTL DEF Spec

\* A multiple leaves no remainder.
LEMMA NoRemainder ==
    ASSUME NEW k \in Nat, NEW n \in Nat \ {0}
    PROVE  (k * n) % n = 0
OBVIOUS

\* Under the same assumption the statements of a migration are in force
\* completely or not at all, and exactly when its row is in the table, once
\* unless another process executed it too.
THEOREM MigrationsWhole == ~DeferredErrors => (Spec => []WholeOrNothing)
<1> SUFFICES ASSUME ~DeferredErrors PROVE Spec => []WholeOrNothing
  OBVIOUS
<1>1. Init => ManagerInv
  BY ManagerStarts DEF Init
<1>2. ManagerInv /\ [Next]_vars => ManagerInv'
  BY ManagerStep
<1>3. ManagerInv => WholeOrNothing
  <2> SUFFICES ASSUME InForce, NEW m \in Migs
               PROVE  /\ applied[m] > 0 <=> m \in recorded
                      /\ applied[m] % UpLength = 0
                      /\ m \notin foreign => applied[m] <= UpLength
    BY DEF ManagerInv, WholeOrNothing, Manager!WholeOrNothing, Migs
  <2>1. UpLength \in Nat \ {0}
    BY ChainAssumption
  <2>2. PICK k \in Nat : applied[m] = k * UpLength
    BY DEF InForce
  <2>3. applied[m] % UpLength = 0
    BY <2>1, <2>2, NoRemainder
  <2> QED BY <2>3 DEF InForce
<1> QED BY <1>1, <1>2, <1>3, PTL DEF Spec
===============================================================================
