--------------------------------- MODULE Model ---------------------------------
(***************************************************************************)
(* The active record Model<Derived> and Collection: objects in memory,     *)
(* written to one table through the shared default Database, and read back *)
(* by queries that open a connection of their own.                         *)
(*                                                                         *)
(* A statement is what it does to the table: the rows it inserts, the      *)
(* columns it sets in rows that exist, the rows it deletes.  The table as  *)
(* the default connection sees it is the committed one with the work of    *)
(* its open transaction on top; everybody else sees the committed one.     *)
(* The application does not overwrite the key of an object itself.         *)
(***************************************************************************)
EXTENDS Connection, FiniteSets, SequencesExt

CONSTANTS
    Objs,      \* the objects that may be made
    Fields,    \* fields without the primary key
    Fillable,  \* fillable
    Texts,     \* the values the application uses; "" is the empty string
    Inputs,    \* the maps it passes to create, fill and update
    MaxId,     \* bound: keys handed out by the table's sequence
    MaxBatch,  \* bound: objects in one Collection
    MaxCalls   \* bound: calls

VARIABLES
    conn,   \* the connection of the default Database
    rows,   \* the committed table: key |-> field |-> text, or Null
    seq,    \* the next key of the table's sequence; some may stay unused
    objs,   \* the objects made so far: [id, vals], with id = 0 for no id
    calls,  \* calls made
    last,   \* history: the last call, its result and its objects
    maker,  \* history: the object whose save() inserted a key
    unsure  \* history: objects whose save() failed, or that saveMany inserted

vars == <<conn, rows, seq, objs, calls, last, maker, unsure>>

Null == "null"

\* Attributes: texts for some of the fields.
Data == UNION {[F -> Texts] : F \in SUBSET Fields}
Record == [id : 0..MaxId, vals : Data]
Present == DOMAIN objs

\* The vectors of objects a Collection may hold.
Batches == UNION {[1..n -> Present] : n \in 1..MaxBatch}
-----------------------------------------------------------------------------
(* Statements and tables.                                                  *)

None == [x \in {} |-> x]

\* f, and g where f has nothing.
Over(f, g) == [x \in DOMAIN f \cup DOMAIN g |-> IF x \in DOMAIN f THEN f[x] ELSE g[x]]

InsertOf(new) == [ins |-> new, puts |-> None, dels |-> {}]
UpdateOf(puts) == [ins |-> None, puts |-> puts, dels |-> {}]
DeleteOf(ids) == [ins |-> None, puts |-> None, dels |-> ids]

\* A statement's effect on table t.
Effect(t, w) ==
    Over(w.ins, [k \in DOMAIN t \ w.dels |->
                    IF k \in DOMAIN w.puts THEN Over(w.puts[k], t[k]) ELSE t[k]])

\* The table after each of the statements, and after all of them.
AfterEach(t, work) ==
    LET upTo[i \in 0..Len(work)] == IF i = 0 THEN t ELSE Effect(upTo[i - 1], work[i])
    IN  upTo
After(t, work) == AfterEach(t, work)[Len(work)]

\* The table as the default connection sees it.
View(t, c) == After(t, c.work)

\* A row that was given only some columns.
Row(vals) == [f \in Fields |-> IF f \in DOMAIN vals THEN vals[f] ELSE Null]

Restricted(vals, F) == [f \in DOMAIN vals \cap F |-> vals[f]]
NonEmpty(vals) == Restricted(vals, {f \in DOMAIN vals : vals[f] # ""})
-----------------------------------------------------------------------------
(* Variants with a plausible slip: an insert that drops the returned key,  *)
(* an update without its WHERE, a batch that inserts all of its objects.   *)

KeyDropped(m, id) == m
UpdateAll(m) == [k \in 1..MaxId |-> m.vals]
Everything(b) == b
-----------------------------------------------------------------------------
(* Helpers of the operations.                                              *)

\* attributes[primary_key] = row.at(primary_key)
WithKey(m, id) == [m EXCEPT !.id = id]

\* UPDATE ... SET every attribute but the key ... WHERE key
Sets(m) == [k \in {m.id} |-> m.vals]

\* What a query() of Model reads: ModelQueryBuilder::get opens a Database.
Committed == rows

\* The objects of b that are in S, in their order: push_back in a loop.
ChosenUpTo(b, S) ==
    LET upTo[i \in 0..Len(b)] ==
          IF i = 0 THEN <<>> ELSE IF b[i] \in S THEN Append(upTo[i - 1], b[i]) ELSE upTo[i - 1]
    IN  upTo
Chosen(b, S) == ChosenUpTo(b, S)[Len(b)]

\* The objects of batch b that saveMany updates, and those it inserts.
ToUpdate(b) == Chosen(b, {o \in Present : objs[o].id # 0})
ToInsert(b) == Chosen(b, {o \in Present : objs[o].id = 0})

\* The UPDATEs of a batch, in order, sent as one command: a later one wins.
BatchPuts(s) ==
    LET setting(k, f) ==
          {i \in DOMAIN s : objs[s[i]].id = k /\ f \in DOMAIN NonEmpty(objs[s[i]].vals)}
    IN  [k \in {objs[o].id : o \in ToSet(s)} |->
            [f \in {g \in Fields : setting(k, g) # {}} |-> objs[s[Max(setting(k, f))]].vals[f]]]

\* create and fill: the keys that may be assigned.
Assigned(vals, data) == Over(Restricted(data, Fillable), vals)

\* An attribute of a loaded object: PQgetvalue gives "" for NULL.
Loaded(row) == [f \in Fields |-> IF row[f] = Null THEN "" ELSE row[f]]
-----------------------------------------------------------------------------
Init ==
    /\ conn = NewConnection /\ rows = None /\ seq = 1
    /\ objs = None /\ calls = 0
    /\ last = [op |-> "none", ok |-> TRUE, batch |-> <<>>]
    /\ maker = None /\ unsure = {}

\* A call that returned ok, on the objects of batch b.
Called(op, ok, b) ==
    /\ calls < MaxCalls
    /\ calls' = calls + 1
    /\ last' = [op |-> op, ok |-> ok, batch |-> b]

\* The connection and the committed table after outcome r.
Outcome(r) ==
    /\ conn' = r.conn
    /\ rows' = After(rows, r.done)

Memory == <<seq, objs, maker, unsure>>
Tables == <<conn, rows, seq, maker>>

(* The objects in memory.                                                  *)

Make(o, m) == o \notin Present /\ objs' = Over([p \in {o} |-> m], objs)

Create(o, data, withFields) ==
    /\ Make(o, [id |-> 0, vals |-> IF withFields THEN data ELSE Assigned(None, data)])
    /\ Called("create", TRUE, <<o>>)
    /\ UNCHANGED <<Tables, unsure>>

Fill(o, data) ==
    /\ o \in Present
    /\ objs' = [objs EXCEPT ![o].vals = Assigned(@, data)]
    /\ Called("fill", TRUE, <<o>>)
    /\ UNCHANGED <<Tables, unsure>>

SetAttribute(o, f, v) ==
    /\ o \in Present
    /\ objs' = [objs EXCEPT ![o].vals = Over([g \in {f} |-> v], @)]
    /\ Called("setAttribute", TRUE, <<o>>)
    /\ UNCHANGED <<Tables, unsure>>

\* find(id): a row with that key, or nothing, or no connection: a nullptr.
Find(o, id) ==
    /\ \/ /\ id \in DOMAIN Committed
          /\ Make(o, [id |-> id, vals |-> Loaded(Committed[id])])
          /\ Called("find", TRUE, <<o>>)
       \/ /\ Called("find", FALSE, <<>>)
          /\ UNCHANGED objs
    /\ UNCHANGED <<Tables, unsure>>

(* save()                                                                  *)

\* validate() or beforeSave() of the derived class, or nothing to save.
SaveRefused(o) ==
    /\ o \in Present
    /\ Called("save", FALSE, <<o>>)
    /\ UNCHANGED <<Memory, conn, rows>>

SaveUpdate(o) ==
    /\ o \in Present /\ objs[o].id # 0 /\ objs[o].vals # None
    /\ \E r \in Execute(conn, UpdateOf(Sets(objs[o]))) :
          /\ Outcome(r)
          /\ Called("save", r.ok, <<o>>)
          /\ unsure' = IF r.ok THEN unsure ELSE unsure \cup {o}
    /\ UNCHANGED <<seq, objs, maker>>

\* queryMap does not roll back on a failure; a text with a question mark is
\* refused before anything is sent.
QueryMap(c, w) == SqlStatement(c, w) \cup {Throws(c, <<>>)}

\* INSERT ... RETURNING
SaveInsert(o) ==
    /\ o \in Present /\ objs[o].id = 0 /\ objs[o].vals # None /\ seq <= MaxId
    /\ \E r \in QueryMap(conn, InsertOf([k \in {seq} |-> Row(objs[o].vals)])) :
          /\ Outcome(r)
          /\ Called("save", r.ok, <<o>>)
          /\ objs' = IF r.ok THEN [objs EXCEPT ![o] = WithKey(@, seq)] ELSE objs
          /\ unsure' = IF r.ok THEN unsure ELSE unsure \cup {o}
          /\ maker' = Over([k \in {seq} |-> o], maker)
    /\ seq' = seq + 1

(* saveMany, of Model and of Collection::save                              *)

\* The columns of the INSERT: what the first object of the batch has.
Columns(b) == DOMAIN NonEmpty(objs[Head(b)].vals)

\* getAttribute throws out of saveMany when an object lacks a column.
MissesColumn(b) == \E o \in ToSet(ToInsert(b)) : ~ (Columns(b) \subseteq DOMAIN objs[o].vals)

BatchRows(b) ==
    [k \in seq..(seq + Len(ToInsert(b)) - 1) |->
        Row(Restricted(objs[ToInsert(b)[k - seq + 1]].vals, Columns(b)))]

\* The outcomes of the UPDATE command, if there is anything to update.
BatchUpdates(b) ==
    LET s == Chosen(ToUpdate(b), {o \in Present : NonEmpty(objs[o].vals) # None})
    IN  IF s = <<>> THEN {Returns(conn, <<>>)} ELSE Execute(conn, UpdateOf(BatchPuts(s)))

\* The outcomes of the INSERT on connection c.
BatchInserts(b, c) ==
    IF ToInsert(b) = <<>> THEN {Returns(c, <<>>)}
    ELSE IF Columns(b) = {} \/ MissesColumn(b) THEN {Throws(c, <<>>)}
    ELSE Execute(c, InsertOf(BatchRows(b)))

SaveMany(b) ==
    /\ seq + Len(ToInsert(b)) <= MaxId + 1
    /\ \E u \in BatchUpdates(b) :
       \E r \in IF u.ok THEN BatchInserts(b, u.conn) ELSE {u} :
          /\ Outcome([r EXCEPT !.done = IF u.ok THEN u.done \o @ ELSE @])
          /\ Called("saveMany", r.ok, b)
    /\ seq' = seq + Len(ToInsert(b))
    /\ unsure' = unsure \cup ToSet(ToInsert(b))
    /\ UNCHANGED <<objs, maker>>

(* The other writes; failures are logged, not thrown.                      *)

Write(op, b, outcomes, answer(_)) ==
    /\ \E r \in outcomes : Outcome(r) /\ Called(op, answer(r), b)
    /\ UNCHANGED Memory

Quiet(r) == TRUE
Told(r) == r.ok

Update(id, data) ==
    /\ data # None
    /\ Write("update", <<>>, Execute(conn, UpdateOf([k \in {id} |-> data])), Quiet)

\* delete_ of one object: without an id nothing is sent.
Deletes(c, o) ==
    IF objs[o].id = 0 THEN {Returns(c, <<>>)} ELSE Execute(c, DeleteOf({objs[o].id}))

\* Collection::delete_: one DELETE after the other, whatever happens.
DeletesUpTo(b) ==
    LET upTo[i \in 0..Len(b)] ==
          IF i = 0 THEN {Returns(conn, <<>>)}
          ELSE UNION {{[s EXCEPT !.done = r.done \o @] : s \in Deletes(r.conn, b[i])}
                        : r \in upTo[i - 1]}
    IN  upTo
DeletesAll(b) == DeletesUpTo(b)[Len(b)]

Delete(o) == o \in Present /\ Write("delete", <<o>>, Deletes(conn, o), Quiet)
DeleteAll(b) == Write("deleteAll", b, DeletesAll(b), Quiet)
DeleteById(id) == Write("deleteById", <<>>, Execute(conn, DeleteOf({id})), Quiet)
DeleteWhere(f, v) ==
    LET t == View(rows, conn)
    IN  Write("deleteWhere", <<>>, Execute(conn, DeleteOf({k \in DOMAIN t : t[k][f] = v})), Told)

(* The caller's transactions, and a new Database after a lost connection.  *)

Begin == ~conn.flag /\ Write("transaction", <<>>, Transaction(conn), Told)
End == conn.flag /\ Write("commit", <<>>, Commit(conn), Told)
Undo == conn.flag /\ Write("rollback", <<>>, Rollback(conn), Told)
SetDatabase == conn.srv = "lost" /\ Write("setDatabase", <<>>, {Returns(NewConnection, <<>>)}, Told)

Next ==
    \/ \E o \in Objs : \/ \E data \in Inputs, all \in BOOLEAN : Create(o, data, all)
                       \/ \E data \in Inputs : Fill(o, data)
                       \/ \E f \in Fields, v \in Texts : SetAttribute(o, f, v)
                       \/ \E id \in 1..MaxId : Find(o, id)
                       \/ SaveRefused(o) \/ SaveUpdate(o) \/ SaveInsert(o) \/ Delete(o)
    \/ \E b \in Batches : SaveMany(b) \/ DeleteAll(b)
    \/ \E id \in 1..MaxId : DeleteById(id) \/ \E data \in Inputs : Update(id, data)
    \/ \E f \in Fields, v \in Texts : DeleteWhere(f, v)
    \/ Begin \/ End \/ Undo \/ SetDatabase

Spec == Init /\ [][Next]_vars
-----------------------------------------------------------------------------
(* Properties.                                                             *)

\* The shape of the state: an object has texts for fields only, a row has
\* every field, and keys come from the sequence.
TypeOK ==
    /\ \A o \in Present : objs[o] \in Record
    /\ \A k \in DOMAIN rows : k < seq /\ rows[k] \in [Fields -> Texts \cup {Null}]
    /\ seq \in 1..(MaxId + 1)

\* However often an object is saved, and whatever is rolled back, deleted or
\* batched in between, save() gives it at most one row, unless an answer was
\* lost or saveMany inserted it, which leaves it without a key.
OneRowPerObject ==
    LET t == View(rows, conn)
    IN  \A o \in Objs \ unsure :
           Cardinality({k \in DOMAIN t \cap DOMAIN maker : maker[k] = o}) <= 1

\* A save() that succeeds has inserted one new row, of an object without a key,
\* or changed at most the row of its object's key: there the columns that the
\* object has, with whatever it holds, stale or not.  No other row is touched,
\* made or deleted.  The UPDATE of a row that is gone changes nothing, and
\* save() answers true all the same (Model.hpp, save).
SaveStep(o) ==
    LET t == View(rows, conn)  u == View(rows', conn')
        id == objs'[o].id  vals == objs[o].vals
    IN  /\ IF objs[o].id = 0 THEN id \notin DOMAIN t /\ DOMAIN u = DOMAIN t \cup {id}
                             ELSE DOMAIN u = DOMAIN t
        /\ \A k \in DOMAIN u, f \in Fields :
              u[k][f] = IF k = id /\ f \in DOMAIN vals THEN vals[f]
                        ELSE IF k \in DOMAIN t THEN t[k][f] ELSE Null
OwnRowOnly ==
    [][last'.op = "save" /\ last'.ok => SaveStep(Head(last'.batch))]_vars

\* A saveMany() that answers true has given every row that a keyed object of
\* the batch still has the object's values, and every other object a row of
\* its own, with the columns of the first object and nothing in the rest.  A
\* keyed object whose row is gone gets none, and the answer is true all the
\* same.  One that fails, or throws, has inserted nothing, and has made all of
\* its updates or none; those it made stay, unless the transaction was rolled
\* back or the connection lost (Model.hpp, saveMany).
BatchStep(b, ok) ==
    LET t == View(rows, conn)  u == View(rows', conn')
        values(o) == NonEmpty(objs[o].vals)
        given(k, f) == {values(o)[f] : o \in {p \in ToSet(b) : objs[p].id = k /\ f \in DOMAIN values(p)}}
        updated == /\ DOMAIN t \subseteq DOMAIN u
                   /\ \A k \in DOMAIN t, f \in Fields :
                        u[k][f] \in IF given(k, f) = {} THEN {t[k][f]} ELSE given(k, f)
        keyless == {i \in DOMAIN b : objs[b[i]].id = 0}
        new == DOMAIN u \ DOMAIN t
        holds(k, o) == \A f \in Fields :
                          u[k][f] = IF f \in DOMAIN values(b[1]) THEN objs[o].vals[f] ELSE Null
        inserted == \E row \in [keyless -> new] :
                       /\ \A i, j \in keyless : row[i] = row[j] => i = j
                       /\ \A k \in new : \E i \in keyless : row[i] = k
                       /\ \A i \in keyless : holds(row[i], b[i])
    IN  IF ok THEN updated /\ inserted
              ELSE u \in {t, rows} \/ (new = {} /\ updated) \/ conn'.srv = "lost"
BatchWholeOrUpdates == [][last'.op = "saveMany" => BatchStep(last'.batch, last'.ok)]_vars

\* Collection::delete_ answers true only if all deletions succeeded: none of
\* the objects' rows is left.
DeletionsTold ==
    last.op = "deleteAll" /\ last.ok =>
       \A i \in DOMAIN last.batch : objs[last.batch[i]].id \notin DOMAIN View(rows, conn)
================================================================================
