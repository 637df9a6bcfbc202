----------------------------- MODULE Persistence -----------------------------
(***************************************************************************)
(* The users of the class Database: a Database object in the hands of one  *)
(* caller; a MigrationManager on a connection of its own, beside another   *)
(* process that migrates the same database; and the objects of one Model.  *)
(* None of them reads another's state, so it is enough to look at the      *)
(* behaviours in which one of them, chosen at the start, takes all the     *)
(* steps.                                                                  *)
(***************************************************************************)
EXTENDS Connection

CONSTANTS
    MaxStatements,                \* bound: statements of the caller
    Chain, UpLength,              \* the migrations, and their statements
    MayRollBack, OtherProcess,    \* rollback<M>() and other processes
    Objs, Fields, Fillable, Texts, Inputs,  \* objects and attributes
    MaxId, MaxBatch,              \* bounds: keys, objects in a Collection
    MaxMigrations, MaxMade        \* bounds: calls of both kinds

\* The chain names every migration once, and a migration does something.
ASSUME ChainAssumption ==
    /\ Chain \in Seq({Chain[i] : i \in DOMAIN Chain}) /\ Chain # <<>>
    /\ \A i, j \in DOMAIN Chain : Chain[i] = Chain[j] => i = j
    /\ UpLength \in Nat \ {0}

\* The maps passed to create, fill and update give texts to fields.
ASSUME InputAssumption ==
    /\ Inputs \subseteq UNION {[F -> Texts] : F \in SUBSET Fields}
    /\ MaxId \in Nat /\ MaxBatch \in Nat

VARIABLES
    subject,
    dbConn, permanent, next, last, plain,
    conn, applied, recorded, cache, pc, mig, done, rest, calls, undone, foreign,
    shared, rows, seq, objs, made, answer, maker, unsure

callerVars == <<dbConn, permanent, next, last, plain>>
managerVars == <<conn, applied, recorded, cache, pc, mig, done, rest, calls, undone, foreign>>
modelVars == <<shared, rows, seq, objs, made, answer, maker, unsure>>
vars == <<subject, callerVars, managerVars, modelVars>>

Caller == INSTANCE Database WITH conn <- dbConn
Manager == INSTANCE Migrations WITH MaxCalls <- MaxMigrations
Record == INSTANCE Model
    WITH MaxCalls <- MaxMade, conn <- shared, calls <- made, last <- answer

Init ==
    /\ subject \in {"caller", "manager", "model"}
    /\ Caller!Init /\ Manager!Init /\ Record!Init

Next ==
    /\ UNCHANGED subject
    /\ \/ subject = "caller" /\ Caller!Next /\ UNCHANGED <<managerVars, modelVars>>
       \/ subject = "manager" /\ Manager!Next /\ UNCHANGED <<callerVars, modelVars>>
       \/ subject = "model" /\ Record!Next /\ UNCHANGED <<callerVars, managerVars>>

Spec == Init /\ [][Next]_vars
-----------------------------------------------------------------------------
(* The properties of the modules.                                          *)

\* A Database implements the abstract store: a transaction becomes permanent
\* as a whole, in order and once, or not at all.
ImplementsStore == Caller!ImplementsStore

\* A commit() that returns has made the transaction's work permanent, for a
\* caller without savepoints and query().
CommitTellsTruth == Caller!CommitTellsTruth

\* A migration is in force completely and once exactly when it is recorded.
WholeOrNothing == Manager!WholeOrNothing

\* A migration is in force only if those before it are or were rolled back.
InOrder == Manager!InOrder

\* save() gives an object at most one row, unless an answer was lost.
OneRowPerObject == Record!OneRowPerObject

\* A save() that succeeds writes its own row, and there its own columns.
OwnRowOnly == Record!OwnRowOnly

\* saveMany() writes all of its batch, or inserts nothing and makes all of its
\* updates or none.
BatchWholeOrUpdates == Record!BatchWholeOrUpdates

===============================================================================
