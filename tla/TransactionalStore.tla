-------------------------- MODULE TransactionalStore --------------------------
(***************************************************************************)
(* What a caller of Database may rely on, whatever fails: the statements   *)
(* of a transaction become permanent together and in order, or not at all, *)
(* a later part of them may be taken back, and a statement outside a       *)
(* transaction is permanent at once.  Statements are numbered in the order *)
(* they are given; a number is never used again.                           *)
(***************************************************************************)
EXTENDS Integers, SequencesExt

VARIABLES
    committed, \* the statements that are permanent
    pending    \* the statements of the open transaction

Fresh(w) == \A x \in Range(committed) \cup Range(pending) : w > x

Init == committed = <<>> /\ pending = <<>>

Do(w) == Fresh(w) /\ pending' = Append(pending, w) /\ UNCHANGED committed

DoAtOnce(w) ==
    /\ Fresh(w) /\ pending = <<>>
    /\ committed' = Append(committed, w)
    /\ UNCHANGED pending

Commit == committed' = committed \o pending /\ pending' = <<>>

\* The last part of the transaction, or all of it, is taken back.
TakeBack == IsPrefix(pending', pending) /\ UNCHANGED committed

\* The numbers that this step may give to a statement.
Given == (Range(committed') \cup Range(pending')) \ (Range(committed) \cup Range(pending))

Next == Commit \/ TakeBack \/ \E w \in Given : Do(w) \/ DoAtOnce(w)

Spec == Init /\ [][Next]_<<committed, pending>>
===============================================================================
