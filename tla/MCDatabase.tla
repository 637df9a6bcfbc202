------------------------------ MODULE MCDatabase ------------------------------
(***************************************************************************)
(* Persistence with four statements of the caller; a chain of two          *)
(* migrations of two statements, three calls and another process; and two  *)
(* objects of one Model, with two fields, two keys and five calls.         *)
(***************************************************************************)
EXTENDS Persistence

TwoMigrations == <<"m1", "m2">>
SomeInputs == {[name |-> "x"], [name |-> "", note |-> "x"]}
===============================================================================
