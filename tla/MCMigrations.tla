----------------------------- MODULE MCMigrations -----------------------------
(* A chain of two migrations of two statements.                              *)
EXTENDS Migrations, TLC

CONSTANTS m1, m2

TwoMigrations == <<m1, m2>>
===============================================================================
