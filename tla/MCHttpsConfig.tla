---------------------------- MODULE MCHttpsConfig ----------------------------
(* An int of ten bits; sizes in units that keep the proportions of the     *)
(* budgets to their floors and caps.                                         *)
EXTENDS HttpsConfig

SomeRlimits == (0..8) \cup {40, 63, 64, 65, 511, 512, 1030}
SomeMemories == {0, 1, 8}
SomeSettings == {-1, 0, 5}
SomeSizes == {0, 7}
===============================================================================
