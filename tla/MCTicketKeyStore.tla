--------------------------- MODULE MCTicketKeyStore ---------------------------
(* Two servers; the first may hold two contexts (the one it started with and *)
(* the one a reload brings).  The interval and the lifetime keep the order   *)
(* of the code's 12 h and 48 h at the ratio 1:2, so that a ring can hold     *)
(* three scheduled keys and the boundary ages are reached.                   *)
EXTENDS TicketKeyStore, TLC

CONSTANTS s1, s2, c1, c2, c3

MCStores == {s1, s2}
MCCtxs == {c1, c2, c3}
MCSymmetry == Permutations(MCStores) \cup Permutations(MCCtxs)
===============================================================================
