-------------------------------- MODULE MCHttp --------------------------------
(***************************************************************************)
(* HttpStack with a Server of two worker threads and three clients, stop() *)
(* being called at any time; connections with three requests, the plain    *)
(* one with two idle handlers in flight, a stale one and the one of the    *)
(* wait that followed it, the HTTPS one with a queue that has room for a   *)
(* result, a handler of each timer and a stale idle handler; and an int of *)
(* ten bits with sizes that keep the proportions of the budgets to their   *)
(* floors and caps.                                                        *)
(***************************************************************************)
EXTENDS HttpStack

SomeRlimits == (0..8) \cup {40, 63, 64, 65, 511, 512, 1030}
SomeConnSettings == {-1, 0, 5}
===============================================================================
