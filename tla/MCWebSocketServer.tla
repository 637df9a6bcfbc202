-------------------------- MODULE MCWebSocketServer --------------------------
(* Two connections, a close handler of the manager, and removals by the     *)
(* application.                                                             *)
EXTENDS WebSocketServer, TLC

CONSTANTS c1, c2

TwoConns == {c1, c2}
ConnSymmetry == Permutations(TwoConns)
==============================================================================
