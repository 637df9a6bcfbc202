---------------------------- MODULE MCHttpsServer ----------------------------
(* Two contexts and up to three clients.                                     *)
EXTENDS HttpsServer, TLC

CONSTANTS k1, k2, k3

TwoConns == {k1, k2}
ThreeConns == {k1, k2, k3}
ConnSymmetry == Permutations(ThreeConns)
===============================================================================
