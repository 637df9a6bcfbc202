----------------------------- MODULE MCTlsReload -----------------------------
(* Two reloading threads and one renewal of the files.                       *)
EXTENDS TlsReload, TLC

CONSTANTS r1, r2

TwoReloaders == {r1, r2}
ReloaderSymmetry == Permutations(TwoReloaders)
===============================================================================
