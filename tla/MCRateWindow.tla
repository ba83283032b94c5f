---------------------------- MODULE MCRateWindow ----------------------------
(* Small instances of RateWindow for TLC. *)
EXTENDS RateWindow, TLC

CONSTANTS c1, c2, s1, s2

CpuSymmetry == Permutations({c1, c2})
=============================================================================
