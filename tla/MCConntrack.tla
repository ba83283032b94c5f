---------------------------- MODULE MCConntrack ----------------------------
(* A small instance of Conntrack for TLC. *)
EXTENDS Conntrack, TLC

CONSTANTS c1, c2, f1

\* The CPUs are alike.
CpuSymmetry == Permutations(Cpu)
=============================================================================
