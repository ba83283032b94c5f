------------------------------ MODULE MCSyncer ------------------------------
(* A small instance of Syncer for TLC. *)
EXTENDS Syncer
=============================================================================
