----------------------------- MODULE MCPktRelay -----------------------------
(* A small instance of PktRelay for TLC. *)
EXTENDS PktRelay
=============================================================================
