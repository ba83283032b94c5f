--------------------------- MODULE MCHandlerSwap ---------------------------
(* A small instance of HandlerSwap for TLC. *)
EXTENDS HandlerSwap
=============================================================================
