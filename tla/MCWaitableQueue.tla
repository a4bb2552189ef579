--------------------------- MODULE MCWaitableQueue --------------------------
(* A small instance of WaitableQueue for TLC. *)
EXTENDS WaitableQueue
=============================================================================
