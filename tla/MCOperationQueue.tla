-------------------------- MODULE MCOperationQueue --------------------------
(* A small instance of OperationQueue for TLC. *)
EXTENDS OperationQueue
=============================================================================
