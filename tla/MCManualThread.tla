--------------------------- MODULE MCManualThread ---------------------------
(* ManualThread for TLC: two operations, two calls of run(). *)
EXTENDS ManualThread
=============================================================================
