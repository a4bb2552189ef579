--------------------------- MODULE MCEventSource ----------------------------
(* Small instances of EventSource for TLC. *)
EXTENDS EventSource
=============================================================================
