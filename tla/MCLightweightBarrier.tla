------------------------ MODULE MCLightweightBarrier ------------------------
(* Small instances of LightweightBarrier for TLC. *)
EXTENDS LightweightBarrier
=============================================================================
