------------------------------ MODULE MCSignals -----------------------------
(* Small instances of Signals for TLC.  A handler that may make calls need   *)
(* not, so {"owner"} and {"handler"} are covered by the two together; a      *)
(* manager is considered without a handler that resets it as well.           *)
EXTENDS Signals

MCUsages == {{"owner", "handler"}, {"manager"}, {"manager", "handler"}, {"barrier"}}
=============================================================================
