---------------------------- MODULE MCThreadPool ----------------------------
(* Small instances of ThreadPool for TLC: the first operation waits for the  *)
(* second one, which may be submitted later and by another thread.           *)
EXTENDS ThreadPool

CONSTANTS o1, o2

MCNeeds == [o \in Operations |-> IF o = o1 THEN {o2} ELSE {}]
=============================================================================
