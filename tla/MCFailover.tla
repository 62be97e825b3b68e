----------------------------- MODULE MCFailover -----------------------------
(* Small instances of the failover loop. *)
EXTENDS Failover
CONSTANTS o1, o2, k1
=============================================================================
