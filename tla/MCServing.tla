----------------------------- MODULE MCServing -----------------------------
(* Small instances of the paid requests. *)
EXTENDS Serving, TLC
CONSTANTS t1, t2, t3, w1, c1, c2, c3, r1, r2

NoOrders == [o \in Order |-> 1]
NoInts == {}
CallerSymmetry == Permutations(Caller)
ProcessSymmetry == Permutations(Caller) \cup Permutations(Resetter)
=============================================================================
