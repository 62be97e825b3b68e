------------------------------ MODULE MCTopUp ------------------------------
(* Small instances of the top-ups. *)
EXTENDS TopUp, TLC
CONSTANTS t1, t2, w1, o1, o2, c1, a1, a2

MCUsd == [o \in Order |-> IF o = o1 THEN 1 ELSE 2]
MCCny == [o \in Order |-> 1]
ApplierSymmetry == Permutations(Applier)
NoInts == {}
=============================================================================
