---------------------------- MODULE MCSaasStore ----------------------------
(* Small instances of the store. *)
EXTENDS SaasStore, TLC
CONSTANTS t1, t2, t3, w1, w2, o1, o2, i1, i2

MCUsd == [o \in Order |-> 2]
MCCny == [o \in Order |-> IF o = o1 THEN 3 ELSE 2]
TokenSymmetry == Permutations(Token)
DeltasBoth == {-1, 2}
DeltasUp == {2}
NoInts == {}
=============================================================================
