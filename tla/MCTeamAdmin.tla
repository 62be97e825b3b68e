---------------------------- MODULE MCTeamAdmin ----------------------------
(* Small instances of the team console. *)
EXTENDS TeamAdmin, TLC
CONSTANTS t1, t2, t3, w1, w2, r1, r2

NoOrders == [o \in Order |-> 1]
NoInts == {}
Symmetries == Permutations(Token) \cup Permutations(Workspace) \cup Permutations(Request)
=============================================================================
