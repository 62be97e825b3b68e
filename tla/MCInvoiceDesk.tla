--------------------------- MODULE MCInvoiceDesk ---------------------------
(* Small instances of the invoice desk. *)
EXTENDS InvoiceDesk, TLC
CONSTANTS t1, o1, i1, i2, k1, k2

MCUsd == [o \in Order |-> 1]
MCCny == [o \in Order |-> 2]
NoInts == {}
Symmetries == Permutations(Clerk)
=============================================================================
