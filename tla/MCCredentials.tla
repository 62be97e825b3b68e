---------------------------- MODULE MCCredentials ----------------------------
(* A small instance: one subscription, and two relays that do not agree. *)
EXTENDS Credentials, TLC
CONSTANTS r1, r2, o1, k1, k2

Spellings == "sol-high" :> {"sol-high", "sol"} @@ "mars" :> {"mars"}
Plans == o1 :> {"sol"}
Alike == Permutations({r1, r2})
Catalogs == k1 :> {"luna"} @@ k2 :> {"mars"}
=============================================================================
