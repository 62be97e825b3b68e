---------------------------- MODULE MCStatements ----------------------------
(* Small instances of the usage answers and statements. *)
EXTENDS Statements

ThreeRequests == <<"alice", "bob", "tiny">>
=============================================================================
