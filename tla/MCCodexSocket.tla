---------------------------- MODULE MCCodexSocket ----------------------------
(* Small instances of the Codex sockets. *)
EXTENDS CodexSocket, TLC
CONSTANTS s1, s2, t1, t2, a, b, g1, g2, o1, k1, p1

Strangers == s1 :> t1 @@ s2 :> t2
BothOne == s1 :> t1 @@ s2 :> t1
OneGroup == t1 :> g1
OwnGroups == t1 :> g1 @@ t2 :> g2
TwoAndOne == s1 :> 2 @@ s2 :> 1
OneEach == s1 :> 1 @@ s2 :> 1
=============================================================================
