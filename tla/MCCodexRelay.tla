---------------------------- MODULE MCCodexRelay ----------------------------
(* Small instances of the Codex relay. *)
EXTENDS CodexRelay
CONSTANTS c1, c2

NoKeys == {}
=============================================================================
