----------------------------- MODULE Settlement -----------------------------
(***************************************************************************)
(* What the top-up machinery promises: an order is opened once, then       *)
(* either paid or closed for good, and the only money that enters the      *)
(* books is the credit of an order, once, at the moment it becomes paid.   *)
(* Nothing is said of requests, tokens, retries or rotations.              *)
(***************************************************************************)
EXTENDS Integers

CONSTANTS Order, Usd

VARIABLES
  phase,   \* none, open, paid or closed, for every order
  money    \* everything that is in wallets and pools

vars == <<phase, money>>

Init ==
  /\ phase = [o \in Order |-> "none"]
  /\ money = 0

Open(o) ==
  /\ phase[o] = "none"
  /\ phase' = [phase EXCEPT ![o] = "open"]
  /\ UNCHANGED money

Pay(o) ==
  /\ phase[o] = "open"
  /\ phase' = [phase EXCEPT ![o] = "paid"]
  /\ money' = money + Usd[o]

\* Several at once: the sweeper closes all that are too old.
Close(S) ==
  /\ \A o \in S : phase[o] = "open"
  /\ phase' = [o \in Order |-> IF o \in S THEN "closed" ELSE phase[o]]
  /\ UNCHANGED money

Next ==
  \/ \E o \in Order : Open(o) \/ Pay(o)
  \/ \E S \in SUBSET Order : Close(S)

Spec == Init /\ [][Next]_vars
=============================================================================
