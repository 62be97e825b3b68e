---------------------------- MODULE ServingProofs ----------------------------
(***************************************************************************)
(* Proofs about paid requests beside the rotation of their token, for any  *)
(* number of requests, tokens and rotations.                               *)
(***************************************************************************)
EXTENDS Serving, SaasStoreProofs

Jobs == {Idle} \cup [pc : {"moved", "swapfailed"}, old : Token, new : Token]

\* What the requests and the rotations have in hand, and the books.
HandsInv ==
  /\ MoneyInv
  /\ call \in [Caller -> {Idle} \cup Calls]
  /\ job \in [Resetter -> Jobs]
  /\ live \subseteq minted /\ minted \subseteq Token /\ moved \subseteq minted

\* A token that is not registered yet is known to one rotation only.
KeysInv ==
  /\ \A c \in Caller : call[c] # Idle => call[c].token \in minted
  /\ \A r \in Resetter : job[r] # Idle =>
       /\ job[r].old \in moved /\ job[r].new \in minted \ live /\ job[r].old # job[r].new
       /\ \A c \in Caller : call[c] # Idle => call[c].token # job[r].new
       /\ \A s \in Resetter \ {r} : job[s] # Idle => job[s].new # job[r].new

ServingBase == HandsInv /\ KeysInv

\* A request that has begun is one of the records above.
LEMMA CallHas ==
  ASSUME HandsInv, NEW c \in Caller, call[c] # Idle
  PROVE  /\ call[c] \in Calls /\ call[c].token \in Token
         /\ call[c].pc \in {"entered", "walleted", "refused", "forwarding", "served", "found", "ready"}
         /\ call[c].pc = "walleted" => call[c].bal \in Int
         /\ call[c].pc \in {"served", "found", "ready"} => call[c].bills \in 1 .. MaxBills
  BY DEF HandsInv, Calls

LEMMA JobHas ==
  ASSUME HandsInv, NEW r \in Resetter, job[r] # Idle
  PROVE  /\ job[r] \in [pc : {"moved", "swapfailed"}, old : Token, new : Token]
         /\ job[r].old \in Token /\ job[r].new \in Token
  BY DEF HandsInv, Jobs

-----------------------------------------------------------------------------
(***************************************************************************)
(* One request moves on.                                                   *)
(***************************************************************************)
\* What a request may become: it ends, it begins for a registered token, or it
\* goes on for its own.
GoesOn(c) ==
  \E next \in {Idle} \cup Calls :
    /\ Become(c, next)
    /\ \/ next = Idle
       \/ call[c] = Idle /\ next.token \in live
       \/ call[c] # Idle /\ next.token = call[c].token

LEMMA Goes ==
  ASSUME NEW c \in Caller, NEW next \in {Idle} \cup Calls, Become(c, next),
         \/ next = Idle
         \/ call[c] = Idle /\ next.token \in live
         \/ call[c] # Idle /\ next.token = call[c].token
  PROVE  GoesOn(c)
  BY DEF GoesOn

LEMMA NextBillMoves ==
  ASSUME HandsInv, NEW c \in Caller, call[c].pc \in {"served", "found", "ready"}, NextBill(c)
  PROVE  GoesOn(c)
  <1>1. call[c] # Idle
    BY DEF Idle
  <1>2. CASE call[c].bills > 1
    <2> DEFINE next == [call[c] EXCEPT !.pc = "served", !.bills = @ - 1]
    <2>1. call[c].pc \in {"served", "found", "ready"} /\ call[c].token \in Token
          /\ call[c].bills - 1 \in 1 .. MaxBills
      BY <1>1, <1>2, CallHas, ServingAssumption
    <2>2. call[c] \in [pc : {"served", "found", "ready"}, token : Token, bills : 1 .. MaxBills]
      BY <1>1, CallHas DEF Calls
    <2>3. next \in [pc : {"served"}, token : Token, bills : 1 .. MaxBills] /\ next.token = call[c].token
      BY <2>1, <2>2
    <2>4. Become(c, next) /\ next \in Calls
      BY <1>1, <1>2, <2>3 DEF NextBill, Calls
    <2> HIDE DEF next
    <2> QED BY <1>1, <1>2, <2>3, <2>4, Goes
  <1>3. CASE ~(call[c].bills > 1)
    BY <1>3, Goes DEF NextBill, Leave
  <1> QED BY <1>2, <1>3

\* Every step of a request.
LEMMA StepMoves ==
  ASSUME HandsInv, NEW c \in Caller, Step(c) \/ \E t \in Token : Enter(c, t)
  PROVE  GoesOn(c) /\ UNCHANGED <<job, live, minted, moved>>
  <1>1. UNCHANGED <<job, live, minted, moved>>
    BY DEF Step, Enter, CheckWallet, Decline, Admit, TurnAway, NotServed, Serve, FindWallet, EnsureDebitWallet,
       Debit, MissWallet, FailBilling, keyVars
  <1> SUFFICES GoesOn(c)
    BY <1>1
  <1>2. ASSUME NEW t \in Token, Enter(c, t) PROVE GoesOn(c)
    <2> DEFINE next == [pc |-> "entered", token |-> t]
    <2>1. next \in Calls /\ next.token = t
      BY DEF Calls
    <2>2. Become(c, next)
      BY <1>2 DEF Enter
    <2> HIDE DEF next
    <2> QED BY <1>2, <2>1, <2>2, Goes DEF Enter
  <1>3. CASE CheckWallet(c)
    <2> DEFINE next == [pc |-> "walleted", token |-> call[c].token, bal |-> balance[call[c].token]]
    <2>1. call[c] # Idle
      BY <1>3 DEF CheckWallet, Idle
    <2>2. next \in Calls /\ next.token = call[c].token
      BY <2>1, CallHas DEF Calls, HandsInv, MoneyInv, RowsTypeOK
    <2>3. Become(c, next)
      BY <1>3 DEF CheckWallet
    <2> HIDE DEF next
    <2> QED BY <1>3, <2>1, <2>2, <2>3, Goes
  <1>4. CASE Decline(c) \/ TurnAway(c) \/ NotServed(c)
    BY <1>4, Goes DEF Decline, TurnAway, NotServed, Leave
  <1>5. CASE Admit(c)
    <2> DEFINE next == [pc |-> IF TooMany(call[c].token) THEN "refused" ELSE "forwarding",
                        token |-> call[c].token]
    <2>1. call[c] # Idle
      BY <1>5 DEF Admit, Idle
    <2>2. next \in Calls /\ next.token = call[c].token
      BY <2>1, CallHas DEF Calls
    <2>3. Become(c, next)
      BY <1>5 DEF Admit
    <2> HIDE DEF next
    <2> QED BY <1>5, <2>1, <2>2, <2>3, Goes
  <1>6. ASSUME NEW bills \in 1 .. MaxBills, Serve(c, bills) PROVE GoesOn(c)
    <2> DEFINE next == [pc |-> "served", token |-> call[c].token, bills |-> bills]
    <2>1. call[c] # Idle
      BY <1>6 DEF Serve, Idle
    <2>2. next \in Calls /\ next.token = call[c].token
      BY <2>1, CallHas DEF Calls
    <2>3. Become(c, next)
      BY <1>6 DEF Serve
    <2> HIDE DEF next
    <2> QED BY <1>6, <2>1, <2>2, <2>3, Goes
  <1>7. CASE FindWallet(c) \/ EnsureDebitWallet(c)
    <2>1. /\ call[c] # Idle /\ call[c].pc \in {"served", "found"}
          /\ \E n \in {"found", "ready"} : Become(c, [call[c] EXCEPT !.pc = n])
      BY <1>7 DEF FindWallet, EnsureDebitWallet, Idle
    <2>2. \A n \in {"found", "ready"} : /\ [call[c] EXCEPT !.pc = n] \in Calls
                                       /\ [call[c] EXCEPT !.pc = n].token = call[c].token
      BY <2>1, CallHas DEF Calls
    <2> QED BY <2>1, <2>2, Goes
  <1>8. CASE (\E cost \in Costs : Debit(c, cost)) \/ MissWallet(c) \/ FailBilling(c)
    BY <1>8, NextBillMoves DEF Debit, MissWallet, FailBilling
  <1> QED BY <1>1, <1>2, <1>3, <1>4, <1>5, <1>6, <1>7, <1>8 DEF Step

\* A request touches the books when it makes sure of a wallet and when it is
\* debited.
LEMMA StepBooks ==
  ASSUME HandsInv, NEW c \in Caller, Step(c) \/ \E t \in Token : Enter(c, t)
  PROVE  MoneyInv'
  <1>1. CASE CheckWallet(c) \/ EnsureDebitWallet(c)
    <2>1. call[c] # Idle /\ EnsureWallet(call[c].token)
      BY <1>1 DEF CheckWallet, EnsureDebitWallet, Idle
    <2> QED BY <2>1, CallHas, EnsureWalletKeeps DEF HandsInv
  <1>2. ASSUME NEW cost \in Costs, Debit(c, cost) PROVE MoneyInv'
    <2>1. call[c] # Idle /\ ChargeMemberFirst(call[c].token, cost) /\ cost \in Nat
      BY <1>2, StoreAssumption DEF Debit, Idle
    <2> QED BY <2>1, CallHas, ChargeMemberFirstKeeps DEF HandsInv
  <1>3. CASE UNCHANGED storeVars
    BY <1>3, StutterKeeps DEF HandsInv
  <1> QED BY <1>1, <1>2, <1>3 DEF Step, Enter, Decline, Admit, TurnAway, NotServed, Serve, FindWallet,
          MissWallet, FailBilling

\* An operator funds wallets and pools and makes teams.
LEMMA FundBooks ==
  ASSUME HandsInv, Fund
  PROVE  MoneyInv'
  <1>1. live \subseteq Token /\ MoneyInv
    BY DEF HandsInv
  <1> QED BY <1>1, EnsureWalletKeeps, AddBalanceKeeps, CreateWorkspaceKeeps, AdjustWorkspaceBalanceKeeps,
          AddMemberKeeps, StoreAssumption DEF Fund

LEMMA RotationBooks ==
  ASSUME HandsInv, NEW r \in Resetter,
         (\E old, new \in Token : MoveRows(r, old, new)) \/ SwapKey(r) \/ MoveRowsBack(r)
  PROVE  MoneyInv'
  <1>1. CASE UNCHANGED storeVars
    BY <1>1, StutterKeeps DEF HandsInv
  <1>2. ASSUME NEW old \in Token, NEW new \in Token, RekeyToken(old, new) PROVE MoneyInv'
    BY <1>2, RekeyTokenKeeps DEF HandsInv
  <1>3. CASE MoveRowsBack(r)
    <2>1. job[r] # Idle
      BY <1>3 DEF MoveRowsBack, Idle
    <2> QED BY <1>1, <1>2, <1>3, <2>1, JobHas DEF MoveRowsBack
  <1> QED BY <1>1, <1>2, <1>3 DEF MoveRows, SwapKey

-----------------------------------------------------------------------------
(***************************************************************************)
(* Who knows which token.                                                  *)
(***************************************************************************)
LEMMA RequestsKeepKeys ==
  ASSUME ServingBase, NEW c \in Caller, Step(c) \/ \E t \in Token : Enter(c, t)
  PROVE  ServingBase'
  <1> USE DEF ServingBase
  <1>1. MoneyInv' /\ GoesOn(c) /\ UNCHANGED <<job, live, minted, moved>>
    BY StepBooks, StepMoves
  <1>2. PICK next \in {Idle} \cup Calls :
          /\ call' = [call EXCEPT ![c] = next]
          /\ \/ next = Idle
             \/ call[c] = Idle /\ next.token \in live
             \/ call[c] # Idle /\ next.token = call[c].token
    BY <1>1 DEF GoesOn, Become
  <1>3. HandsInv'
    BY <1>1, <1>2 DEF HandsInv
  <1>4. \A d \in Caller : call'[d] # Idle =>
          call'[d].token \in live \/ (call[d] # Idle /\ call'[d].token = call[d].token)
    BY <1>2 DEF HandsInv
  <1>5. KeysInv'
    BY <1>1, <1>4 DEF KeysInv, HandsInv
  <1> QED BY <1>3, <1>5

\* A rotation generates a token nobody has seen.
LEMMA MoveRowsKeepsKeys ==
  ASSUME ServingBase, NEW r \in Resetter, NEW old \in Token, NEW new \in Token, MoveRows(r, old, new)
  PROVE  ServingBase'
  <1> USE DEF ServingBase
  <1>1. MoneyInv'
    BY RotationBooks
  <1>2. /\ old \in minted /\ new \notin minted /\ old # new /\ job[r] = Idle
        /\ minted' = minted \cup {new}
        /\ moved' = moved \cup {old} \cup (IF old \in moved THEN {new} ELSE {})
        /\ job' = [job EXCEPT ![r] = [pc |-> "moved", old |-> old, new |-> new]]
        /\ UNCHANGED <<call, live>>
    BY DEF MoveRows
  <1>3. [pc |-> "moved", old |-> old, new |-> new] \in Jobs
    BY DEF Jobs
  <1>4. HandsInv'
    BY <1>1, <1>2, <1>3 DEF HandsInv
  <1>5. \A s \in Resetter : job'[s] # Idle =>
          \/ s = r /\ job'[s].old = old /\ job'[s].new = new
          \/ s # r /\ job'[s] = job[s]
    BY <1>2 DEF HandsInv
  <1>6. KeysInv'
    BY <1>2, <1>5 DEF KeysInv, HandsInv
  <1> QED BY <1>4, <1>6

LEMMA SwapKeyKeepsKeys ==
  ASSUME ServingBase, NEW r \in Resetter, SwapKey(r)
  PROVE  ServingBase'
  <1> USE DEF ServingBase
  <1>1. MoneyInv' /\ job[r] # Idle
    BY RotationBooks DEF SwapKey, Idle
  <1>2. /\ UNCHANGED <<call, minted, moved>>
        /\ \/ live' = (live \ {job[r].old}) \cup {job[r].new} /\ job' = [job EXCEPT ![r] = Idle]
           \/ UNCHANGED live /\ job' = [job EXCEPT ![r].pc = "swapfailed"]
    BY DEF SwapKey
  <1>3. /\ [job[r] EXCEPT !.pc = "swapfailed"] \in Jobs
        /\ [job[r] EXCEPT !.pc = "swapfailed"].old = job[r].old
        /\ [job[r] EXCEPT !.pc = "swapfailed"].new = job[r].new
    BY <1>1, JobHas DEF Jobs
  <1>4. job[r].new \in minted
    BY <1>1 DEF KeysInv
  <1>5. HandsInv'
    BY <1>1, <1>2, <1>3, <1>4 DEF HandsInv, Jobs
  <1>6. \A s \in Resetter : job'[s] # Idle =>
          job[s] # Idle /\ job'[s].old = job[s].old /\ job'[s].new = job[s].new
    BY <1>1, <1>2, <1>3 DEF HandsInv
  <1>7. \A s \in Resetter : job'[s] # Idle /\ job'[s].new \in live' => job[s].new \in live
    BY <1>1, <1>2, <1>6 DEF KeysInv, HandsInv
  <1>8. KeysInv'
    BY <1>2, <1>6, <1>7 DEF KeysInv
  <1> QED BY <1>5, <1>8

LEMMA OthersKeepKeys ==
  ASSUME ServingBase, (\E r \in Resetter : MoveRowsBack(r)) \/ Restart \/ Fund
  PROVE  ServingBase'
  <1> USE DEF ServingBase
  <1>1. MoneyInv'
    BY RotationBooks, FundBooks, StutterKeeps DEF Restart, HandsInv
  <1>2. /\ UNCHANGED <<live, minted, moved>>
        /\ UNCHANGED call \/ call' = [c \in Caller |-> Idle]
        /\ \/ UNCHANGED job \/ job' = [r \in Resetter |-> Idle]
           \/ \E r \in Resetter : job' = [job EXCEPT ![r] = Idle]
    BY DEF MoveRowsBack, Restart, Fund, keyVars
  <1>3. HandsInv'
    BY <1>1, <1>2 DEF HandsInv, Jobs
  <1>4. /\ \A c \in Caller : call'[c] # Idle => call'[c] = call[c]
        /\ \A r \in Resetter : job'[r] # Idle => job'[r] = job[r]
    BY <1>2 DEF HandsInv
  <1>5. KeysInv'
    BY <1>2, <1>4 DEF KeysInv
  <1> QED BY <1>3, <1>5

LEMMA BaseInit == ServingInit => ServingBase
  <1> SUFFICES ASSUME ServingInit PROVE ServingBase
    OBVIOUS
  <1>1. HandsInv
    BY InitMoney, ServingAssumption DEF ServingInit, HandsInv, Jobs
  <1>2. KeysInv
    BY DEF ServingInit, KeysInv
  <1> QED BY <1>1, <1>2 DEF ServingBase

LEMMA BaseKept ==
  ASSUME ServingBase, [ServingNext]_servingVars
  PROVE  ServingBase'
  <1>1. CASE ServingNext
    BY <1>1, RequestsKeepKeys, MoveRowsKeepsKeys, SwapKeyKeepsKeys, OthersKeepKeys DEF ServingNext
  <1>2. CASE UNCHANGED servingVars
    <2>1. MoneyInv'
      BY <1>2, StutterKeeps DEF servingVars, ServingBase, HandsInv
    <2> QED BY <1>2, <2>1 DEF servingVars, keyVars, ServingBase, HandsInv, KeysInv
  <1> QED BY <1>1, <1>2

-----------------------------------------------------------------------------
(***************************************************************************)
(* The in-flight counter.                                                  *)
(***************************************************************************)
Through == {"forwarding", "served", "found", "ready"}
Slotted == Through \cup {"refused"}
Passing(t) == {c \in Caller : call[c].pc \in Through /\ call[c].token = t}
Holding(t) == {c \in Caller : call[c].pc \in Slotted /\ call[c].token = t}

\* What the property counts.
SlotsRight ==
  \A t \in Token : inflight[t] = Cardinality(Holding(t)) /\ Cardinality(Passing(t)) <= MaxConc

SlotInv == inflight \in [Token -> Int] /\ SlotsRight

LEMMA SlotsAre == SlotsExact <=> SlotsRight
  <1>1. ASSUME NEW t
        PROVE  /\ Passing(t) = {c \in Caller : call[c].pc \in {"forwarding", "served", "found", "ready"}
                                               /\ call[c].token = t}
               /\ Holding(t) = Passing(t) \cup {c \in Caller : call[c].pc = "refused" /\ call[c].token = t}
    BY DEF Passing, Holding, Slotted, Through
  <1> QED BY <1>1 DEF SlotsExact, SlotsRight

\* A request keeps its slot, or goes on without one.
SlotStays(c) ==
  /\ UNCHANGED inflight
  /\ call'[c].pc \in Slotted <=> call[c].pc \in Slotted
  /\ call'[c].pc \in Through => call[c].pc \in Through
  /\ call[c].pc \in Slotted => call'[c].token = call[c].token

\* inflight.Begin, for a request that is let through or is about to be refused.
SlotTaken(c) ==
  /\ call[c].pc \notin Slotted /\ call'[c].pc \in Slotted /\ call'[c].token \in Token
  /\ call'[c].pc \in Through => ~TooMany(call'[c].token)
  /\ inflight' = [inflight EXCEPT ![call'[c].token] = @ + 1]

\* The deferred release.
SlotFreed(c) ==
  /\ call[c].pc \in Slotted /\ call'[c].pc \notin Slotted
  /\ inflight' = [inflight EXCEPT ![call[c].token] = @ - 1]

LEMMA SlotStep ==
  ASSUME HandsInv, SlotInv, NEW c \in Caller, NEW next, Become(c, next),
         SlotStays(c) \/ SlotTaken(c) \/ SlotFreed(c)
  PROVE  SlotInv'
  <1>1. /\ call' = [call EXCEPT ![c] = next] /\ call \in [Caller -> {Idle} \cup Calls]
        /\ inflight \in [Token -> Int] /\ SlotsRight /\ MaxConc \in Nat
    BY ServingAssumption DEF HandsInv, SlotInv, Become
  <1>2. \A t : \A d \in Caller \ {c} :
          /\ d \in Holding(t)' <=> d \in Holding(t)
          /\ d \in Passing(t)' <=> d \in Passing(t)
    BY <1>1 DEF Holding, Passing
  <1>3. \A t : /\ Holding(t) \subseteq Caller /\ Passing(t) \subseteq Holding(t)
               /\ IsFiniteSet(Holding(t)) /\ Cardinality(Holding(t)) \in Nat
               /\ Cardinality(Passing(t)) \in Nat
    <2>1. \A t : Holding(t) \subseteq Caller /\ Passing(t) \subseteq Holding(t)
      BY DEF Holding, Passing, Slotted
    <2>2. \A t : IsFiniteSet(Holding(t)) /\ IsFiniteSet(Passing(t))
      BY <2>1, ServingAssumption, FS_Subset
    <2> QED BY <2>1, <2>2, FS_CardinalityType
  <1>4. CASE SlotStays(c)
    <2>1. \A t : Holding(t)' = Holding(t) /\ Passing(t)' \subseteq Passing(t)
      BY <1>2, <1>4 DEF SlotStays, Holding, Passing, Slotted
    <2>2. \A t : Cardinality(Passing(t)') \in Nat /\ Cardinality(Passing(t)') <= Cardinality(Passing(t))
      BY <1>3, <2>1, ServingAssumption, FS_Subset, FS_CardinalityType
    <2>3. \A t \in Token : Cardinality(Passing(t)') <= MaxConc
      BY <1>1, <1>3, <2>2 DEF SlotsRight
    <2> QED BY <1>1, <1>4, <2>1, <2>3 DEF SlotStays, SlotInv, SlotsRight
  <1>5. CASE SlotTaken(c)
    <2>0. PICK u \in Token : u = call'[c].token
      BY <1>5 DEF SlotTaken
    <2>1. /\ inflight' = [inflight EXCEPT ![u] = @ + 1] /\ inflight[u] = Cardinality(Holding(u))
          /\ call'[c].pc \in Through => inflight[u] + 1 <= MaxConc
      BY <1>1, <1>5, <2>0 DEF SlotTaken, TooMany, SlotsRight
    <2>2. c \notin Holding(u) /\ Holding(u)' = Holding(u) \cup {c}
      BY <1>2, <1>5, <2>0 DEF SlotTaken, Holding
    <2>3. \A t \in Token \ {u} : Holding(t)' = Holding(t) /\ Passing(t)' = Passing(t)
      BY <1>2, <1>5, <2>0 DEF SlotTaken, Holding, Passing, Slotted
    <2>4. Cardinality(Holding(u)') = Cardinality(Holding(u)) + 1
      BY <1>3, <2>2, FS_AddElement
    <2>5. Cardinality(Passing(u)') <= MaxConc
      <3>1. CASE call'[c].pc \in Through
        <4>1. Passing(u)' \subseteq Holding(u)'
          BY DEF Passing, Holding, Slotted
        <4>3. IsFiniteSet(Holding(u)')
          BY <1>3, <2>2, FS_AddElement
        <4>2. /\ Cardinality(Passing(u)') \in Nat /\ Cardinality(Holding(u)') \in Nat
              /\ Cardinality(Passing(u)') <= Cardinality(Holding(u)')
          BY <4>1, <4>3, FS_Subset, FS_CardinalityType
        <4> QED BY <1>1, <1>3, <2>1, <2>4, <3>1, <4>2
      <3>2. CASE call'[c].pc \notin Through
        <4>1. Passing(u)' = Passing(u)
          BY <1>2, <1>5, <3>2 DEF SlotTaken, Passing, Slotted
        <4> QED BY <1>1, <4>1 DEF SlotsRight
      <3> QED BY <3>1, <3>2
    <2>6. inflight' \in [Token -> Int]
      BY <1>1, <2>1
    <2>7. SlotsRight'
      BY <1>1, <2>1, <2>3, <2>4, <2>5 DEF SlotsRight
    <2> QED BY <2>6, <2>7 DEF SlotInv
  <1>6. CASE SlotFreed(c)
    <2>1. call[c] # Idle
      BY <1>6 DEF SlotFreed, Slotted, Through, Idle
    <2>0. PICK u \in Token : u = call[c].token
      BY <2>1, CallHas
    <2>2. inflight' = [inflight EXCEPT ![u] = @ - 1]
      BY <1>6, <2>0 DEF SlotFreed
    <2>3. c \in Holding(u) /\ Holding(u)' = Holding(u) \ {c}
      BY <1>2, <1>6, <2>0 DEF SlotFreed, Holding
    <2>4. \A t \in Token \ {u} : Holding(t)' = Holding(t)
      BY <1>2, <1>6, <2>0 DEF SlotFreed, Holding
    <2>5. Cardinality(Holding(u)') = Cardinality(Holding(u)) - 1
      BY <1>3, <2>3, FS_RemoveElement
    <2>6. \A t : Passing(t)' \subseteq Passing(t)
      BY <1>2, <1>6 DEF SlotFreed, Passing, Slotted
    <2>7. \A t : Cardinality(Passing(t)') \in Nat /\ Cardinality(Passing(t)') <= Cardinality(Passing(t))
      BY <1>3, <2>6, ServingAssumption, FS_Subset, FS_CardinalityType
    <2>8. \A t \in Token : Cardinality(Passing(t)') <= MaxConc
      BY <1>1, <1>3, <2>7 DEF SlotsRight
    <2>9. inflight' \in [Token -> Int]
      BY <1>1, <2>2
    <2>10. SlotsRight'
      BY <1>1, <2>2, <2>4, <2>5, <2>8 DEF SlotsRight
    <2> QED BY <2>9, <2>10 DEF SlotInv
  <1> QED BY <1>4, <1>5, <1>6

LEMMA NextBillSlots ==
  ASSUME HandsInv, NEW c \in Caller, call[c].pc \in {"served", "found", "ready"}, NextBill(c)
  PROVE  SlotStays(c) \/ SlotFreed(c)
  <1>1. call[c] # Idle /\ call \in [Caller -> {Idle} \cup Calls]
    BY DEF Idle, HandsInv
  <1>2. call[c] \in [pc : {"served", "found", "ready"}, token : Token, bills : 1 .. MaxBills]
    BY <1>1, CallHas DEF Calls
  <1>3. CASE call[c].bills > 1
    BY <1>1, <1>2, <1>3 DEF NextBill, Become, SlotStays, Slotted, Through
  <1>4. CASE ~(call[c].bills > 1)
    BY <1>1, <1>4 DEF NextBill, Leave, Become, SlotFreed, Slotted, Through, Idle
  <1> QED BY <1>3, <1>4

\* Every step of a request.
LEMMA RequestSlots ==
  ASSUME HandsInv, NEW c \in Caller, Step(c) \/ \E t \in Token : Enter(c, t)
  PROVE  SlotStays(c) \/ SlotTaken(c) \/ SlotFreed(c)
  <1> USE DEF Slotted, Through
  <1>1. call \in [Caller -> {Idle} \cup Calls]
    BY DEF HandsInv
  <1>2. ASSUME NEW t \in Token, Enter(c, t) PROVE SlotStays(c)
    BY <1>1, <1>2 DEF Enter, Become, SlotStays, Idle
  <1>3. CASE CheckWallet(c) \/ Decline(c)
    BY <1>1, <1>3 DEF CheckWallet, Decline, Become, SlotStays, Idle
  <1>4. CASE Admit(c)
    <2>1. call[c] # Idle /\ call[c].pc \notin Slotted
      BY <1>4 DEF Admit, Idle
    <2>2. call[c].token \in Token
      BY <2>1, CallHas
    <2>3. /\ Become(c, [pc |-> IF TooMany(call[c].token) THEN "refused" ELSE "forwarding",
                        token |-> call[c].token])
          /\ inflight' = [inflight EXCEPT ![call[c].token] = @ + 1]
      BY <1>4 DEF Admit
    <2>4. /\ call'[c].pc = IF TooMany(call[c].token) THEN "refused" ELSE "forwarding"
          /\ call'[c].token = call[c].token
      BY <1>1, <2>3 DEF Become
    <2> QED BY <2>1, <2>2, <2>3, <2>4 DEF SlotTaken
  <1>5. CASE TurnAway(c) \/ NotServed(c)
    BY <1>1, <1>5 DEF TurnAway, NotServed, Leave, Become, SlotFreed, Idle
  <1>6. ASSUME NEW bills \in 1 .. MaxBills, Serve(c, bills) PROVE SlotStays(c)
    BY <1>1, <1>6 DEF Serve, Become, SlotStays
  <1>7. CASE FindWallet(c) \/ EnsureDebitWallet(c)
    <2>1. /\ call[c] # Idle /\ call[c].pc \in {"served", "found"} /\ UNCHANGED inflight
          /\ \E n \in {"found", "ready"} : Become(c, [call[c] EXCEPT !.pc = n])
      BY <1>7 DEF FindWallet, EnsureDebitWallet, Idle
    <2>2. call[c] \in [pc : {"served", "found", "ready"}, token : Token, bills : 1 .. MaxBills]
      BY <2>1, CallHas DEF Calls
    <2> QED BY <1>1, <2>1, <2>2 DEF Become, SlotStays
  <1>8. CASE (\E cost \in Costs : Debit(c, cost)) \/ MissWallet(c) \/ FailBilling(c)
    BY <1>8, NextBillSlots DEF Debit, MissWallet, FailBilling
  <1> QED BY <1>2, <1>3, <1>4, <1>5, <1>6, <1>7, <1>8 DEF Step

Nobody == call = [c \in Caller |-> Idle] /\ inflight = [t \in Token |-> 0]

LEMMA NobodyHolds == Nobody => SlotInv
  <1> SUFFICES ASSUME Nobody PROVE SlotInv
    OBVIOUS
  <1>1. \A t : Holding(t) = {} /\ Passing(t) = {}
    BY DEF Nobody, Holding, Passing, Slotted, Through, Idle
  <1>2. \A t : Cardinality(Holding(t)) = 0 /\ Cardinality(Passing(t)) = 0
    BY <1>1, FS_EmptySet
  <1> QED BY <1>2, ServingAssumption DEF SlotInv, SlotsRight, Nobody

LEMMA NobodyHoldsNext == Nobody' => SlotInv'
  <1> QED BY NobodyHolds, PTL

LEMMA SlotsKept ==
  ASSUME ServingBase, SlotInv, [ServingNext]_servingVars
  PROVE  SlotInv'
  <1>1. ASSUME NEW c \in Caller, Step(c) \/ \E t \in Token : Enter(c, t) PROVE SlotInv'
    <2>1. HandsInv
      BY DEF ServingBase
    <2>2. \E next : Become(c, next)
      BY <1>1, <2>1, StepMoves DEF GoesOn
    <2> QED BY <1>1, <2>1, <2>2, RequestSlots, SlotStep
  <1>2. CASE UNCHANGED <<call, inflight>>
    BY <1>2 DEF SlotInv, SlotsRight, Holding, Passing
  <1>3. CASE Restart
    BY <1>3, NobodyHoldsNext DEF Restart, Nobody
  <1> QED BY <1>1, <1>2, <1>3 DEF ServingNext, MoveRows, SwapKey, MoveRowsBack, Fund, servingVars

\* However many requests raise the counter of a token before the first of them
\* is compared or released, it is the number of those between the two, refused
\* ones included, and never more of them than the limit are let through.
THEOREM SlotsAreExact == ServingSpec => []SlotsExact
  <1>1. ServingInit => SlotInv
    BY NobodyHolds DEF ServingInit, Nobody
  <1>2. SlotInv => SlotsExact
    BY SlotsAre DEF SlotInv
  <1> QED BY <1>1, <1>2, BaseInit, BaseKept, SlotsKept, PTL DEF ServingSpec

-----------------------------------------------------------------------------
(***************************************************************************)
(* A wallet to debit.                                                      *)
(***************************************************************************)
\* A request past its check has a wallet, unless the check failed or a rotation
\* took the wallet away.
PaidInv ==
  /\ unbilled \subseteq unchecked \cup moved
  /\ \A c \in Caller : call[c] # Idle /\ call[c].pc # "entered" =>
       call[c].token \in wallets \cup unchecked \cup moved

LEMMA PaidKept ==
  ASSUME ServingBase, PaidInv, [ServingNext]_servingVars
  PROVE  PaidInv'
  <1> USE DEF ServingBase
  <1>1. ASSUME NEW c \in Caller, Step(c) \/ \E t \in Token : Enter(c, t) PROVE PaidInv'
    <2>1. GoesOn(c) /\ UNCHANGED moved
      BY <1>1, StepMoves
    <2>2. PICK next \in {Idle} \cup Calls :
            /\ call' = [call EXCEPT ![c] = next]
            /\ \/ next = Idle
               \/ call[c] = Idle /\ next.token \in live
               \/ call[c] # Idle /\ next.token = call[c].token
      BY <2>1 DEF GoesOn, Become
    <2>3. call \in [Caller -> {Idle} \cup Calls]
      BY DEF HandsInv
    <2>4. wallets \subseteq wallets' /\ unchecked \subseteq unchecked'
      BY <1>1 DEF Step, Enter, CheckWallet, Decline, Admit, TurnAway, NotServed, Serve, FindWallet,
         EnsureDebitWallet, Debit, MissWallet, FailBilling, EnsureWallet, ChargeMemberFirst, storeVars,
         billVars
    <2>5. unbilled' \subseteq unbilled \cup unchecked' \cup moved'
      <3>1. CASE MissWallet(c)
        <4>1. call[c] # Idle /\ call[c].pc # "entered" /\ call[c].token \notin wallets
              /\ unbilled' = unbilled \cup {call[c].token}
          BY <3>1 DEF MissWallet, Idle
        <4> QED BY <2>1, <2>4, <4>1 DEF PaidInv
      <3>2. CASE ~MissWallet(c)
        BY <1>1, <3>2 DEF Step, Enter, CheckWallet, Decline, Admit, TurnAway, NotServed, Serve, FindWallet,
           EnsureDebitWallet, Debit, FailBilling, billVars
      <3> QED BY <3>1, <3>2
    <2>6. next = Idle \/ next.pc = "entered" \/ next.token \in wallets' \cup unchecked' \cup moved'
      <3>1. CASE call[c] # Idle /\ call[c].pc # "entered"
        BY <2>1, <2>2, <2>4, <3>1 DEF PaidInv
      <3>2. ASSUME NEW t \in Token, Enter(c, t) PROVE next = Idle \/ next.pc = "entered"
        BY <2>2, <2>3, <3>2 DEF Enter, Become
      <3>3. CASE CheckWallet(c)
        BY <2>2, <2>3, <3>3 DEF CheckWallet, Become, EnsureWallet
      <3>4. CASE Admit(c) /\ call[c].pc = "entered"
        <4>1. unchecked' = unchecked \cup {call[c].token} /\ call[c] # Idle
          BY <3>4 DEF Admit, Idle
        <4> QED BY <2>2, <4>1
      <3>5. \/ (\E t \in Token : Enter(c, t)) \/ CheckWallet(c) \/ Admit(c)
            \/ call[c].pc \in {"walleted", "refused", "forwarding", "served", "found", "ready"}
        BY <1>1 DEF Step, Decline, TurnAway, NotServed, Serve, FindWallet, EnsureDebitWallet, Debit, MissWallet,
           FailBilling
      <3>6. Admit(c) => call[c].pc \in {"entered", "walleted"}
        BY DEF Admit
      <3>7. call[c].pc \in {"walleted", "refused", "forwarding", "served", "found", "ready"} =>
              call[c] # Idle /\ call[c].pc # "entered"
        BY DEF Idle
      <3> QED BY <3>1, <3>2, <3>3, <3>4, <3>5, <3>6, <3>7
    <2> QED BY <2>1, <2>2, <2>3, <2>4, <2>5, <2>6 DEF PaidInv
  <1>2. ASSUME NEW r \in Resetter, NEW old \in Token, NEW new \in Token, MoveRows(r, old, new)
        PROVE  PaidInv'
    <2>1. /\ wallets \ {old} \subseteq wallets' /\ moved \cup {old} \subseteq moved'
          /\ unchecked \subseteq unchecked' /\ UNCHANGED <<call, unbilled>>
      BY <1>2 DEF MoveRows, RekeyToken, RekeyWallets
    <2> QED BY <2>1 DEF PaidInv
  <1>3. ASSUME NEW r \in Resetter, MoveRowsBack(r) PROVE PaidInv'
    <2>1. job[r] # Idle
      BY <1>3 DEF MoveRowsBack, Idle
    <2>2. wallets \ {job[r].new} \subseteq wallets' /\ UNCHANGED <<call, moved, unchecked, unbilled>>
      BY <1>3 DEF MoveRowsBack, RekeyToken, RekeyWallets, storeVars, billVars, keyVars
    <2>3. \A c \in Caller : call[c] # Idle => call[c].token # job[r].new
      BY <2>1 DEF KeysInv
    <2> QED BY <2>2, <2>3 DEF PaidInv
  <1>4. CASE Restart
    BY <1>4 DEF Restart, PaidInv, billVars, keyVars
  <1>5. CASE (\E r \in Resetter : SwapKey(r)) \/ Fund \/ UNCHANGED servingVars
    <2>1. wallets \subseteq wallets' /\ UNCHANGED <<call, moved, unchecked, unbilled>>
      BY <1>5 DEF SwapKey, Fund, servingVars, storeVars, billVars, keyVars, EnsureWallet, AddBalance,
         CreateWorkspace, AdjustWorkspaceBalance, AddMember, walletVars
    <2> QED BY <2>1 DEF PaidInv
  <1> QED BY <1>1, <1>2, <1>3, <1>4, <1>5 DEF ServingNext

\* A served request finds a wallet to debit, unless its check had failed or its
\* token was rotated away under it.
THEOREM ServedRequestsHaveWallets == ServingSpec => []WalletFoundAtSettlement
  <1>1. ServingInit => PaidInv
    BY DEF ServingInit, PaidInv
  <1>2. PaidInv => WalletFoundAtSettlement
    BY DEF PaidInv, WalletFoundAtSettlement
  <1> QED BY <1>1, <1>2, BaseInit, BaseKept, PaidKept, PTL DEF ServingSpec

-----------------------------------------------------------------------------
(***************************************************************************)
(* Sums again: a bound on every element bounds the sum.                    *)
(***************************************************************************)
LEMMA Times ==
  ASSUME NEW a \in Nat, NEW b \in Nat, NEW k \in Nat
  PROVE  a * k \in Nat /\ (a <= b => a * k <= b * k) /\ (a + 1) * k = a * k + k
  OBVIOUS

LEMMA SumBound ==
  ASSUME NEW S, IsFiniteSet(S), NEW m \in Nat, NEW f, \A x \in S : f[x] \in Nat /\ f[x] <= m
  PROVE  SumFunctionOnSet(f, S) <= Cardinality(S) * m
  <1> DEFINE G == {T \in SUBSET S : SumFunctionOnSet(f, T) <= Cardinality(T) * m}
  <1>1. {} \in G
    BY SumEmpty, FS_EmptySet
  <1>2. ASSUME NEW T \in SUBSET S, NEW x \in S \ T, T \in G
        PROVE  T \cup {x} \in G
    <2>1. IsFiniteSet(T) /\ Cardinality(T) \in Nat /\ SumFunctionOnSet(f, T) \in Nat
      BY FS_Subset, FS_CardinalityType, SumNat
    <2>2. /\ SumFunctionOnSet(f, T \cup {x}) = f[x] + SumFunctionOnSet(f, T)
          /\ Cardinality(T \cup {x}) = Cardinality(T) + 1
      BY <2>1, SumInsert, FS_AddElement
    <2>3. (Cardinality(T) + 1) * m = Cardinality(T) * m + m /\ Cardinality(T) * m \in Nat
      BY <2>1, Times
    <2>4. SumFunctionOnSet(f, T) <= Cardinality(T) * m
      BY <1>2
    <2>5. SumFunctionOnSet(f, T \cup {x}) <= Cardinality(T \cup {x}) * m
      BY <2>1, <2>2, <2>3, <2>4
    <2> QED BY <2>5
  <1> HIDE DEF G
  <1>3. S \in G
    BY <1>1, <1>2, GrowSet
  <1> QED BY <1>3 DEF G

LEMMA SumConstant ==
  ASSUME NEW S, IsFiniteSet(S), NEW m \in Nat, NEW f, \A x \in S : f[x] = m
  PROVE  SumFunctionOnSet(f, S) = Cardinality(S) * m
  <1> DEFINE G == {T \in SUBSET S : SumFunctionOnSet(f, T) = Cardinality(T) * m}
  <1>1. {} \in G
    BY SumEmpty, FS_EmptySet
  <1>2. ASSUME NEW T \in SUBSET S, NEW x \in S \ T, T \in G
        PROVE  T \cup {x} \in G
    <2>1. IsFiniteSet(T) /\ Cardinality(T) \in Nat
      BY FS_Subset, FS_CardinalityType
    <2>2. /\ SumFunctionOnSet(f, T \cup {x}) = f[x] + SumFunctionOnSet(f, T)
          /\ Cardinality(T \cup {x}) = Cardinality(T) + 1
      BY <2>1, SumInsert, FS_AddElement
    <2>3. (Cardinality(T) + 1) * m = Cardinality(T) * m + m /\ Cardinality(T) * m \in Nat
      BY <2>1, Times
    <2>4. SumFunctionOnSet(f, T) = Cardinality(T) * m
      BY <1>2
    <2>5. SumFunctionOnSet(f, T \cup {x}) = Cardinality(T \cup {x}) * m
      BY <2>1, <2>2, <2>3, <2>4
    <2> QED BY <2>5
  <1> HIDE DEF G
  <1>3. S \in G
    BY <1>1, <1>2, GrowSet
  <1> QED BY <1>3 DEF G

-----------------------------------------------------------------------------
(***************************************************************************)
(* What the requests of a token may still cost.                            *)
(***************************************************************************)
\* The debits a request may still make: all of them once its check has found
\* money in the wallet, what is left of them once it is served.
Owes(c, t) ==
  IF call[c] = Idle \/ call[c].token # t THEN 0
  ELSE IF call[c].pc = "forwarding" \/ (call[c].pc = "walleted" /\ call[c].bal > 0) THEN MaxBills
  ELSE IF call[c].pc \in {"served", "found", "ready"} THEN call[c].bills
  ELSE 0

\* The debits that are not owed: as many as the wallet may be overdrawn by.
Left(t) == [c \in Caller |-> MaxBills - Owes(c, t)]
Room(t) == SumFunctionOnSet(Left(t), Caller)
Full == Cardinality(Caller) * MaxBills

OwesRight == \A c \in Caller, t \in Token : Owes(c, t) \in 0 .. MaxBills

LEMMA OwesType == ASSUME HandsInv PROVE OwesRight
  <1> SUFFICES ASSUME NEW c \in Caller, NEW t \in Token PROVE Owes(c, t) \in 0 .. MaxBills
    BY DEF OwesRight
  <1>1. MaxBills \in Nat
    BY ServingAssumption
  <1>2. CASE call[c] = Idle
    BY <1>1, <1>2 DEF Owes
  <1>3. CASE call[c] # Idle
    <2>1. call[c].pc \in {"served", "found", "ready"} => call[c].bills \in 1 .. MaxBills
      BY <1>3, CallHas
    <2> QED BY <1>1, <1>3, <2>1 DEF Owes
  <1> QED BY <1>2, <1>3

RoomRight ==
  /\ Full \in Nat \ {0}
  /\ \A t \in Token :
       /\ Room(t) \in Nat /\ Room(t) <= Full
       /\ (\A c \in Caller : call[c] # Idle => call[c].token # t) => Room(t) = Full

LEMMA RoomType == ASSUME HandsInv PROVE RoomRight
  <1>1. IsFiniteSet(Caller) /\ MaxBills \in Nat \ {0} /\ Cardinality(Caller) \in Nat \ {0}
    BY ServingAssumption, FS_EmptySet, FS_CardinalityType
  <1>2. Full \in Nat \ {0}
    <2>1. Cardinality(Caller) >= 1
      BY <1>1
    <2>2. 1 * MaxBills <= Cardinality(Caller) * MaxBills
      BY <1>1, <2>1, Times
    <2>3. Cardinality(Caller) * MaxBills \in Nat
      BY <1>1, Times
    <2> QED BY <1>1, <2>2, <2>3 DEF Full
  <1>3. ASSUME NEW t \in Token
        PROVE  /\ Room(t) \in Nat /\ Room(t) <= Full
               /\ (\A c \in Caller : call[c] # Idle => call[c].token # t) => Room(t) = Full
    <2>1. \A c \in Caller : Left(t)[c] = MaxBills - Owes(c, t) /\ Left(t)[c] \in Nat /\ Left(t)[c] <= MaxBills
      BY <1>1, OwesType DEF OwesRight, Left
    <2>2. Room(t) \in Nat /\ Room(t) <= Full
      BY <1>1, <2>1, SumNat, SumBound DEF Room, Full
    <2>3. ASSUME \A c \in Caller : call[c] # Idle => call[c].token # t
          PROVE  Room(t) = Full
      <3>1. \A c \in Caller : Left(t)[c] = MaxBills
        BY <1>1, <2>1, <2>3 DEF Owes
      <3> QED BY <1>1, <3>1, SumConstant DEF Room, Full
    <2> QED BY <2>2, <2>3
  <1> QED BY <1>2, <1>3 DEF RoomRight

LEMMA RoomTypeNext == HandsInv' => OwesRight' /\ RoomRight'
  <1>1. HandsInv => OwesRight /\ RoomRight
    BY OwesType, RoomType
  <1> QED BY <1>1, PTL

\* One request moves on: only what it owes, of its token, changes.
LEMMA RoomMoves ==
  ASSUME HandsInv, HandsInv', NEW c \in Caller, NEW next, Become(c, next), NEW t \in Token
  PROVE  Room(t)' = Room(t) + Owes(c, t) - Owes(c, t)'
  <1>1. OwesRight /\ OwesRight' /\ RoomRight /\ MaxBills \in Nat /\ IsFiniteSet(Caller)
    BY OwesType, RoomType, RoomTypeNext, ServingAssumption
  <1>2. \A d \in Caller : /\ Left(t)[d] = MaxBills - Owes(d, t) /\ Left(t)'[d] = MaxBills - Owes(d, t)'
                          /\ Left(t)[d] \in Int /\ Left(t)'[d] \in Int
    BY <1>1 DEF OwesRight, Left
  <1>3. \A d \in Caller \ {c} : call'[d] = call[d]
    BY DEF Become, HandsInv
  <1>4. \A d \in Caller \ {c} : Left(t)'[d] = Left(t)[d]
    BY <1>2, <1>3 DEF Owes
  <1>5. SumFunctionOnSet(Left(t)', Caller) = SumFunctionOnSet(Left(t), Caller) - Left(t)[c] + Left(t)'[c]
    BY <1>1, <1>2, <1>4, SumChange
  <1>6. Room(t)' = Room(t) - Left(t)[c] + Left(t)'[c]
    BY <1>5 DEF Room
  <1>7. Room(t) \in Nat /\ Owes(c, t) \in Int /\ Owes(c, t)' \in Int
    BY <1>1 DEF RoomRight, OwesRight
  <1> QED BY <1>1, <1>2, <1>6, <1>7

-----------------------------------------------------------------------------
(***************************************************************************)
(* How far a wallet can be overdrawn.                                      *)
(***************************************************************************)
\* A wallet is no further below its last check than the debits that are not
\* owed any more; without its rows, none of its debits had been checked.
Covered(t) ==
  \/ t \in unchecked \/ member[t] # NoWorkspace
  \/ balance[t] >= (IF t \in moved THEN 0 ELSE 1) - Room(t) * MaxCost

\* If a rotation moves its rows back, the old token can bear them.
Returnable(r) ==
  LET old == job[r].old
      new == job[r].new
  IN  \/ old \in wallets \cup unchecked
      \/ member[old] # NoWorkspace \/ member[new] # NoWorkspace
      \/ balance[new] >= -(Room(old) * MaxCost)

DebtInv ==
  /\ \A t \in Token : Covered(t)
  /\ \A r \in Resetter : job[r] # Idle => Returnable(r)

\* A request pays for what it does to the wallet of a token: with debits that
\* it owed, or with a check that found money; a team or a check that failed
\* excuses the rest.
Pays(u) ==
  \/ balance'[u] = balance[u] /\ Room(u)' >= Room(u)
  \/ u \in unchecked' \/ member[u] # NoWorkspace
  \/ u \in wallets' /\ balance'[u] >= 1
  \/ balance'[u] >= balance[u] - MaxCost /\ Room(u)' >= Room(u) + 1

CostsBounded == \E m \in Costs : \A y \in Costs : y <= m

LEMMA MaxCostIs ==
  ASSUME CostsBounded
  PROVE  MaxCost \in Nat \ {0} /\ \A y \in Costs : y <= MaxCost
  <1>1. MaxCost \in Costs /\ \A y \in Costs : y <= MaxCost
    BY DEF CostsBounded, MaxCost
  <1> QED BY <1>1, StoreAssumption

\* The debit itself, or a debit that could not be made, is owed no more.
LEMMA NextBillOwes ==
  ASSUME HandsInv, NEW c \in Caller, call[c].pc \in {"served", "found", "ready"}, NextBill(c), NEW t, t = call[c].token
  PROVE  Owes(c, t)' = Owes(c, t) - 1
  <1>1. call[c] # Idle
    BY DEF Idle
  <1>2. call[c].bills \in 1 .. MaxBills /\ MaxBills \in Nat /\ call \in [Caller -> {Idle} \cup Calls]
    BY <1>1, CallHas, ServingAssumption DEF HandsInv
  <1>3. Owes(c, t) = call[c].bills
    BY <1>1 DEF Owes
  <1>4. CASE call[c].bills > 1
    <2> DEFINE next == [call[c] EXCEPT !.pc = "served", !.bills = @ - 1]
    <2>1. call[c] \in [pc : {"served", "found", "ready"}, token : Token, bills : 1 .. MaxBills]
      BY <1>1, CallHas DEF Calls
    <2>2. next.token = call[c].token /\ next.bills = call[c].bills - 1 /\ next.pc = "served"
      BY <2>1
    <2>3. call'[c] = next
      BY <1>2, <1>4 DEF NextBill, Become
    <2> HIDE DEF next
    <2>4. next # Idle
      BY <2>2 DEF Idle
    <2>5. call'[c] # Idle /\ call'[c].token = call[c].token /\ call'[c].pc = "served"
          /\ call'[c].bills = call[c].bills - 1
      BY <2>2, <2>3, <2>4
    <2>6. Owes(c, t)' = call[c].bills - 1
      BY <2>5 DEF Owes
    <2> QED BY <1>3, <2>6
  <1>5. CASE ~(call[c].bills > 1)
    <2>1. call'[c] = Idle
      BY <1>2, <1>5 DEF NextBill, Leave, Become
    <2>2. Owes(c, t)' = 0
      BY <2>1 DEF Owes
    <2> QED BY <1>2, <1>3, <1>5, <2>2
  <1> QED BY <1>4, <1>5

LEMMA StepPays ==
  ASSUME ServingBase, ServingBase', CostsBounded, NEW c \in Caller,
         Step(c) \/ \E t \in Token : Enter(c, t), NEW u \in Token
  PROVE  Pays(u)
  <1> USE DEF ServingBase
  <1>1. PICK next \in {Idle} \cup Calls :
          /\ Become(c, next)
          /\ \/ next = Idle
             \/ call[c] = Idle /\ next.token \in live
             \/ call[c] # Idle /\ next.token = call[c].token
    BY StepMoves DEF GoesOn
  <1>2. call'[c] = next /\ call \in [Caller -> {Idle} \cup Calls]
    BY <1>1 DEF Become, HandsInv
  <1>3. Room(u)' = Room(u) + Owes(c, u) - Owes(c, u)'
    BY <1>1, RoomMoves
  <1>4. /\ MaxBills \in Nat \ {0} /\ Room(u) \in Nat /\ Room(u)' \in Nat
        /\ Owes(c, u) \in 0 .. MaxBills /\ Owes(c, u)' \in 0 .. MaxBills
    BY OwesType, RoomType, RoomTypeNext, ServingAssumption DEF OwesRight, RoomRight
  <1>5. balance'[u] = balance[u] /\ Owes(c, u)' <= Owes(c, u) => Pays(u)
    BY <1>3, <1>4 DEF Pays
  <1>6. CASE \E t \in Token : Enter(c, t)
    <2>1. Owes(c, u)' = 0 /\ UNCHANGED balance
      BY <1>2, <1>6 DEF Enter, Become, Owes, storeVars
    <2> QED BY <1>4, <1>5, <2>1
  <1>7. CASE Step(c) /\ call[c].token # u
    <2>a. call[c].pc \in {"entered", "walleted", "refused", "forwarding", "served", "found", "ready"}
      BY <1>7 DEF Step, CheckWallet, Decline, Admit, TurnAway, NotServed, Serve, FindWallet, EnsureDebitWallet,
         Debit, MissWallet, FailBilling
    <2>1. call[c] # Idle
      BY <2>a DEF Idle
    <2>2. Owes(c, u)' = 0
      BY <1>1, <1>2, <1>7, <2>1 DEF Owes
    <2>3. balance \in [Token -> Int] /\ call[c].token \in Token
      BY <2>1, CallHas DEF HandsInv, MoneyInv, RowsTypeOK
    <2>4. balance'[u] = balance[u]
      BY <1>7, <2>3 DEF Step, CheckWallet, Decline, Admit, TurnAway, NotServed, Serve, FindWallet, EnsureDebitWallet,
         Debit, MissWallet, FailBilling, EnsureWallet, ChargeMemberFirst, storeVars
    <2> QED BY <1>4, <1>5, <2>2, <2>4
  <1>8. CASE Step(c) /\ call[c].token = u
    <2>1. CASE CheckWallet(c)
      <3>1. call'[c] = [pc |-> "walleted", token |-> u, bal |-> balance[u]]
        BY <1>2, <1>8, <2>1 DEF CheckWallet, Become
      <3>2. u \in wallets' /\ balance' = balance /\ balance[u] \in Int
        BY <1>8, <2>1 DEF CheckWallet, EnsureWallet, HandsInv, MoneyInv, RowsTypeOK
      <3>3. CASE balance[u] > 0
        BY <3>2, <3>3 DEF Pays
      <3>4. CASE ~(balance[u] > 0)
        <4>1. Owes(c, u)' = 0
          BY <3>1, <3>4 DEF Owes
        <4> QED BY <1>4, <1>5, <3>2, <4>1
      <3> QED BY <3>3, <3>4
    <2>2. CASE Decline(c) \/ TurnAway(c) \/ NotServed(c)
      <3>1. call'[c] = Idle /\ UNCHANGED balance
        BY <1>2, <2>2 DEF Decline, TurnAway, NotServed, Leave, Become, storeVars
      <3> QED BY <1>4, <1>5, <3>1 DEF Owes
    <2>3. CASE Admit(c)
      <3>1. UNCHANGED balance
        BY <2>3 DEF Admit, storeVars
      <3>2. CASE call[c].pc = "entered"
        BY <1>8, <2>3, <3>2 DEF Admit, Pays
      <3>3. CASE call[c].pc = "walleted" /\ call[c].bal > 0
        <4>1. call[c] # Idle
          BY <3>3 DEF Idle
        <4>2. Owes(c, u) = MaxBills
          BY <1>8, <3>3, <4>1 DEF Owes
        <4> QED BY <1>4, <1>5, <3>1, <4>2
      <3>4. CASE call[c].pc = "walleted" /\ ~(call[c].bal > 0)
        <4>1. call[c] # Idle
          BY <3>4 DEF Idle
        <4>2. call[c].bal \in Int /\ MemberPoolAvail(u) \in Nat
          BY <3>4, <4>1, CallHas, PoolAvail DEF HandsInv, MoneyInv
        <4>3. Solvent(c)
          BY <2>3, <3>4 DEF Admit
        <4>4. MemberPoolAvail(u) # 0
          BY <1>8, <3>4, <4>2, <4>3 DEF Solvent
        <4> QED BY <4>4 DEF MemberPoolAvail, Pays
      <3> QED BY <2>3, <3>2, <3>3, <3>4 DEF Admit
    <2>4. ASSUME NEW bills \in 1 .. MaxBills, Serve(c, bills) PROVE Pays(u)
      <3>1. call[c] # Idle /\ call[c].pc = "forwarding" /\ UNCHANGED balance
        BY <2>4 DEF Serve, Idle, storeVars
      <3>2. Owes(c, u) = MaxBills
        BY <1>8, <3>1 DEF Owes
      <3> QED BY <1>4, <1>5, <3>1, <3>2
    <2>5. CASE FindWallet(c) \/ EnsureDebitWallet(c)
      <3>1. /\ call[c] # Idle /\ call[c].pc \in {"served", "found"} /\ UNCHANGED balance
            /\ \E n \in {"found", "ready"} : call'[c] = [call[c] EXCEPT !.pc = n]
        BY <1>2, <2>5 DEF FindWallet, EnsureDebitWallet, EnsureWallet, Idle, Become, storeVars
      <3>2. call[c] \in [pc : {"served", "found", "ready"}, token : Token, bills : 1 .. MaxBills]
        BY <3>1, CallHas DEF Calls
      <3>3. /\ call'[c].token = u /\ call'[c].bills = call[c].bills
            /\ call'[c].pc \in {"found", "ready"}
        BY <1>8, <3>1, <3>2
      <3>4. call'[c] # Idle
        BY <3>3 DEF Idle
      <3>5. Owes(c, u)' = call[c].bills /\ Owes(c, u) = call[c].bills
        BY <1>8, <3>1, <3>3, <3>4 DEF Owes
      <3> QED BY <1>4, <1>5, <3>1, <3>5
    <2>6. ASSUME NEW cost \in Costs, Debit(c, cost) PROVE Pays(u)
      <3>1. cost \in Nat /\ cost <= MaxCost /\ MaxCost \in Nat
        BY MaxCostIs, StoreAssumption
      <3>2. Owes(c, u)' = Owes(c, u) - 1
        BY <1>8, <2>6, NextBillOwes DEF Debit
      <3>3. CASE member[u] = NoWorkspace
        <4>1. MemberPoolAvail(u) = 0
          BY <3>3 DEF MemberPoolAvail
        <4>2. Lesser(cost, MemberPoolAvail(u)) = 0
          BY <3>1, <4>1 DEF Lesser
        <4>3. balance' = [balance EXCEPT ![u] = @ - (cost - Lesser(cost, MemberPoolAvail(u)))]
          BY <1>8, <2>6 DEF Debit, ChargeMemberFirst
        <4>4. balance \in [Token -> Int]
          BY DEF HandsInv, MoneyInv, RowsTypeOK
        <4>5. balance'[u] = balance[u] - cost /\ balance[u] \in Int
          BY <3>1, <4>2, <4>3, <4>4
        <4> QED BY <1>3, <1>4, <3>1, <3>2, <4>5 DEF Pays
      <3> QED BY <3>3 DEF Pays
    <2>7. CASE MissWallet(c) \/ FailBilling(c)
      <3>1. UNCHANGED balance /\ NextBill(c) /\ call[c].pc \in {"served", "found", "ready"}
        BY <2>7 DEF MissWallet, FailBilling, storeVars
      <3>2. Owes(c, u)' = Owes(c, u) - 1
        BY <1>8, <3>1, NextBillOwes
      <3> QED BY <1>4, <1>5, <3>1, <3>2
    <2> QED BY <1>8, <2>1, <2>2, <2>3, <2>4, <2>5, <2>6, <2>7 DEF Step
  <1> QED BY <1>6, <1>7, <1>8

\* What Pays says keeps a token covered.
LEMMA PaysCovers ==
  ASSUME ServingBase, ServingBase', CostsBounded, NEW u \in Token, Pays(u),
         UNCHANGED <<member, moved>>, unchecked \subseteq unchecked'
  PROVE  /\ Covered(u) => Covered(u)'
         /\ Room(u) * MaxCost \in Nat /\ (Room(u) * MaxCost)' \in Nat
         /\ \/ Room(u)' >= Room(u) /\ (Room(u) * MaxCost)' >= Room(u) * MaxCost
            \/ u \in unchecked' \/ member[u] # NoWorkspace \/ u \in wallets'
  <1> USE DEF ServingBase
  <1> DEFINE k == MaxCost
             a == Room(u)
             b == Room(u)'
  <1>1. k \in Nat \ {0} /\ a \in Nat /\ b \in Nat
    BY MaxCostIs, RoomType, RoomTypeNext DEF RoomRight
  <1>2. a * k \in Nat /\ b * k \in Nat /\ (b >= a => b * k >= a * k)
    BY <1>1, Times
  <1>3. b >= a + 1 => b * k >= a * k + k
    <2>1. a + 1 \in Nat /\ (a + 1) * k = a * k + k
      BY <1>1, Times
    <2> QED BY <1>1, <2>1, Times
  <1>4. balance[u] \in Int /\ balance'[u] \in Int
    BY DEF HandsInv, MoneyInv, RowsTypeOK
  <1>5. MaxCost' = MaxCost
    BY DEF MaxCost
  <1> HIDE DEF a, b, k
  <1>6. Covered(u)' <=> \/ u \in unchecked' \/ member'[u] # NoWorkspace
                        \/ balance'[u] >= (IF u \in moved' THEN 0 ELSE 1) - b * k
    BY <1>5 DEF Covered, b, k
  <1>7. Covered(u) <=> \/ u \in unchecked \/ member[u] # NoWorkspace
                       \/ balance[u] >= (IF u \in moved THEN 0 ELSE 1) - a * k
    BY DEF Covered, a, k
  <1>8. Pays(u) <=> \/ balance'[u] = balance[u] /\ b >= a
                    \/ u \in unchecked' \/ member[u] # NoWorkspace
                    \/ u \in wallets' /\ balance'[u] >= 1
                    \/ balance'[u] >= balance[u] - k /\ b >= a + 1
    BY DEF Pays, a, b, k
  <1>9. Covered(u) => Covered(u)'
    BY <1>1, <1>2, <1>3, <1>4, <1>6, <1>7, <1>8
  <1>10. \/ b >= a /\ b * k >= a * k
         \/ u \in unchecked' \/ member[u] # NoWorkspace \/ u \in wallets'
    BY <1>1, <1>2, <1>8
  <1>11. (Room(u) * MaxCost)' = b * k /\ Room(u) * MaxCost = a * k
    BY <1>5 DEF a, b, k
  <1> QED BY <1>2, <1>9, <1>10, <1>11 DEF a, b

LEMMA RequestsCovered ==
  ASSUME ServingBase, ServingBase', CostsBounded, DebtInv, NEW c \in Caller,
         Step(c) \/ \E t \in Token : Enter(c, t)
  PROVE  DebtInv'
  <1> USE DEF ServingBase
  <1>1. GoesOn(c) /\ UNCHANGED <<job, live, minted, moved>>
    BY StepMoves
  <1>2. UNCHANGED member /\ unchecked \subseteq unchecked' /\ wallets \subseteq wallets'
    BY DEF Step, Enter, CheckWallet, Decline, Admit, TurnAway, NotServed, Serve, FindWallet, EnsureDebitWallet,
       Debit, MissWallet, FailBilling, EnsureWallet, ChargeMemberFirst, memberVars, storeVars, billVars
  <1>3. \A u \in Token :
          /\ Pays(u) /\ (Covered(u) => Covered(u)')
          /\ Room(u) * MaxCost \in Nat /\ (Room(u) * MaxCost)' \in Nat
          /\ \/ (Room(u) * MaxCost)' >= Room(u) * MaxCost
             \/ u \in unchecked' \/ member[u] # NoWorkspace \/ u \in wallets'
    BY <1>1, <1>2, StepPays, PaysCovers
  <1>4. ASSUME NEW r \in Resetter, job'[r] # Idle PROVE Returnable(r)'
    <2>1. job[r] # Idle /\ job' = job /\ Returnable(r) /\ job[r].old \in Token /\ job[r].new \in Token
      BY <1>1, <1>4, JobHas DEF DebtInv
    <2>2. balance'[job[r].new] = balance[job[r].new]
      <3>1. CASE UNCHANGED balance
        BY <3>1
      <3>2. ASSUME NEW cost \in Costs, Debit(c, cost) PROVE balance'[job[r].new] = balance[job[r].new]
        <4>1. call[c] # Idle
          BY <3>2 DEF Debit, Idle
        <4>2. call[c].token # job[r].new
          BY <2>1, <4>1 DEF KeysInv
        <4>3. balance \in [Token -> Int]
          BY DEF HandsInv, MoneyInv, RowsTypeOK
        <4> QED BY <2>1, <3>2, <4>2, <4>3 DEF Debit, ChargeMemberFirst
      <3> QED BY <3>1, <3>2 DEF Step, Enter, CheckWallet, Decline, Admit, TurnAway, NotServed, Serve, FindWallet,
              EnsureDebitWallet, MissWallet, FailBilling, EnsureWallet, storeVars
    <2>3. balance[job[r].new] \in Int
      BY <2>1 DEF HandsInv, MoneyInv, RowsTypeOK
    <2>4. PICK u \in Token : u = job[r].old
      BY <2>1
    <2>5. PICK v \in Token : v = job[r].new
      BY <2>1
    <2>6. Returnable(r) <=> \/ u \in wallets \cup unchecked
                            \/ member[u] # NoWorkspace \/ member[v] # NoWorkspace
                            \/ balance[v] >= -(Room(u) * MaxCost)
      BY <2>4, <2>5 DEF Returnable
    <2>7. Returnable(r)' <=> \/ u \in wallets' \cup unchecked'
                             \/ member'[u] # NoWorkspace \/ member'[v] # NoWorkspace
                             \/ balance'[v] >= -((Room(u) * MaxCost)')
      BY <2>1, <2>4, <2>5 DEF Returnable
    <2>8. /\ Room(u) * MaxCost \in Nat /\ (Room(u) * MaxCost)' \in Nat
          /\ \/ (Room(u) * MaxCost)' >= Room(u) * MaxCost
             \/ u \in unchecked' \/ member[u] # NoWorkspace \/ u \in wallets'
      BY <1>3
    <2> QED BY <1>2, <2>1, <2>2, <2>3, <2>5, <2>6, <2>7, <2>8
  <1>5. \A t \in Token : Covered(t)'
    BY <1>3 DEF DebtInv
  <1> QED BY <1>4, <1>5 DEF DebtInv

\* The floors of two tokens, compared.
LEMMA Floors ==
  ASSUME ServingBase, CostsBounded
  PROVE  /\ Full * MaxCost \in Nat /\ Full * MaxCost >= 1
         /\ \A t \in Token : Room(t) * MaxCost \in Nat /\ Room(t) * MaxCost <= Full * MaxCost
  <1> USE DEF ServingBase
  <1>1. MaxCost \in Nat \ {0} /\ RoomRight
    BY MaxCostIs, RoomType
  <1>2. Full \in Nat /\ 1 <= Full
    BY <1>1 DEF RoomRight
  <1>3. Full * MaxCost \in Nat /\ 1 * MaxCost <= Full * MaxCost
    BY <1>1, <1>2, Times
  <1>4. ASSUME NEW t \in Token
        PROVE  Room(t) * MaxCost \in Nat /\ Room(t) * MaxCost <= Full * MaxCost
    <2>1. Room(t) \in Nat /\ Room(t) <= Full
      BY <1>1 DEF RoomRight
    <2> QED BY <1>1, <1>2, <2>1, Times
  <1> QED BY <1>1, <1>3, <1>4

\* Nobody's request moves: what is owed stays.
LEMMA RoomSame ==
  ASSUME UNCHANGED call, NEW t
  PROVE  Room(t)' = Room(t)
  BY DEF Room, Left, Owes

\* Money comes in, teams are made, requests end: all stays covered.
LEMMA MoreCovers ==
  ASSUME ServingBase, ServingBase', CostsBounded, DebtInv,
         UNCHANGED <<moved, unchecked>>, wallets \subseteq wallets',
         \A t \in Token : /\ balance'[t] >= balance[t] /\ Room(t)' >= Room(t)
                          /\ member[t] # NoWorkspace => member'[t] # NoWorkspace,
         \A r \in Resetter : job'[r] # Idle =>
           job[r] # Idle /\ job'[r].old = job[r].old /\ job'[r].new = job[r].new
  PROVE  DebtInv'
  <1> USE DEF ServingBase
  <1>1. MaxCost \in Nat /\ RoomRight /\ RoomRight'
    BY MaxCostIs, RoomType, RoomTypeNext
  <1>2. MaxCost' = MaxCost
    BY DEF MaxCost
  <1>3. \A t \in Token : /\ Room(t) * MaxCost \in Nat /\ Room(t)' * MaxCost \in Nat
                         /\ Room(t) * MaxCost <= Room(t)' * MaxCost
                         /\ (Room(t) * MaxCost)' = Room(t)' * MaxCost
                         /\ balance[t] \in Int /\ balance'[t] \in Int
    BY <1>1, <1>2, Times DEF RoomRight, HandsInv, MoneyInv, RowsTypeOK
  <1>4. ASSUME NEW t \in Token PROVE Covered(t)'
    <2>1. Covered(t)
      BY DEF DebtInv
    <2> QED BY <1>2, <1>3, <2>1 DEF Covered
  <1>5. ASSUME NEW r \in Resetter, job'[r] # Idle PROVE Returnable(r)'
    <2>1. Returnable(r) /\ job'[r].old = job[r].old /\ job'[r].new = job[r].new
          /\ job[r].old \in Token /\ job[r].new \in Token
      BY <1>5, JobHas DEF DebtInv
    <2>2. PICK u \in Token : u = job[r].old
      BY <2>1
    <2>3. PICK v \in Token : v = job[r].new
      BY <2>1
    <2>4. \/ u \in wallets \cup unchecked \/ member[u] # NoWorkspace \/ member[v] # NoWorkspace
          \/ balance[v] >= -(Room(u) * MaxCost)
      BY <2>1, <2>2, <2>3 DEF Returnable
    <2>5. Returnable(r)' <=> \/ u \in wallets' \cup unchecked'
                             \/ member'[u] # NoWorkspace \/ member'[v] # NoWorkspace
                             \/ balance'[v] >= -(Room(u)' * MaxCost)
      BY <1>2, <2>1, <2>2, <2>3 DEF Returnable
    <2> QED BY <1>3, <2>4, <2>5
  <1> QED BY <1>4, <1>5 DEF DebtInv

\* Rotations under way at the same time have no token in common.
Apart ==
  \A r \in Resetter : \A s \in Resetter \ {r} :
    job[r] # Idle /\ job[s] # Idle =>
      {job[r].old, job[r].new} \cap {job[s].old, job[s].new} = {}

\* A rotation of other tokens is none of a rotation's concern.
LEMMA OthersReturnable ==
  ASSUME ServingBase, ServingBase', DebtInv, NEW s \in Resetter, job[s] # Idle, job'[s] = job[s],
         NEW X \in SUBSET Token, job[s].old \notin X, job[s].new \notin X,
         unchecked \subseteq unchecked',
         \A t \in Token \ X : /\ t \in wallets => t \in wallets'
                              /\ member'[t] = member[t] /\ balance'[t] = balance[t]
                              /\ Room(t)' = Room(t)
  PROVE  Returnable(s)'
  <1>1. MaxCost' = MaxCost
    BY DEF MaxCost
  <1>2. job[s].old \in Token /\ job[s].new \in Token
    BY JobHas DEF ServingBase
  <1>3. PICK u \in Token \ X : u = job[s].old
    BY <1>2
  <1>4. PICK v \in Token \ X : v = job[s].new
    BY <1>2
  <1>5. \/ u \in wallets \cup unchecked \/ member[u] # NoWorkspace \/ member[v] # NoWorkspace
        \/ balance[v] >= -(Room(u) * MaxCost)
    BY <1>3, <1>4 DEF DebtInv, Returnable
  <1>6. Returnable(s)' <=> \/ u \in wallets' \cup unchecked'
                           \/ member'[u] # NoWorkspace \/ member'[v] # NoWorkspace
                           \/ balance'[v] >= -(Room(u)' * MaxCost)
    BY <1>1, <1>3, <1>4 DEF Returnable
  <1> QED BY <1>5, <1>6

\* The rows go: the new token is in debt as the old one was, and nobody has
\* been checked against it.
LEMMA MoveRowsCovers ==
  ASSUME ServingBase, ServingBase', CostsBounded, Apart', DebtInv,
         NEW r \in Resetter, NEW old \in Token, NEW new \in Token, MoveRows(r, old, new)
  PROVE  DebtInv'
  <1> USE DEF ServingBase
  <1>1. /\ UNCHANGED call /\ old # new /\ new \notin minted /\ new \notin wallets
        /\ moved' = moved \cup {old} \cup (IF old \in moved THEN {new} ELSE {})
        /\ unchecked' = unchecked \cup (IF old \in unchecked THEN {new} ELSE {})
        /\ job' = [job EXCEPT ![r] = [pc |-> "moved", old |-> old, new |-> new]]
        /\ balance' = [balance EXCEPT ![new] = balance[new] + balance[old], ![old] = 0]
        /\ member' = [member EXCEPT ![new] = member[old], ![old] = NoWorkspace]
    BY DEF MoveRows, RekeyToken, RekeyWallets, RekeyMembers, MoveSum
  <1>2. /\ balance \in [Token -> Int] /\ DOMAIN member = Token /\ job \in [Resetter -> Jobs]
        /\ moved \subseteq minted
    BY DEF HandsInv, MoneyInv, RowsTypeOK
  <1>3. balance[new] = 0
    BY <1>1 DEF HandsInv, MoneyInv, LedgerBalanced
  <1>4. Room(new) = Full
    <2>1. \A c \in Caller : call[c] # Idle => call[c].token # new
      BY <1>1 DEF KeysInv
    <2> QED BY <2>1, RoomType DEF RoomRight
  <1>5. MaxCost' = MaxCost /\ \A t \in Token : Room(t)' = Room(t)
    BY <1>1, RoomSame DEF MaxCost
  <1>6. /\ Room(new) * MaxCost \in Nat /\ Room(old) * MaxCost \in Nat
        /\ Room(old) * MaxCost <= Room(new) * MaxCost
    BY <1>4, Floors
  <1>7. /\ balance'[old] = 0 /\ balance'[new] = balance[old] /\ balance[old] \in Int
        /\ member'[old] = NoWorkspace /\ member'[new] = member[old]
        /\ \A t \in Token \ {old, new} : balance'[t] = balance[t] /\ member'[t] = member[t]
    BY <1>1, <1>2, <1>3
  <1>8. \/ old \in unchecked \/ member[old] # NoWorkspace
        \/ balance[old] >= (IF old \in moved THEN 0 ELSE 1) - Room(old) * MaxCost
    BY DEF DebtInv, Covered
  <1>9. Covered(old)'
    BY <1>1, <1>5, <1>6, <1>7 DEF Covered
  <1>10. Covered(new)'
    <2>1. new \in moved' <=> old \in moved
      BY <1>1, <1>2
    <2>2. old \in unchecked => new \in unchecked'
      BY <1>1
    <2>3. Covered(new)' <=> \/ new \in unchecked' \/ member'[new] # NoWorkspace
                            \/ balance'[new] >= (IF new \in moved' THEN 0 ELSE 1) - Room(new) * MaxCost
      BY <1>5 DEF Covered
    <2> QED BY <1>6, <1>7, <1>8, <2>1, <2>2, <2>3
  <1>11. ASSUME NEW t \in Token \ {old, new} PROVE Covered(t)'
    <2>1. Covered(t)
      BY DEF DebtInv
    <2>2. (t \in moved' <=> t \in moved) /\ (t \in unchecked' <=> t \in unchecked)
      BY <1>1
    <2> QED BY <1>5, <1>7, <2>1, <2>2 DEF Covered
  <1>12. job'[r].old = old /\ job'[r].new = new
    BY <1>1, <1>2
  <1>13. Returnable(r)'
    <2>1. old \in unchecked' <=> old \in unchecked
      BY <1>1
    <2> QED BY <1>5, <1>6, <1>7, <1>8, <1>12, <2>1 DEF Returnable
  <1>14. ASSUME NEW s \in Resetter \ {r}, job'[s] # Idle PROVE Returnable(s)'
    <2>1. job'[s] = job[s] /\ job'[r] # Idle
      BY <1>1, <1>2, <1>12 DEF Idle
    <2>2. job[s].old \notin {old, new} /\ job[s].new \notin {old, new}
      BY <1>12, <1>14, <2>1 DEF Apart
    <2>3. \A t \in Token \ {old, new} : t \in wallets => t \in wallets'
      BY DEF MoveRows, RekeyToken, RekeyWallets
    <2>4. unchecked \subseteq unchecked'
      BY <1>1
    <2> QED BY <1>5, <1>7, <1>14, <2>1, <2>2, <2>3, <2>4, OthersReturnable
  <1> QED BY <1>9, <1>10, <1>11, <1>13, <1>14 DEF DebtInv

\* The rows come back: the old token had none, and nobody has been checked
\* against the new one.
LEMMA MoveRowsBackCovers ==
  ASSUME ServingBase, ServingBase', CostsBounded, Apart, DebtInv,
         NEW r \in Resetter, MoveRowsBack(r)
  PROVE  DebtInv'
  <1> USE DEF ServingBase
  <1>1. /\ UNCHANGED <<call, moved, unchecked>> /\ job' = [job EXCEPT ![r] = Idle]
    BY DEF MoveRowsBack, billVars, keyVars
  <1>2. job[r] # Idle
    BY DEF MoveRowsBack, Idle
  <1>3. job[r].old \in Token /\ job[r].new \in Token /\ job \in [Resetter -> Jobs]
    BY <1>2, JobHas DEF HandsInv
  <1>4. job'[r] = Idle /\ \A s \in Resetter \ {r} : job'[s] = job[s]
    BY <1>1, <1>3
  <1>5. CASE UNCHANGED storeVars
    <2>1. /\ UNCHANGED <<balance, member, wallets>>
          /\ \A t \in Token : Room(t)' = Room(t) /\ Room(t) \in Nat /\ balance[t] \in Int
      BY <1>1, <1>5, RoomSame, RoomType DEF storeVars, RoomRight, HandsInv, MoneyInv, RowsTypeOK
    <2>2. \A t \in Token : balance'[t] >= balance[t] /\ Room(t)' >= Room(t)
      BY <2>1
    <2> QED BY <1>1, <1>4, <2>1, <2>2, MoreCovers
  <1>6. CASE RekeyToken(job[r].new, job[r].old)
    <2>1. PICK old \in Token : old = job[r].old
      BY <1>3
    <2>2. PICK new \in Token : new = job[r].new
      BY <1>3
    <2>3. /\ old # new /\ old \notin wallets /\ member[old] = NoWorkspace
          /\ balance' = [balance EXCEPT ![old] = balance[old] + balance[new], ![new] = 0]
          /\ member' = [member EXCEPT ![old] = member[new], ![new] = NoWorkspace]
      BY <1>6, <2>1, <2>2 DEF RekeyToken, RekeyWallets, RekeyMembers, MoveSum
    <2>4. /\ balance \in [Token -> Int] /\ DOMAIN member = Token /\ balance[old] = 0
      BY <2>3 DEF HandsInv, MoneyInv, RowsTypeOK, LedgerBalanced
    <2>5. /\ balance'[old] = balance[new] /\ balance[new] \in Int /\ balance'[new] = 0
          /\ member'[old] = member[new]
          /\ \A t \in Token \ {old, new} : balance'[t] = balance[t] /\ member'[t] = member[t]
      BY <2>3, <2>4
    <2>6. MaxCost' = MaxCost /\ \A t \in Token : Room(t)' = Room(t)
      BY <1>1, RoomSame DEF MaxCost
    <2>7. Room(new) = Full /\ old \in moved
      <3>1. (\A c \in Caller : call[c] # Idle => call[c].token # new) /\ old \in moved
        BY <1>2, <2>1, <2>2 DEF KeysInv
      <3> QED BY <3>1, RoomType DEF RoomRight
    <2>8. Room(old) * MaxCost \in Nat /\ Room(new) * MaxCost \in Nat /\ Room(new) * MaxCost >= 1
      BY <2>7, Floors
    <2>9. old \in unchecked \/ member[new] # NoWorkspace \/ balance[new] >= -(Room(old) * MaxCost)
      BY <1>2, <2>1, <2>2, <2>3 DEF DebtInv, Returnable
    <2>10. \A t \in Token :
             Covered(t)' <=> \/ t \in unchecked \/ member'[t] # NoWorkspace
                             \/ balance'[t] >= (IF t \in moved THEN 0 ELSE 1) - Room(t) * MaxCost
      BY <1>1, <2>6 DEF Covered
    <2>11. Covered(old)'
      BY <2>5, <2>7, <2>8, <2>9, <2>10
    <2>12. Covered(new)'
      BY <2>5, <2>8, <2>10
    <2>13. ASSUME NEW t \in Token \ {old, new} PROVE Covered(t)'
      <3>1. Covered(t)
        BY DEF DebtInv
      <3> QED BY <2>5, <2>10, <3>1 DEF Covered
    <2>14. ASSUME NEW s \in Resetter, job'[s] # Idle PROVE Returnable(s)'
      <3>1. s # r /\ job'[s] = job[s] /\ job[s] # Idle
        BY <1>4, <2>14
      <3>2. job[s].old \notin {old, new} /\ job[s].new \notin {old, new}
        BY <1>2, <2>1, <2>2, <3>1 DEF Apart
      <3>3. \A t \in Token \ {old, new} : t \in wallets => t \in wallets'
        BY <1>6, <2>1, <2>2 DEF RekeyToken, RekeyWallets
      <3>4. unchecked \subseteq unchecked'
        BY <1>1
      <3> QED BY <2>5, <2>6, <3>1, <3>2, <3>3, <3>4, OthersReturnable
    <2> QED BY <2>11, <2>12, <2>13, <2>14 DEF DebtInv
  <1> QED BY <1>5, <1>6 DEF MoveRowsBack

\* Swapping the key, a restart, an operator's money: nobody is debited.
LEMMA OthersCovered ==
  ASSUME ServingBase, ServingBase', CostsBounded, DebtInv, Deltas \subseteq Nat,
         (\E r \in Resetter : SwapKey(r)) \/ Restart \/ Fund \/ UNCHANGED servingVars
  PROVE  DebtInv'
  <1> USE DEF ServingBase
  <1>1. \A t \in Token : Room(t)' >= Room(t)
    <2>1. CASE UNCHANGED call
      BY <2>1, RoomSame, RoomType DEF RoomRight
    <2>2. CASE Restart
      <3>1. \A c \in Caller : call'[c] = Idle
        BY <2>2 DEF Restart
      <3>2. RoomRight /\ RoomRight'
        BY RoomType, RoomTypeNext
      <3>3. Full' = Full /\ \A t \in Token : Room(t)' = Full'
        BY <3>1, <3>2 DEF RoomRight, Full
      <3> QED BY <3>2, <3>3 DEF RoomRight
    <2> QED BY <2>1, <2>2 DEF SwapKey, Fund, servingVars
  <1>2. UNCHANGED <<moved, unchecked>> /\ wallets \subseteq wallets'
    BY DEF SwapKey, Restart, Fund, servingVars, storeVars, billVars, keyVars, EnsureWallet, AddBalance,
       CreateWorkspace, AdjustWorkspaceBalance, AddMember, walletVars
  <1>3. \A t \in Token : /\ balance'[t] >= balance[t]
                         /\ member[t] # NoWorkspace => member'[t] # NoWorkspace
    <2>1. balance \in [Token -> Int] /\ member \in [Token -> workspaces \cup {NoWorkspace}]
          /\ live \subseteq Token
      BY DEF HandsInv, MoneyInv, RowsTypeOK
    <2>2. CASE UNCHANGED <<balance, member>>
      BY <2>1, <2>2
    <2>3. ASSUME NEW t \in live, NEW delta \in Deltas, AddBalance(t, delta, TRUE)
          PROVE  \A u \in Token : /\ balance'[u] >= balance[u]
                                  /\ member[u] # NoWorkspace => member'[u] # NoWorkspace
      BY <2>1, <2>3 DEF AddBalance, memberVars
    <2>4. ASSUME NEW w \in Workspace, NEW t \in live, NEW day \in CapValues,
                 AddMember(w, t, FALSE, day, 0)
          PROVE  \A u \in Token : /\ balance'[u] >= balance[u]
                                  /\ member[u] # NoWorkspace => member'[u] # NoWorkspace
      BY <2>1, <2>4, StoreAssumption DEF AddMember, walletVars
    <2> QED BY <2>2, <2>3, <2>4 DEF SwapKey, Restart, Fund, servingVars, storeVars, EnsureWallet,
            CreateWorkspace, AdjustWorkspaceBalance, walletVars, memberVars
  <1>4. \A r \in Resetter : job'[r] # Idle =>
          job[r] # Idle /\ job'[r].old = job[r].old /\ job'[r].new = job[r].new
    <2>1. CASE UNCHANGED job
      BY <2>1
    <2>2. ASSUME NEW r \in Resetter, SwapKey(r), NEW s \in Resetter, job'[s] # Idle
          PROVE  job[s] # Idle /\ job'[s].old = job[s].old /\ job'[s].new = job[s].new
      <3>1. job[r] # Idle /\ job \in [Resetter -> Jobs]
        BY <2>2 DEF SwapKey, Idle, HandsInv
      <3>2. /\ [job[r] EXCEPT !.pc = "swapfailed"].old = job[r].old
            /\ [job[r] EXCEPT !.pc = "swapfailed"].new = job[r].new
        BY <3>1, JobHas
      <3> QED BY <2>2, <3>1, <3>2 DEF SwapKey
    <2> QED BY <2>1, <2>2 DEF Restart, Fund, servingVars
  <1> QED BY <1>1, <1>2, <1>3, <1>4, MoreCovers

DebtHypotheses == Deltas \subseteq Nat /\ CostsBounded

LEMMA DebtKept ==
  ASSUME DebtHypotheses, ServingBase, ServingBase', Apart, Apart', DebtInv,
         [ServingNext]_servingVars
  PROVE  DebtInv'
  BY RequestsCovered, MoveRowsCovers, MoveRowsBackCovers, OthersCovered
     DEF DebtHypotheses, ServingNext

LEMMA DebtInit ==
  ASSUME ServingInit, CostsBounded
  PROVE  DebtInv
  <1>1. ServingBase
    BY BaseInit
  <1>2. ASSUME NEW t \in Token PROVE Covered(t)
    <2>1. balance[t] = 0 /\ t \notin moved /\ \A c \in Caller : call[c] = Idle
      BY DEF ServingInit, StoreInit
    <2>2. Room(t) = Full
      BY <1>1, <2>1, RoomType DEF RoomRight, ServingBase
    <2>3. Room(t) * MaxCost \in Nat /\ Room(t) * MaxCost >= 1
      BY <1>1, <2>2, Floors
    <2> QED BY <2>1, <2>3 DEF Covered
  <1> QED BY <1>2 DEF DebtInv, ServingInit

LEMMA DebtBound ==
  ASSUME ServingBase, CostsBounded, DebtInv
  PROVE  OverdraftBounded
  <1> SUFFICES ASSUME NEW t \in Token \ unchecked, member[t] = NoWorkspace
               PROVE  balance[t] >= (IF t \in moved THEN 0 ELSE 1) - Full * MaxCost
    BY DEF OverdraftBounded, Full
  <1>1. balance[t] >= (IF t \in moved THEN 0 ELSE 1) - Room(t) * MaxCost
    BY DEF DebtInv, Covered
  <1>2. balance[t] \in Int
    BY DEF ServingBase, HandsInv, MoneyInv, RowsTypeOK
  <1>3. /\ Full * MaxCost \in Nat /\ Room(t) * MaxCost \in Nat
        /\ Room(t) * MaxCost <= Full * MaxCost
    BY Floors
  <1> QED BY <1>1, <1>2, <1>3

\* However many requests and rotations are under way, as long as no token is
\* rotated twice at once, a wallet without a team that operators only fund is
\* overdrawn by the debits that can be on their way together and no more.
THEOREM DebtsAreBounded ==
  ASSUME DebtHypotheses
  PROVE  ServingSpec /\ []Apart => []OverdraftBounded
  <1>1. ServingInit => DebtInv
    BY DebtInit DEF DebtHypotheses
  <1>2. ServingBase /\ DebtInv => OverdraftBounded
    BY DebtBound DEF DebtHypotheses
  <1>3. ServingBase /\ ServingBase' /\ Apart /\ Apart' /\ DebtInv /\ [ServingNext]_servingVars
          => DebtInv'
    BY DebtKept
  <1> QED BY <1>1, <1>2, <1>3, BaseInit, BaseKept, PTL DEF ServingSpec

\* Paid requests, rotations that are rolled back, failures and restarts leave
\* every balance equal to its ledger.
THEOREM RequestsBalance == ServingSpec => []LedgerBalanced
  <1>1. ServingBase => LedgerBalanced
    BY DEF ServingBase, HandsInv, MoneyInv
  <1> QED BY <1>1, BaseInit, BaseKept, PTL DEF ServingSpec
=============================================================================
