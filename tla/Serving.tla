------------------------------- MODULE Serving -------------------------------
(***************************************************************************)
(* A paid request from its balance check to its debit (server/proxy.go     *)
(* forward, server/saas_billing.go), beside the rotation of its token      *)
(* (admin.go handleResetToken).                                            *)
(*                                                                         *)
(* The check reads a balance, the debit comes after the response: between  *)
(* the two other requests of the same token are checked and charged, and   *)
(* the token may be rotated.  The rotation moves the rows of the store,    *)
(* then swaps the key in the token store, and moves the rows back when the *)
(* swap fails.  The upstream, its credentials and the failover between     *)
(* them are one step here: served or not.                                  *)
(***************************************************************************)
EXTENDS SaasStore

CONSTANTS
  Caller,     \* concurrent requests
  Resetter,   \* concurrent rotations
  First,      \* tokens registered at the start
  MaxConc,    \* requests a token may have in flight (clientMaxConcurrent)
  MaxBills,   \* debits of one request: its own and its advisor sub-calls'
  MayFail     \* whether the database and the token store can fail

ASSUME ServingAssumption ==
  /\ First \subseteq Token
  /\ Caller # {} /\ IsFiniteSet(Caller)   \* goroutines of one process
  /\ MaxConc \in Nat \ {0} /\ MaxBills \in Nat \ {0}
  /\ MayFail \in BOOLEAN

VARIABLES
  call,      \* progress of the requests
  inflight,  \* the in-flight counter of every token
  unchecked, \* tokens with the wallet of a request admitted unchecked
  unbilled,  \* tokens with a served request for which there was no wallet
  job,       \* progress of the rotations
  live,      \* registered tokens
  minted,    \* tokens ever registered or generated
  moved      \* tokens whose rows a rotation took away, and what it took later

billVars    == <<unchecked, unbilled>>
keyVars     == <<live, minted, moved>>
servingVars == <<storeVars, call, inflight, billVars, job, keyVars>>

Idle == [pc |-> "idle"]
Calls == [pc : {"entered", "refused", "forwarding"}, token : Token]
           \cup [pc : {"walleted"}, token : Token, bal : Int]
           \cup [pc : {"served", "found", "ready"}, token : Token, bills : 1 .. MaxBills]

ServingTypeOK ==
  /\ StoreTypeOK
  /\ call \in [Caller -> {Idle} \cup Calls]
  /\ inflight \in [Token -> Nat]
  /\ unchecked \subseteq Token /\ unbilled \subseteq Token
  /\ job \in [Resetter -> {Idle} \cup [pc : {"moved", "swapfailed"}, old : Token, new : Token]]
  /\ live \subseteq minted /\ minted \subseteq Token
  /\ moved \subseteq minted

ServingInit ==
  /\ StoreInit
  /\ call = [c \in Caller |-> Idle]
  /\ inflight = [t \in Token |-> 0]
  /\ unchecked = {} /\ unbilled = {}
  /\ job = [r \in Resetter |-> Idle]
  /\ live = First /\ minted = First /\ moved = {}

Become(c, next) == call' = [call EXCEPT ![c] = next]
-----------------------------------------------------------------------------
(***************************************************************************)
(* The request.                                                            *)
(***************************************************************************)
Enter(c, t) ==
  /\ call[c] = Idle
  /\ t \in live
  /\ Become(c, [pc |-> "entered", token |-> t])
  /\ UNCHANGED <<storeVars, inflight, billVars, job, keyVars>>

\* Mutant: the balance is read, and a token without a wallet gets none.
CheckBalanceOnly(c) ==
  LET t == call[c].token IN
  /\ call[c].pc = "entered"
  /\ Become(c, [pc |-> "walleted", token |-> t, bal |-> balance[t]])
  /\ UNCHANGED <<storeVars, inflight, billVars, job, keyVars>>

\* PrecheckBalance: first the wallet, created if the token has none.
CheckWallet(c) ==
  LET t == call[c].token IN
  /\ call[c].pc = "entered"
  /\ EnsureWallet(t)
  /\ Become(c, [pc |-> "walleted", token |-> t, bal |-> balance[t]])
  /\ UNCHANGED <<inflight, billVars, job, keyVars>>

\* Mutant: a balance of zero is let through.
SolventOrZero(c) == call[c].bal + MemberPoolAvail(call[c].token) >= 0

\* Then what the pool would add to the balance read before.
Solvent(c) == call[c].bal + MemberPoolAvail(call[c].token) > 0

\* Mutant: a slot is released that was never taken.
DeclineReleasing(c) ==
  /\ call[c].pc = "walleted" /\ ~Solvent(c)
  /\ Become(c, Idle)
  /\ inflight' = [inflight EXCEPT ![call[c].token] = @ - 1]
  /\ UNCHANGED <<storeVars, billVars, job, keyVars>>

\* 402.
Decline(c) ==
  /\ call[c].pc = "walleted" /\ ~Solvent(c)
  /\ Become(c, Idle)
  /\ UNCHANGED <<storeVars, inflight, billVars, job, keyVars>>

\* The count a request gets back from the counter it raised, and its limit.
TooMany(t) == inflight[t] + 1 > MaxConc

\* inflight.Begin raises the counter and says what it then was; a check that
\* failed is no obstacle.  A request over the limit is counted as well until
\* its handler returns, and others may be refused for it.
Admit(c) ==
  LET t == call[c].token IN
  /\ \/ call[c].pc = "walleted" /\ Solvent(c) /\ UNCHANGED unchecked
     \/ call[c].pc = "entered" /\ MayFail /\ unchecked' = unchecked \cup {t}
  /\ inflight' = [inflight EXCEPT ![t] = @ + 1]
  /\ Become(c, [pc |-> IF TooMany(t) THEN "refused" ELSE "forwarding", token |-> t])
  /\ UNCHANGED <<storeVars, unbilled, job, keyVars>>

\* The deferred release of the slot, as the request returns.
Leave(c) ==
  /\ Become(c, Idle)
  /\ inflight' = [inflight EXCEPT ![call[c].token] = @ - 1]

\* Mutant: the release is deferred after the comparison only.
TurnAwayKeepsSlot(c) ==
  /\ call[c].pc = "refused"
  /\ Become(c, Idle)
  /\ UNCHANGED <<storeVars, inflight, billVars, job, keyVars>>

\* 429: the handler returns, and only then is the slot released.
TurnAway(c) ==
  /\ call[c].pc = "refused"
  /\ Leave(c)
  /\ UNCHANGED <<storeVars, billVars, job, keyVars>>

NotServed(c) ==
  /\ call[c].pc = "forwarding"
  /\ Leave(c)
  /\ UNCHANGED <<storeVars, billVars, job, keyVars>>

Serve(c, bills) ==
  /\ call[c].pc = "forwarding"
  /\ Become(c, [pc |-> "served", token |-> call[c].token, bills |-> bills])
  /\ UNCHANGED <<storeVars, inflight, billVars, job, keyVars>>

\* SettleCharge goes by the token of the request, and begins with its wallet.
FindWallet(c) ==
  /\ call[c].pc = "served"
  /\ call[c].token \in wallets
  /\ Become(c, [call[c] EXCEPT !.pc = "found"])
  /\ UNCHANGED <<storeVars, inflight, billVars, job, keyVars>>

NextBill(c) ==
  IF call[c].bills > 1
  THEN /\ Become(c, [call[c] EXCEPT !.pc = "served", !.bills = @ - 1])
       /\ UNCHANGED inflight
  ELSE Leave(c)

\* ChargeMemberFirst makes sure of the wallet once more, in a statement of
\* its own: by now that may be a new one on a token that was rotated.
EnsureDebitWallet(c) ==
  /\ call[c].pc = "found"
  /\ EnsureWallet(call[c].token)
  /\ Become(c, [call[c] EXCEPT !.pc = "ready"])
  /\ UNCHANGED <<inflight, billVars, job, keyVars>>

Debit(c, cost) ==
  /\ call[c].pc = "ready"
  /\ ChargeMemberFirst(call[c].token, cost)
  /\ NextBill(c)
  /\ UNCHANGED <<billVars, job, keyVars>>

\* Without a wallet there is nobody to debit: a warning in the log.
MissWallet(c) ==
  LET t == call[c].token IN
  /\ call[c].pc \in {"served", "ready"} /\ t \notin wallets
  /\ \/ call[c].pc = "served"
     \/ call[c].pc = "ready" /\ \E cost \in Costs : cost > MemberPoolAvail(t)
  /\ unbilled' = unbilled \cup {t}
  /\ NextBill(c)
  /\ UNCHANGED <<storeVars, unchecked, job, keyVars>>

\* The database fails: a warning as well.
FailBilling(c) ==
  /\ MayFail
  /\ call[c].pc \in {"served", "found", "ready"}
  /\ NextBill(c)
  /\ UNCHANGED <<storeVars, billVars, job, keyVars>>
-----------------------------------------------------------------------------
(***************************************************************************)
(* handleResetToken: rows, key, and rows back if the key is not swapped.   *)
(***************************************************************************)
\* The token named need not be registered any more; the new one is random.
MoveRows(r, old, new) ==
  /\ job[r] = Idle
  /\ old \in minted /\ new \notin minted
  /\ RekeyToken(old, new)
  /\ minted' = minted \cup {new}
  /\ moved' = moved \cup {old} \cup (IF old \in moved THEN {new} ELSE {})
  /\ unchecked' = unchecked \cup (IF old \in unchecked THEN {new} ELSE {})
  /\ job' = [job EXCEPT ![r] = [pc |-> "moved", old |-> old, new |-> new]]
  /\ UNCHANGED <<call, inflight, unbilled, live>>

SwapKey(r) ==
  /\ job[r].pc = "moved"
  /\ \/ /\ job[r].old \in live
        /\ live' = (live \ {job[r].old}) \cup {job[r].new}
        /\ job' = [job EXCEPT ![r] = Idle]
     \/ /\ job[r].old \notin live \/ MayFail
        /\ job' = [job EXCEPT ![r].pc = "swapfailed"]
        /\ UNCHANGED live
  /\ UNCHANGED <<storeVars, call, inflight, billVars, minted, moved>>

\* A rollback that is refused is reported, and left there.
MoveRowsBack(r) ==
  /\ job[r].pc = "swapfailed"
  /\ \/ RekeyToken(job[r].new, job[r].old)
     \/ /\ \/ job[r].old \in wallets \/ member[job[r].old] # NoWorkspace
           \/ HasInvoiceState(job[r].old) \/ MayFail
        /\ UNCHANGED storeVars
  /\ job' = [job EXCEPT ![r] = Idle]
  /\ UNCHANGED <<call, inflight, billVars, keyVars>>
-----------------------------------------------------------------------------
\* Everything in memory goes, requests and rotations stop where they are.
Restart ==
  /\ MayFail
  /\ call' = [c \in Caller |-> Idle] /\ job' = [r \in Resetter |-> Idle]
  /\ inflight' = [t \in Token |-> 0]
  /\ UNCHANGED <<storeVars, billVars, keyVars>>

\* An operator funds a wallet or a pool, or makes a team; a token starts
\* with a wallet (handleCreateToken).
Fund ==
  /\ \/ \E t \in live : minted = First /\ EnsureWallet(t)
     \/ \E t \in live, delta \in Deltas : AddBalance(t, delta, TRUE)
     \/ \E w \in Workspace : CreateWorkspace(w)
     \/ \E w \in Workspace, delta \in Deltas : AdjustWorkspaceBalance(w, delta)
     \/ \E w \in Workspace, t \in live, day \in CapValues : AddMember(w, t, FALSE, day, 0)
  /\ UNCHANGED <<call, inflight, billVars, job, keyVars>>

Step(c) ==
  \/ CheckWallet(c) \/ Decline(c) \/ Admit(c) \/ TurnAway(c) \/ NotServed(c)
  \/ \E bills \in 1 .. MaxBills : Serve(c, bills)
  \/ FindWallet(c) \/ EnsureDebitWallet(c)
  \/ \E cost \in Costs : Debit(c, cost)
  \/ MissWallet(c) \/ FailBilling(c)

ServingNext ==
  \/ \E c \in Caller : Step(c) \/ \E t \in Token : Enter(c, t)
  \/ \E r \in Resetter :
       \/ \E old, new \in Token : MoveRows(r, old, new)
       \/ SwapKey(r) \/ MoveRowsBack(r)
  \/ Restart
  \/ Fund

ServingSpec == ServingInit /\ [][ServingNext]_servingVars
-----------------------------------------------------------------------------
(***************************************************************************)
(* Properties.                                                             *)
(***************************************************************************)
MaxCost == CHOOSE x \in Costs : \A y \in Costs : y <= x

\* A wallet without a team is overdrawn by the requests that were on their
\* way together and by no others: one checked later finds it empty.  The
\* in-flight limit does not bound it, a check made earlier outlasts it.  Once
\* a rotation has taken the wallet away, requests do not even find the
\* balance they were checked against: all of their cost is debt.  That is so
\* of a token that is rotated by one operator at a time.
OverdraftBounded ==
  \A t \in Token \ unchecked : member[t] = NoWorkspace =>
    balance[t] >= (IF t \in moved THEN 0 ELSE 1) - Cardinality(Caller) * MaxBills * MaxCost

\* The counter is the number of requests between their Begin and their
\* deferred release, those about to be refused among them: it passes the limit,
\* and a slot that is free may be refused for one of those.  The requests let
\* through are never more than the limit, whatever order the counts came in
\* (forward: Begin, compare, deferred release).
SlotsExact ==
  \A t \in Token :
    LET through == {c \in Caller : call[c].pc \in {"forwarding", "served", "found", "ready"}
                                     /\ call[c].token = t}
        refused == {c \in Caller : call[c].pc = "refused" /\ call[c].token = t}
    IN  /\ inflight[t] = Cardinality(through \cup refused)
        /\ Cardinality(through) <= MaxConc

\* A served request finds a wallet to debit, even one paid by a team whose
\* token never had any: the check has made it.  Only a check that failed, or
\* a rotation of the token, lets a request go unbilled for the lack of it
\* (PrecheckBalance, SettleCharge).
WalletFoundAtSettlement == unbilled \subseteq unchecked \cup moved

\* admin.go on the rollback: "so we don't strand billing data on a token no
\* one can use"; with no rotation under way, money is on registered tokens.
MoneyOnLiveTokens ==
  (\A r \in Resetter : job[r] = Idle) => \A t \in Token \ live : balance[t] = 0
=============================================================================
