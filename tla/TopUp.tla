-------------------------------- MODULE TopUp --------------------------------
(***************************************************************************)
(* Top-ups: the billing handlers of src/internal/saas/billing between a    *)
(* user, the payment gateway and the store.                                *)
(*                                                                         *)
(* A Creator is a request running CreateTopup, an Applier one running      *)
(* applyNotification, for a notification of the gateway or for an          *)
(* operator's ReconcileOrder.  Every database call is a step of its own:   *)
(* between two of them the user pays or cancels, the sweeper runs, the     *)
(* order ages past OrderTTL, another request handles the same order, the   *)
(* token is rotated.  At any step a request can die (an error of the       *)
(* database, a closed connection, a restart of the process): it leaves     *)
(* what it has committed.                                                  *)
(*                                                                         *)
(* The notifications are genuine ones, signed and for the amount of the    *)
(* order; the checks that reject others change no state.                   *)
(***************************************************************************)
EXTENDS SaasStore

CONSTANTS
  Creator,   \* concurrent requests in CreateTopup
  Applier,   \* concurrent requests in applyNotification
  First      \* the tokens registered at the start; others come by rotation

ASSUME TopUpAssumption == First \subseteq Token

VARIABLES
  trade,      \* the gateway's record of the order: none, open, settled, or
              \* late when it was paid after the order had been closed
  stale,      \* orders older than OrderTTL
  cancelled,  \* orders their user cancelled
  creator,    \* progress of a CreateTopup
  applier,    \* progress of an applyNotification, with the row GetOrder read
  acked,      \* orders with a notification answered "success"
  reported,   \* orders ReconcileOrder has reported "credited"
  live,       \* registered tokens
  retired     \* tokens a rotation has replaced

gatewayVars == <<trade, stale, cancelled>>
tokenVars   == <<live, retired>>
answerVars  == <<acked, reported>>
topUpVars   == <<storeVars, gatewayVars, tokenVars, answerVars, creator, applier>>

Idle == [pc |-> "idle"]
Creating == [pc : {"admitted", "walleted"}, token : Token, ws : Workspace \cup {NoWorkspace}]
              \cup [pc : {"opened"}, token : Token, ws : Workspace \cup {NoWorkspace},
                    order : Order]
Applying == [pc : {"read", "walleted", "overdue"}, via : {"notify", "reconcile"},
             order : Order, token : Token, ws : Workspace \cup {NoWorkspace}]

TopUpTypeOK ==
  /\ StoreTypeOK
  /\ trade \in [Order -> {"none", "open", "settled", "late"}]
  /\ stale \subseteq Order /\ cancelled \subseteq Order
  /\ creator \in [Creator -> {Idle} \cup Creating]
  /\ applier \in [Applier -> {Idle} \cup Applying]
  /\ acked \subseteq Order /\ reported \subseteq Order
  /\ live \subseteq Token /\ retired \subseteq Token \ live

TopUpInit ==
  /\ StoreInit
  /\ trade = [o \in Order |-> "none"]
  /\ stale = {} /\ cancelled = {} /\ acked = {} /\ reported = {}
  /\ creator = [c \in Creator |-> Idle] /\ applier = [a \in Applier |-> Idle]
  /\ live = First /\ retired = {}
-----------------------------------------------------------------------------
(***************************************************************************)
(* CreateTopup.                                                            *)
(***************************************************************************)

\* The request is authenticated, for the token's wallet or, from an admin,
\* for the workspace's pool.  The count of pending orders is not a bound:
\* its error is ignored, so it admits whatever the number of orders.
AdmitTopup(c, t, w) ==
  /\ creator[c] = Idle
  /\ t \in live
  /\ w = NoWorkspace \/ (w = member[t] /\ t \in admins)
  /\ creator' = [creator EXCEPT ![c] = [pc |-> "admitted", token |-> t, ws |-> w]]
  /\ UNCHANGED <<storeVars, gatewayVars, tokenVars, answerVars, applier>>

EnsureInitiatorWallet(c) ==
  /\ creator[c].pc = "admitted"
  /\ EnsureWallet(creator[c].token)
  /\ creator' = [creator EXCEPT ![c].pc = "walleted"]
  /\ UNCHANGED <<gatewayVars, tokenVars, answerVars, applier>>

\* The gateway learns of the order before the database does, from the first
\* of three posts at the latest; the later ones name the same order.
CreatePayment(c, o) ==
  /\ creator[c].pc = "walleted"
  /\ trade[o] = "none"
  /\ trade' = [trade EXCEPT ![o] = "open"]
  /\ creator' = [creator EXCEPT ![c] = [pc |-> "opened", token |-> creator[c].token,
                                        ws |-> creator[c].ws, order |-> o]]
  /\ UNCHANGED <<storeVars, stale, cancelled, tokenVars, answerVars, applier>>

RecordOrder(c) ==
  /\ creator[c].pc = "opened"
  /\ CreateOrder(creator[c].order, creator[c].token, creator[c].ws)
  /\ creator' = [creator EXCEPT ![c] = Idle]
  /\ UNCHANGED <<gatewayVars, tokenVars, answerVars, applier>>

AbandonTopup(c) ==
  /\ creator[c] # Idle
  /\ creator' = [creator EXCEPT ![c] = Idle]
  /\ UNCHANGED <<storeVars, gatewayVars, tokenVars, answerVars, applier>>
-----------------------------------------------------------------------------
(***************************************************************************)
(* The user, the clock, the sweeper and the operator.                      *)
(***************************************************************************)

\* The payment link reaches the user once the row is there, in the response
\* or in the list of orders, and works after the order is closed too.
UserPays(o) ==
  /\ trade[o] = "open" /\ ordStatus[o] # "absent"
  /\ trade' = [trade EXCEPT ![o] = IF ordStatus[o] = "pending" THEN "settled" ELSE "late"]
  /\ UNCHANGED <<storeVars, stale, cancelled, tokenVars, answerVars, creator, applier>>

OrderCancel(o) ==
  /\ ordToken[o] \in live
  /\ DeletePendingOrder(o, ordToken[o])
  /\ cancelled' = cancelled \cup {o}
  /\ UNCHANGED <<trade, stale, tokenVars, answerVars, creator, applier>>

OrderAges(o) ==
  /\ ordStatus[o] = "pending" /\ o \notin stale
  /\ stale' = stale \cup {o}
  /\ UNCHANGED <<storeVars, trade, cancelled, tokenVars, answerVars, creator, applier>>

\* Mutant: the cutoff is now instead of OrderTTL ago.
SweepAllPending ==
  /\ ExpirePendingOrdersBefore(Order)
  /\ UNCHANGED <<gatewayVars, tokenVars, answerVars, creator, applier>>

RunExpirySweeper ==
  /\ ExpirePendingOrdersBefore(stale)
  /\ UNCHANGED <<gatewayVars, tokenVars, answerVars, creator, applier>>

\* Mutant: the old token goes on being accepted.
RotateTokenKeepingOld(old, new) ==
  /\ old \in live /\ new \notin live \cup retired
  /\ RekeyToken(old, new)
  /\ live' = live \cup {new}
  /\ retired' = retired \cup {old}
  /\ UNCHANGED <<gatewayVars, answerVars, creator, applier>>

\* A rotation, in one step: its own failures are the subject of Serving.
RotateToken(old, new) ==
  /\ old \in live /\ new \notin live \cup retired
  /\ RekeyToken(old, new)
  /\ live' = (live \ {old}) \cup {new}
  /\ retired' = retired \cup {old}
  /\ UNCHANGED <<gatewayVars, answerVars, creator, applier>>

\* An admin sets up a team.
SetUpTeam ==
  /\ \/ \E w \in Workspace : CreateWorkspace(w)
     \/ \E w \in Workspace, t \in live : AddMember(w, t, TRUE, 0, 0)
  /\ UNCHANGED <<gatewayVars, tokenVars, answerVars, creator, applier>>
-----------------------------------------------------------------------------
(***************************************************************************)
(* applyNotification, for notify and for ReconcileOrder.                   *)
(***************************************************************************)
Answer(o, via) ==
  IF via = "notify" THEN acked' = acked \cup {o} /\ UNCHANGED reported
                    ELSE UNCHANGED answerVars

AnswerCredited(o, via) ==
  /\ acked'    = IF via = "notify" THEN acked \cup {o} ELSE acked
  /\ reported' = IF via = "reconcile" THEN reported \cup {o} ELSE reported

\* An order that is gone or expired is a terminal error, acknowledged; one
\* that is paid is a success.
ReadClosed(a, o, via) ==
  /\ ordStatus[o] # "pending"
  /\ IF ordStatus[o] = "paid" THEN AnswerCredited(o, via) ELSE Answer(o, via)
  /\ UNCHANGED applier

\* The row is kept as it was read, and its age compared with OrderTTL.
ReadPending(a, o, via) ==
  /\ ordStatus[o] = "pending"
  /\ applier' = [applier EXCEPT ![a] =
       [pc |-> IF o \in stale THEN "overdue" ELSE "read", via |-> via,
        order |-> o, token |-> ordToken[o], ws |-> ordWs[o]]]
  /\ UNCHANGED answerVars

\* The gateway signs a notification of an order once it is paid, and repeats
\* it until it is answered "success"; what is not signed is refused.
VerifyNotify(o) == trade[o] \in {"settled", "late"} /\ o \notin acked

\* Asked about an order it answers whether it is paid, and nothing is applied
\* of one that is not.
QueryTrade(o) == trade[o] \in {"settled", "late"}

\* An operator reconciles whenever he likes.
ReadOrder(a, o, via) ==
  /\ applier[a] = Idle
  /\ IF via = "notify" THEN VerifyNotify(o) ELSE QueryTrade(o)
  /\ ReadClosed(a, o, via) \/ ReadPending(a, o, via)
  /\ UNCHANGED <<storeVars, gatewayVars, tokenVars, creator>>

\* Past OrderTTL: the order is closed and the error is terminal, whether or
\* not the UPDATE went through (its error is dropped).
RejectOverdue(a) ==
  /\ applier[a].pc = "overdue"
  /\ MarkOrderExpired(applier[a].order) \/ UNCHANGED storeVars
  /\ Answer(applier[a].order, applier[a].via)
  /\ applier' = [applier EXCEPT ![a] = Idle]
  /\ UNCHANGED <<gatewayVars, tokenVars, creator>>

\* CreditPaidOrder makes sure of the wallet in a statement of its own.
EnsureCreditWallet(a) ==
  /\ applier[a].pc = "read" /\ applier[a].ws = NoWorkspace
  /\ EnsureWallet(applier[a].token)
  /\ applier' = [applier EXCEPT ![a].pc = "walleted"]
  /\ UNCHANGED <<gatewayVars, tokenVars, answerVars, creator>>

\* Mutant: the credit goes through whatever has become of the order.
ApplyCreditUnguarded(a) ==
  LET job == applier[a] IN
  /\ job.pc = "walleted" /\ job.token \in wallets
  /\ MarkOrderPaidAnyStatus(job.order, job.token)
  /\ balance'  = [balance EXCEPT ![job.token] = @ + Usd[job.order]]
  /\ walletTx' = [walletTx EXCEPT ![job.token] = @ + Usd[job.order]]
  /\ AnswerCredited(job.order, job.via)
  /\ applier' = [applier EXCEPT ![a] = Idle]
  /\ UNCHANGED <<wallets, poolVars, memberVars, usedVars, invoiceVars>>
  /\ UNCHANGED <<gatewayVars, tokenVars, creator>>

\* Credits what GetOrder read: the token of then, not of now.
ApplyCredit(a) ==
  LET job == applier[a] IN
  /\ \/ job.pc = "walleted" /\ CreditPaidOrder(job.order, job.token)
     \/ job.pc = "read" /\ CreditPaidOrderToWorkspace(job.order, job.ws)
  /\ AnswerCredited(job.order, job.via)
  /\ applier' = [applier EXCEPT ![a] = Idle]
  /\ UNCHANGED <<gatewayVars, tokenVars, creator>>

\* ErrOrderNotPending is taken for success.
FindNotPending(a) ==
  LET job == applier[a] IN
  /\ job.pc = "walleted" \/ (job.pc = "read" /\ job.ws # NoWorkspace)
  /\ ordStatus[job.order] # "pending"
  /\ AnswerCredited(job.order, job.via)
  /\ applier' = [applier EXCEPT ![a] = Idle]
  /\ UNCHANGED <<storeVars, gatewayVars, tokenVars, creator>>

\* Mutant: a transient failure is acknowledged like a terminal one.
FailAcknowledged(a) ==
  /\ applier[a] # Idle
  /\ Answer(applier[a].order, applier[a].via)
  /\ applier' = [applier EXCEPT ![a] = Idle]
  /\ UNCHANGED <<storeVars, gatewayVars, tokenVars, creator>>

\* Answered 500, or not at all: the wallet has moved to another token, the
\* database is busy, the process stops.
FailTransient(a) ==
  /\ applier[a] # Idle
  /\ applier' = [applier EXCEPT ![a] = Idle]
  /\ UNCHANGED <<storeVars, gatewayVars, tokenVars, answerVars, creator>>

Proceed(a) ==
  RejectOverdue(a) \/ EnsureCreditWallet(a) \/ ApplyCredit(a) \/ FindNotPending(a)
-----------------------------------------------------------------------------
Create ==
  \E c \in Creator :
    \/ \E t \in Token, w \in Workspace \cup {NoWorkspace} : AdmitTopup(c, t, w)
    \/ EnsureInitiatorWallet(c)
    \/ \E o \in Order : CreatePayment(c, o)
    \/ RecordOrder(c)
    \/ AbandonTopup(c)

Apply ==
  \E a \in Applier :
    \/ \E o \in Order, via \in {"notify", "reconcile"} : ReadOrder(a, o, via)
    \/ Proceed(a)
    \/ FailTransient(a)

Around ==
  \/ \E o \in Order : UserPays(o) \/ OrderCancel(o) \/ OrderAges(o)
  \/ RunExpirySweeper
  \/ \E old, new \in Token : RotateToken(old, new)
  \/ SetUpTeam

TopUpNext == Create \/ Apply \/ Around

TopUpSpec == TopUpInit /\ [][TopUpNext]_topUpVars

\* The gateway goes on notifying and one delivery in the end is served; a
\* request ends; the database does not fail the same order's statements for
\* ever.
Notified(o) == \E a \in Applier : ReadOrder(a, o, "notify")
Working(a, o) == applier[a] # Idle /\ applier[a].order = o /\ Proceed(a)

TopUpFairness ==
  /\ \A o \in Order : SF_topUpVars(Notified(o))
  /\ \A a \in Applier : WF_topUpVars(Proceed(a) \/ FailTransient(a))
  /\ \A o \in Order :
       /\ SF_topUpVars(\E a \in Applier : Working(a, o) /\ EnsureCreditWallet(a))
       /\ SF_topUpVars(\E a \in Applier : Working(a, o) /\ ApplyCredit(a))

FairTopUpSpec == TopUpSpec /\ TopUpFairness
-----------------------------------------------------------------------------
(***************************************************************************)
(* The promise of Settlement, seen through the rows of the store.          *)
(***************************************************************************)
Phase == [o \in Order |->
            CASE ordStatus[o] = "absent"  -> "none"
              [] ordStatus[o] = "pending" -> "open"
              [] ordStatus[o] = "paid"    -> "paid"
              [] OTHER                    -> "closed"]
Money == SumFunctionOnSet(balance, Token) + SumFunctionOnSet(pool, Workspace)

Promise == INSTANCE Settlement WITH phase <- Phase, money <- Money

\* Every interleaving of creations, deliveries, cancellations, sweeps and
\* rotations does no more than Settlement: an order is credited at most once
\* and by a pending row, and a rotation neither makes nor loses money.
SettlesAsPromised == Promise!Spec
-----------------------------------------------------------------------------
(***************************************************************************)
(* Properties.                                                             *)
(***************************************************************************)

\* The gateway is told to stop only when there is nothing left to do: an
\* acknowledged order is pending only if it is too old to be credited
\* (notify: terminal errors are ACKed, transient ones are not).
AckedIsClosed == \A o \in acked : ordStatus[o] = "pending" => o \in stale

\* An order ends unpaid for a cause: its user cancelled it, or it grew older
\* than OrderTTL, however its deliveries interleave with the sweeper.
ClosedForCause ==
  \A o \in Order :
    /\ ordStatus[o] = "deleted" => o \in stale \cup cancelled
    /\ ordStatus[o] = "expired" => o \in stale

\* A payment made while the order was pending is credited, unless the user
\* cancels the order or it grows stale first: whatever fails on the way is
\* tried again.
PaidIsCredited ==
  \A o \in Order :
    (trade[o] = "settled") ~> (ordStatus[o] = "paid" \/ o \in stale \cup cancelled)

\* orders.go on ErrOrderNotPending: "a concurrent webhook already credited
\* it"; ReconcileOrder passes that on to the operator as "credited".
ReportedIsPaid == \A o \in reported : ordStatus[o] = "paid"
=============================================================================
