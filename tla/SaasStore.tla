------------------------------ MODULE SaasStore ------------------------------
(***************************************************************************)
(* The SQLite store of the SaaS billing tier (src/internal/saas/db).       *)
(*                                                                         *)
(* The database opens with _txlock=immediate, so a BEGIN takes the write   *)
(* lock: one transaction is one action here, and what a function does in   *)
(* a statement of its own before its transaction (EnsureWallet) is an      *)
(* action of its own.  The callers' multi-step handlers are modelled by    *)
(* the modules that extend this one.                                       *)
(*                                                                         *)
(* Money is an integer number of units (the code's float64 dollars and     *)
(* yuan, both rounded to a fixed number of decimals before they get here). *)
(* wallet_tx and workspace_tx are kept as their running sums; the top-up   *)
(* rows, whose "ref" is an order number, are kept one by one.              *)
(***************************************************************************)
EXTENDS Integers, Sequences, FiniteSetsExt

CONSTANTS
  Token,        \* client tokens (API keys), the key of every billing table
  Workspace,    \* ids the workspaces table can hand out
  Order,        \* out_trade_no values; random, so an id is used once
  Invoice,      \* ids the invoices table can hand out
  NoWorkspace,  \* workspace_id 0: a personal order or invoice, no membership
  NoOwner,      \* no top-up row refers to the order
  Usd,          \* usd_credit of an order
  Cny,          \* cny_amount of an order
  Costs,        \* amounts a served request can cost
  Deltas,       \* amounts an operator can adjust a balance by
  CapValues,    \* daily and monthly caps a member can be given (0: no cap)
  Claims,       \* amounts an invoice can be filed for
  MaxMoney      \* bound: charges and adjustments stop at this balance

ASSUME StoreAssumption ==
  /\ NoWorkspace \notin Workspace
  /\ NoOwner \notin Token \cup Workspace
  /\ Token \cap Workspace = {}
  /\ Usd \in [Order -> Nat \ {0}] /\ Cny \in [Order -> Nat \ {0}]
  /\ Costs \subseteq Nat \ {0} /\ Claims \subseteq Nat \ {0}
  /\ Deltas \subseteq Int /\ CapValues \subseteq Nat
  /\ MaxMoney \in Nat

\* Row ids are 64-bit integers, tokens and order numbers bounded strings.
ASSUME FiniteStore ==
  IsFiniteSet(Token) /\ IsFiniteSet(Workspace) /\ IsFiniteSet(Order) /\ IsFiniteSet(Invoice)

VARIABLES
  wallets,      \* tokens that have a wallets row
  balance,      \* wallets.balance_usd (0 where there is no row)
  walletTx,     \* SUM(wallet_tx.amount_usd) by token
  workspaces,   \* workspace ids that have a row
  disabled,     \* workspaces.disabled
  pool,         \* workspaces.balance_usd
  poolTx,       \* SUM(workspace_tx.amount_usd) by workspace
  member,       \* workspace_members.workspace_id by token (UNIQUE(token))
  admins,       \* tokens whose member row has role admin
  dayCap,       \* workspace_members.daily_usd_cap
  monthCap,     \* workspace_members.monthly_usd_cap
  usedDay,      \* pool charges of the token since the start of the day
  usedMonth,    \* pool charges of the token since the start of the month
  ordStatus,    \* alipay_orders.status; absent before, deleted after the row
  ordToken,     \* alipay_orders.token
  ordWs,        \* alipay_orders.workspace_id
  credits,      \* number of top-up rows whose ref is the order
  creditTo,     \* the token or workspace the last of those rows is keyed on
  invoice,      \* invoices: status, token, workspace_id, cny_amount
  alloc,        \* invoice_allocations.cny_amount by invoice and token
  titles        \* tokens with rows in invoice_titles

walletVars  == <<wallets, balance, walletTx>>
poolVars    == <<workspaces, disabled, pool, poolTx>>
memberVars  == <<member, admins, dayCap, monthCap>>
usedVars    == <<usedDay, usedMonth>>
orderVars   == <<ordStatus, ordToken, ordWs, credits, creditTo>>
invoiceVars == <<invoice, alloc, titles>>
storeVars   == <<wallets, balance, walletTx, workspaces, disabled, pool, poolTx,
                 member, admins, dayCap, monthCap, usedDay, usedMonth,
                 ordStatus, ordToken, ordWs, credits, creditTo,
                 invoice, alloc, titles>>

OrderStates   == {"absent", "pending", "paid", "expired", "deleted"}
InvoiceStates == {"absent", "pending", "issued", "rejected"}

RowsTypeOK ==
  /\ wallets \subseteq Token
  /\ balance \in [Token -> Int] /\ walletTx \in [Token -> Int]
  /\ workspaces \subseteq Workspace /\ disabled \subseteq workspaces
  /\ pool \in [Workspace -> Int] /\ poolTx \in [Workspace -> Int]
  /\ member \in [Token -> workspaces \cup {NoWorkspace}]
  /\ admins \subseteq Token
  /\ dayCap \in [Token -> Nat] /\ monthCap \in [Token -> Nat]
  /\ usedDay \in [Token -> Nat] /\ usedMonth \in [Token -> Nat]
  /\ ordStatus \in [Order -> OrderStates]
  /\ ordToken \in [Order -> Token]
  /\ ordWs \in [Order -> workspaces \cup {NoWorkspace}]
  /\ credits \in [Order -> Nat]
  /\ creditTo \in [Order -> Token \cup Workspace \cup {NoOwner}]
  /\ invoice \in [Invoice -> [status : InvoiceStates, token : Token,
                              ws : workspaces \cup {NoWorkspace}, cny : Nat]]
  /\ titles \subseteq Token

StoreTypeOK == RowsTypeOK /\ alloc \in [Invoice -> [Token -> Nat]]

(***************************************************************************)
(* A fresh database.  The values of columns of absent rows are immaterial. *)
(***************************************************************************)
StoreInit ==
  /\ wallets = {}
  /\ balance = [t \in Token |-> 0] /\ walletTx = [t \in Token |-> 0]
  /\ workspaces = {} /\ disabled = {}
  /\ pool = [w \in Workspace |-> 0] /\ poolTx = [w \in Workspace |-> 0]
  /\ member = [t \in Token |-> NoWorkspace] /\ admins = {}
  /\ dayCap = [t \in Token |-> 0] /\ monthCap = [t \in Token |-> 0]
  /\ usedDay = [t \in Token |-> 0] /\ usedMonth = [t \in Token |-> 0]
  /\ ordStatus = [o \in Order |-> "absent"]
  /\ \E t \in Token :
       /\ ordToken = [o \in Order |-> t]
       /\ invoice = [i \in Invoice |->
            [status |-> "absent", token |-> t, ws |-> NoWorkspace, cny |-> 0]]
  /\ ordWs = [o \in Order |-> NoWorkspace]
  /\ credits = [o \in Order |-> 0] /\ creditTo = [o \in Order |-> NoOwner]
  /\ alloc = [i \in Invoice |-> [t \in Token |-> 0]]
  /\ titles = {}

Lesser(a, b) == IF a < b THEN a ELSE b
Fits(x) == x \in -MaxMoney .. MaxMoney
-----------------------------------------------------------------------------
(***************************************************************************)
(* Wallets (wallet.go).                                                    *)
(***************************************************************************)

\* INSERT OR IGNORE of an empty wallet; a no-op when the row exists.
EnsureWallet(t) ==
  /\ wallets' = wallets \cup {t}
  /\ UNCHANGED <<balance, walletTx>>
  /\ UNCHANGED <<poolVars, memberVars, usedVars, orderVars, invoiceVars>>

\* The signed delta and its wallet_tx row, in one transaction.
AddBalance(t, delta, allowNegative) ==
  /\ t \in wallets
  /\ balance[t] + delta >= 0 \/ allowNegative
  /\ Fits(balance[t] + delta)
  /\ balance'  = [balance EXCEPT ![t] = @ + delta]
  /\ walletTx' = [walletTx EXCEPT ![t] = @ + delta]
  /\ UNCHANGED wallets
  /\ UNCHANGED <<poolVars, memberVars, usedVars, orderVars, invoiceVars>>
-----------------------------------------------------------------------------
(***************************************************************************)
(* Top-up orders (orders.go).                                              *)
(***************************************************************************)

CreateOrder(o, t, w) ==
  /\ ordStatus[o] = "absent"
  /\ ordStatus' = [ordStatus EXCEPT ![o] = "pending"]
  /\ ordToken'  = [ordToken EXCEPT ![o] = t]
  /\ ordWs'     = [ordWs EXCEPT ![o] = w]
  /\ UNCHANGED <<credits, creditTo>>
  /\ UNCHANGED <<walletVars, poolVars, memberVars, usedVars, invoiceVars>>

\* Mutant: the UPDATE does not ask for status = pending.
MarkOrderPaidAnyStatus(o, owner) ==
  /\ ordStatus[o] \notin {"absent", "deleted"}
  /\ ordStatus' = [ordStatus EXCEPT ![o] = "paid"]
  /\ credits'   = [credits EXCEPT ![o] = @ + 1]
  /\ creditTo'  = [creditTo EXCEPT ![o] = owner]
  /\ UNCHANGED <<ordToken, ordWs>>

\* The order row moves from pending to paid and its one top-up row is
\* written; both credit functions begin with this UPDATE.
MarkOrderPaid(o, owner) ==
  /\ ordStatus[o] = "pending"
  /\ ordStatus' = [ordStatus EXCEPT ![o] = "paid"]
  /\ credits'   = [credits EXCEPT ![o] = @ + 1]
  /\ creditTo'  = [creditTo EXCEPT ![o] = owner]
  /\ UNCHANGED <<ordToken, ordWs>>

\* The wallet credited is the caller's argument, not the order row's token.
CreditPaidOrder(o, t) ==
  /\ t \in wallets
  /\ MarkOrderPaid(o, t)
  /\ balance'  = [balance EXCEPT ![t] = @ + Usd[o]]
  /\ walletTx' = [walletTx EXCEPT ![t] = @ + Usd[o]]
  /\ UNCHANGED wallets
  /\ UNCHANGED <<poolVars, memberVars, usedVars, invoiceVars>>

CreditPaidOrderToWorkspace(o, w) ==
  /\ w \in workspaces
  /\ MarkOrderPaid(o, w)
  /\ pool'   = [pool EXCEPT ![w] = @ + Usd[o]]
  /\ poolTx' = [poolTx EXCEPT ![w] = @ + Usd[o]]
  /\ UNCHANGED <<workspaces, disabled>>
  /\ UNCHANGED <<walletVars, memberVars, usedVars, invoiceVars>>

\* Mutant: rows are closed whatever their status.
CloseOrdersAnyStatus(S, status) ==
  /\ ordStatus' = [o \in Order |->
                     IF o \in S /\ ordStatus[o] # "absent" THEN status ELSE ordStatus[o]]
  /\ UNCHANGED <<ordToken, ordWs, credits, creditTo>>
  /\ UNCHANGED <<walletVars, poolVars, memberVars, usedVars, invoiceVars>>

\* What the three functions below do to the rows they select: only pending
\* ones are touched.
CloseOrders(S, status) ==
  /\ ordStatus' = [o \in Order |->
                     IF o \in S /\ ordStatus[o] = "pending" THEN status ELSE ordStatus[o]]
  /\ UNCHANGED <<ordToken, ordWs, credits, creditTo>>
  /\ UNCHANGED <<walletVars, poolVars, memberVars, usedVars, invoiceVars>>

MarkOrderExpired(o) == CloseOrders({o}, "expired")

\* One DELETE for every pending order older than the cutoff.
ExpirePendingOrdersBefore(old) == CloseOrders(old, "deleted")

DeletePendingOrder(o, t) ==
  /\ ordToken[o] = t /\ ordStatus[o] = "pending"
  /\ CloseOrders({o}, "deleted")
-----------------------------------------------------------------------------
(***************************************************************************)
(* Workspaces, members and the shared pool (workspace.go).                 *)
(***************************************************************************)

CreateWorkspace(w) ==
  /\ w \notin workspaces
  /\ workspaces' = workspaces \cup {w}
  /\ UNCHANGED <<disabled, pool, poolTx>>
  /\ UNCHANGED <<walletVars, memberVars, usedVars, orderVars, invoiceVars>>

SetWorkspaceDisabled(w, off) ==
  /\ w \in workspaces
  /\ disabled' = IF off THEN disabled \cup {w} ELSE disabled \ {w}
  /\ UNCHANGED <<workspaces, pool, poolTx>>
  /\ UNCHANGED <<walletVars, memberVars, usedVars, orderVars, invoiceVars>>

\* No floor: an operator may take a pool below zero.
AdjustWorkspaceBalance(w, delta) ==
  /\ w \in workspaces
  /\ Fits(pool[w] + delta)
  /\ pool'   = [pool EXCEPT ![w] = @ + delta]
  /\ poolTx' = [poolTx EXCEPT ![w] = @ + delta]
  /\ UNCHANGED <<workspaces, disabled>>
  /\ UNCHANGED <<walletVars, memberVars, usedVars, orderVars, invoiceVars>>

\* Mutant: the workspace row is not looked up first.
AddMemberUnchecked(w, t, isAdmin, day, month) ==
  /\ member[t] = NoWorkspace
  /\ member'   = [member EXCEPT ![t] = w]
  /\ admins'   = IF isAdmin THEN admins \cup {t} ELSE admins
  /\ dayCap'   = [dayCap EXCEPT ![t] = day]
  /\ monthCap' = [monthCap EXCEPT ![t] = month]
  /\ UNCHANGED <<walletVars, poolVars, usedVars, orderVars, invoiceVars>>

AddMember(w, t, isAdmin, day, month) ==
  /\ w \in workspaces
  /\ member[t] = NoWorkspace
  /\ member'   = [member EXCEPT ![t] = w]
  /\ admins'   = IF isAdmin THEN admins \cup {t} ELSE admins
  /\ dayCap'   = [dayCap EXCEPT ![t] = day]
  /\ monthCap' = [monthCap EXCEPT ![t] = month]
  /\ UNCHANGED <<walletVars, poolVars, usedVars, orderVars, invoiceVars>>

\* UpdateMember writes each field it was given with a statement of its own.
UpdateMemberRole(t, isAdmin) ==
  /\ member[t] # NoWorkspace
  /\ admins' = IF isAdmin THEN admins \cup {t} ELSE admins \ {t}
  /\ UNCHANGED <<member, dayCap, monthCap>>
  /\ UNCHANGED <<walletVars, poolVars, usedVars, orderVars, invoiceVars>>

UpdateMemberDayCap(t, day) ==
  /\ member[t] # NoWorkspace
  /\ dayCap' = [dayCap EXCEPT ![t] = day]
  /\ UNCHANGED <<member, admins, monthCap>>
  /\ UNCHANGED <<walletVars, poolVars, usedVars, orderVars, invoiceVars>>

UpdateMemberMonthCap(t, month) ==
  /\ member[t] # NoWorkspace
  /\ monthCap' = [monthCap EXCEPT ![t] = month]
  /\ UNCHANGED <<member, admins, dayCap>>
  /\ UNCHANGED <<walletVars, poolVars, usedVars, orderVars, invoiceVars>>

RemoveMember(t) ==
  /\ member[t] # NoWorkspace
  /\ member'   = [member EXCEPT ![t] = NoWorkspace]
  /\ admins'   = admins \ {t}
  /\ dayCap'   = [dayCap EXCEPT ![t] = 0]
  /\ monthCap' = [monthCap EXCEPT ![t] = 0]
  /\ UNCHANGED <<walletVars, poolVars, usedVars, orderVars, invoiceVars>>

\* Midnight in Beijing: the day's rollup starts again, and on the first of
\* the month the month's too.
DayStart(firstOfMonth) ==
  /\ usedDay'   = [t \in Token |-> 0]
  /\ usedMonth' = IF firstOfMonth THEN [t \in Token |-> 0] ELSE usedMonth
  /\ UNCHANGED <<walletVars, poolVars, memberVars, orderVars, invoiceVars>>

\* Mutant: the rollup already used is not subtracted from the cap.
CapLeftIgnoringUse(cap, used, avail) ==
  IF cap > 0 /\ cap < avail THEN cap ELSE avail

CapLeft(cap, used, avail) ==
  IF cap > 0 /\ cap - used < avail THEN cap - used ELSE avail

\* What the member may draw from the pool now: the pool, less whatever a
\* cap forbids, never below zero.
MemberPoolAvail(t) ==
  LET w     == member[t]
      avail == CapLeft(monthCap[t], usedMonth[t],
                       CapLeft(dayCap[t], usedDay[t], pool[w]))
  IN  IF w = NoWorkspace THEN 0
      ELSE IF w \in disabled \/ pool[w] <= 0 \/ avail < 0 THEN 0 ELSE avail

\* Pool first, the rest from the personal wallet, which may go below zero.
\* Without a wallet row the personal part fails and all of it rolls back.
ChargeMemberFirst(t, cost) ==
  LET w        == member[t]
      fromPool == Lesser(cost, MemberPoolAvail(t))
      personal == cost - fromPool
  IN  /\ personal > 0 => t \in wallets
      /\ Fits(balance[t] - personal) /\ Fits(usedMonth[t] + fromPool)
      /\ balance'   = [balance EXCEPT ![t] = @ - personal]
      /\ walletTx'  = [walletTx EXCEPT ![t] = @ - personal]
      /\ pool'      = [v \in Workspace |-> IF v = w THEN pool[v] - fromPool ELSE pool[v]]
      /\ poolTx'    = [v \in Workspace |-> IF v = w THEN poolTx[v] - fromPool ELSE poolTx[v]]
      /\ usedDay'   = [usedDay EXCEPT ![t] = @ + fromPool]
      /\ usedMonth' = [usedMonth EXCEPT ![t] = @ + fromPool]
      /\ UNCHANGED <<wallets, workspaces, disabled>>
      /\ UNCHANGED <<memberVars, orderVars, invoiceVars>>
-----------------------------------------------------------------------------
(***************************************************************************)
(* Invoices (invoices.go, invoices_workspace.go).                          *)
(***************************************************************************)
Claiming(i) == invoice[i].status \in {"pending", "issued"}

PaidOrders(t) == {o \in Order : ordToken[o] = t /\ ordStatus[o] = "paid"}
PaidCNY(t) == SumFunctionOnSet(Cny, PaidOrders(t))

\* LockedCNY + IssuedCNY: the personal invoices, and the shares of team ones.
PersonalClaims(t) ==
  {i \in Invoice : Claiming(i) /\ invoice[i].token = t /\ invoice[i].ws = NoWorkspace}
PersonalCNY(t) == SumFunctionOnSet([i \in Invoice |-> invoice[i].cny], PersonalClaims(t))
SharesCNY(t) ==
  SumFunctionOnSet([i \in Invoice |-> alloc[i][t]], {i \in Invoice : Claiming(i)})
ClaimedCNY(t) == PersonalCNY(t) + SharesCNY(t)

\* Mutant: team shares are forgotten when the quota is measured.
AvailablePersonalOnly(t) ==
  IF PaidCNY(t) < PersonalCNY(t) THEN 0 ELSE PaidCNY(t) - PersonalCNY(t)

AvailableCNY(t) ==
  IF PaidCNY(t) < ClaimedCNY(t) THEN 0 ELSE PaidCNY(t) - ClaimedCNY(t)

FileInvoice(i, t, w, cny, shares) ==
  /\ invoice[i].status = "absent"
  /\ invoice' = [invoice EXCEPT ![i] = [status |-> "pending", token |-> t,
                                        ws |-> w, cny |-> cny]]
  /\ alloc'   = [alloc EXCEPT ![i] = shares]
  /\ titles'  = titles \cup {t}
  /\ UNCHANGED <<walletVars, poolVars, memberVars, usedVars, orderVars>>

CreateInvoice(i, t, cny) ==
  /\ cny <= AvailableCNY(t)
  /\ FileInvoice(i, t, NoWorkspace, cny, [u \in Token |-> 0])

\* Mutant: a member's share is not cut to what is still wanted.
AllocateUncut(order, cny) ==
  [t \in Token |-> IF \E k \in 1 .. Len(order) : order[k] = t THEN AvailableCNY(t) ELSE 0]

\* The greedy split: each member in turn gives what is still wanted, up to
\* what it has.  left[k] is "remaining" after the first k members.
Allocate(order, cny) ==
  LET left[k \in 0 .. Len(order)] ==
        IF k = 0 THEN cny
        ELSE left[k-1] - Lesser(AvailableCNY(order[k]), left[k-1])
  IN  [t \in Token |->
         IF \E k \in 1 .. Len(order) : order[k] = t
         THEN LET k == CHOOSE j \in 1 .. Len(order) : order[j] = t
              IN  left[k-1] - left[k]
         ELSE 0]

Members(w) == {t \in Token : member[t] = w}

\* Members fill up in the order they joined.  created_at has a resolution of
\* one second and ties go by token, so every order of the members can be the
\* stored one.
CreateWorkspaceInvoice(i, w, t, cny) ==
  /\ cny <= SumFunctionOnSet([u \in Token |-> AvailableCNY(u)], Members(w))
  /\ \E order \in [1 .. Cardinality(Members(w)) -> Members(w)] :
       /\ \A u \in Members(w) : \E k \in DOMAIN order : order[k] = u
       /\ FileInvoice(i, t, w, cny, Allocate(order, cny))

\* Mutant: the status of the row is not asked for.
CloseInvoiceAnyStatus(i, status) ==
  /\ invoice[i].status # "absent"
  /\ invoice' = [invoice EXCEPT ![i].status = status]
  /\ UNCHANGED <<alloc, titles>>
  /\ UNCHANGED <<walletVars, poolVars, memberVars, usedVars, orderVars>>

CloseInvoice(i, status) ==
  /\ invoice[i].status = "pending"
  /\ invoice' = [invoice EXCEPT ![i].status = status]
  /\ UNCHANGED <<alloc, titles>>
  /\ UNCHANGED <<walletVars, poolVars, memberVars, usedVars, orderVars>>

MarkInvoiceIssued(i)   == CloseInvoice(i, "issued")
MarkInvoiceRejected(i) == CloseInvoice(i, "rejected")
-----------------------------------------------------------------------------
(***************************************************************************)
(* RekeyToken (wallet.go): every row keyed on the old token moves to the   *)
(* new one, in one transaction.                                            *)
(***************************************************************************)
MoveSum(f, old, new) == [f EXCEPT ![new] = @ + f[old], ![old] = 0]
Renamed(t, old, new) == IF t = old THEN new ELSE t

\* Mutant: the wallets row moves and its ledger stays behind.
RekeyWalletsRowOnly(old, new) ==
  /\ wallets'  = IF old \in wallets THEN (wallets \ {old}) \cup {new} ELSE wallets
  /\ balance'  = MoveSum(balance, old, new)
  /\ UNCHANGED walletTx

RekeyWallets(old, new) ==
  /\ wallets'  = IF old \in wallets THEN (wallets \ {old}) \cup {new} ELSE wallets
  /\ balance'  = MoveSum(balance, old, new)
  /\ walletTx' = MoveSum(walletTx, old, new)

RekeyMembers(old, new) ==
  /\ member'    = [member EXCEPT ![new] = member[old], ![old] = NoWorkspace]
  /\ admins'    = {Renamed(t, old, new) : t \in admins}
  /\ dayCap'    = [dayCap EXCEPT ![new] = dayCap[old], ![old] = 0]
  /\ monthCap'  = [monthCap EXCEPT ![new] = monthCap[old], ![old] = 0]
  /\ usedDay'   = MoveSum(usedDay, old, new)
  /\ usedMonth' = MoveSum(usedMonth, old, new)
  /\ UNCHANGED poolVars

RekeyOrders(old, new) ==
  /\ ordToken' = [o \in Order |-> Renamed(ordToken[o], old, new)]
  /\ creditTo' = [o \in Order |-> Renamed(creditTo[o], old, new)]
  /\ UNCHANGED <<ordStatus, ordWs, credits>>

\* Mutant: the orders move and the invoices drawn on them do not.
RekeyInvoicesForgotten(old, new) == UNCHANGED invoiceVars

RekeyInvoices(old, new) ==
  /\ invoice' = [i \in Invoice |->
                   [invoice[i] EXCEPT !.token = Renamed(invoice[i].token, old, new)]]
  /\ alloc'   = [i \in Invoice |-> MoveSum(alloc[i], old, new)]
  /\ titles'  = {Renamed(t, old, new) : t \in titles}

HasInvoiceState(t) ==
  \/ t \in titles
  \/ \E i \in Invoice : invoice[i].status # "absent" /\ (invoice[i].token = t \/ alloc[i][t] > 0)

RekeyToken(old, new) ==
  /\ old # new
  /\ new \notin wallets
  /\ member[new] = NoWorkspace
  /\ ~HasInvoiceState(new)
  /\ RekeyWallets(old, new)
  /\ RekeyMembers(old, new)
  /\ RekeyOrders(old, new)
  /\ RekeyInvoices(old, new)
-----------------------------------------------------------------------------
(***************************************************************************)
(* The store under callers that issue any operation at any time.           *)
(***************************************************************************)
WalletOps ==
  \E t \in Token :
    \/ EnsureWallet(t)
    \/ \E delta \in Deltas : AddBalance(t, delta, TRUE)
    \/ \E cost \in Costs : ChargeMemberFirst(t, cost)
    \/ \E new \in Token : Fits(usedMonth[t] + usedMonth[new]) /\ RekeyToken(t, new)

OrderOps ==
  \/ \E o \in Order, t \in Token, w \in workspaces \cup {NoWorkspace} : CreateOrder(o, t, w)
  \/ \E o \in Order : ordWs[o] = NoWorkspace /\ CreditPaidOrder(o, ordToken[o])
  \/ \E o \in Order : CreditPaidOrderToWorkspace(o, ordWs[o])
  \/ \E o \in Order : MarkOrderExpired(o) \/ DeletePendingOrder(o, ordToken[o])
  \/ \E old \in SUBSET Order : ExpirePendingOrdersBefore(old)

WorkspaceOps ==
  \/ \E w \in Workspace : CreateWorkspace(w)
  \/ \E w \in Workspace, off \in BOOLEAN : SetWorkspaceDisabled(w, off)
  \/ \E w \in Workspace, delta \in Deltas : AdjustWorkspaceBalance(w, delta)
  \/ \E first \in BOOLEAN : DayStart(first)

MemberOps ==
  \E t \in Token :
    \/ \E w \in Workspace, isAdmin \in BOOLEAN, day, month \in CapValues :
         AddMember(w, t, isAdmin, day, month)
    \/ \E isAdmin \in BOOLEAN : UpdateMemberRole(t, isAdmin)
    \/ \E cap \in CapValues : UpdateMemberDayCap(t, cap) \/ UpdateMemberMonthCap(t, cap)
    \/ RemoveMember(t)

InvoiceOps ==
  \E i \in Invoice :
    \/ \E t \in Token, cny \in Claims : CreateInvoice(i, t, cny)
    \/ \E t \in Token, w \in workspaces, cny \in Claims : CreateWorkspaceInvoice(i, w, t, cny)
    \/ MarkInvoiceIssued(i)
    \/ MarkInvoiceRejected(i)

StoreNext == WalletOps \/ OrderOps \/ WorkspaceOps \/ MemberOps \/ InvoiceOps

StoreSpec == StoreInit /\ [][StoreNext]_storeVars
-----------------------------------------------------------------------------
(***************************************************************************)
(* Properties.                                                             *)
(***************************************************************************)

\* Every balance is the sum of its ledger, whatever was credited, charged,
\* adjusted or moved to another token, and a token without a wallet row has
\* no money and no ledger left on it (wallet.go, workspace.go: each write of
\* a balance and its _tx row commit together; RekeyToken moves both).
LedgerBalanced ==
  /\ \A t \in Token : balance[t] = walletTx[t]
  /\ \A t \in Token \ wallets : walletTx[t] = 0
  /\ \A w \in Workspace : pool[w] = poolTx[w]

\* A paid order has been credited once, any other order never: the guarded
\* UPDATE of CreditPaidOrder and CreditPaidOrderToWorkspace makes concurrent
\* deliveries of one payment idempotent.
CreditedExactlyOnce ==
  \A o \in Order : credits[o] = (IF ordStatus[o] = "paid" THEN 1 ELSE 0)

\* No token has invoices, personal or as its share of a team's, for more than
\* it paid in, across rotations of the token and changes of workspace
\* (invoices.go, "never an over-invoice situation").
NeverOverInvoiced == \A t \in Token : ClaimedCNY(t) <= PaidCNY(t)

\* The shares of a team invoice add up to its face value, whoever's token
\* they sit on by now (allocateInvoice).
SharesMakeFaceValue ==
  \A i \in Invoice : invoice[i].status # "absent" /\ invoice[i].ws # NoWorkspace =>
    SumFunctionOnSet(alloc[i], Token) = invoice[i].cny

\* A step that only adds to one member's pool spend is a charge.
IsPoolCharge(t) ==
  /\ usedMonth'[t] > usedMonth[t]
  /\ \A s \in Token \ {t} : usedMonth'[s] = usedMonth[s]

\* A charge never takes a member past a cap that is set, never takes the pool
\* below zero, and takes nothing from a disabled workspace, even when caps
\* were lowered below what was used or the member changed workspace
\* (ChargeMemberFirst, "never ... overshoot the cap").
ChargeWithinLimits ==
  [][\A t \in Token : IsPoolCharge(t) =>
       /\ dayCap[t] > 0 => usedDay'[t] <= dayCap[t]
       /\ monthCap[t] > 0 => usedMonth'[t] <= monthCap[t]
       /\ member[t] \in workspaces \ disabled
       /\ pool'[member[t]] >= 0]_storeVars

\* The end states of an order and of an invoice are final: a paid order is
\* immutable financial state, and a swept, cancelled or expired one is never
\* brought back by a late notification.
EndStatesAreFinal ==
  [][/\ \A o \in Order : ordStatus[o] \in {"paid", "expired", "deleted"} =>
          ordStatus'[o] = ordStatus[o]
     /\ \A i \in Invoice : invoice[i].status \in {"issued", "rejected"} =>
          invoice'[i].status = invoice[i].status]_storeVars
=============================================================================
