----------------------------- MODULE TopUpProofs -----------------------------
(***************************************************************************)
(* Proofs about the top-up handlers, for any number of requests, orders    *)
(* and tokens.                                                             *)
(*                                                                         *)
(* The handlers keep the books of the store, although a credit goes to the *)
(* token that was read before the transaction: MoneyInv of SaasStoreProofs *)
(* needs no more than that this token has a wallet.  That acknowledgements *)
(* and closures are earned needs to know what a request has in hand: a row *)
(* that was there when it was read, and old if it was found overdue.       *)
(*                                                                         *)
(* The handlers implement module Settlement: the phase of an order is read *)
(* off its row, and the money is the sum of the wallets and the pools.     *)
(***************************************************************************)
EXTENDS TopUp, SaasStoreProofs

DeskInv ==
  /\ trade \in [Order -> {"none", "open", "settled", "late"}]
  /\ live \subseteq Token
  /\ creator \in [Creator -> {Idle} \cup Creating]
  /\ applier \in [Applier -> {Idle} \cup Applying]
  /\ \A c \in Creator : creator[c] # Idle => creator[c].ws \in workspaces \cup {NoWorkspace}

OrdersInv ==
  /\ \A o \in Order : trade[o] \in {"settled", "late"} => ordStatus[o] # "absent"
  /\ \A a \in Applier : applier[a] # Idle => ordStatus[applier[a].order] # "absent"
  /\ \A a \in Applier : applier[a].pc = "overdue" => applier[a].order \in stale
  /\ acked \subseteq Order /\ \A o \in acked : ordStatus[o] # "absent"
  /\ AckedIsClosed
  /\ ClosedForCause

TopUpInv == MoneyInv /\ DeskInv /\ OrdersInv

\* Nothing has been ordered.
LEMMA TopUpInitInv == TopUpInit => TopUpInv
  <1> SUFFICES ASSUME TopUpInit PROVE TopUpInv
    OBVIOUS
  <1>1. MoneyInv
    BY InitMoney DEF TopUpInit
  <1>2. DeskInv
    BY TopUpAssumption DEF TopUpInit, DeskInv
  <1>3. /\ trade = [o \in Order |-> "none"] /\ acked = {}
        /\ applier = [a \in Applier |-> Idle] /\ ordStatus = [o \in Order |-> "absent"]
    BY DEF TopUpInit, StoreInit
  <1>4. OrdersInv
    BY <1>3 DEF OrdersInv, Idle, AckedIsClosed, ClosedForCause
  <1> QED BY <1>1, <1>2, <1>4 DEF TopUpInv

-----------------------------------------------------------------------------
(***************************************************************************)
(* What a request has in hand.                                             *)
(***************************************************************************)
\* A request of CreateTopup that has begun names a token and a workspace that
\* is there, and an order once the gateway knows of it.
LEMMA CreatorHas ==
  ASSUME TopUpInv, NEW c \in Creator, creator[c] # Idle
  PROVE  /\ creator[c] \in Creating /\ creator[c].token \in Token
         /\ creator[c].ws \in workspaces \cup {NoWorkspace}
         /\ creator[c].pc = "opened" => creator[c].order \in Order
  BY DEF TopUpInv, DeskInv, Creating

\* A request of applyNotification has the row of an order.
LEMMA ApplierHas ==
  ASSUME TopUpInv, NEW a \in Applier, applier[a] # Idle
  PROVE  /\ applier[a] \in Applying /\ applier[a].order \in Order /\ applier[a].token \in Token
         /\ applier[a].ws \in Workspace \cup {NoWorkspace}
  BY DEF TopUpInv, DeskInv, Applying

-----------------------------------------------------------------------------
(***************************************************************************)
(* The books.                                                              *)
(***************************************************************************)
\* CreateTopup touches the store twice: a wallet, and the row of the order.
LEMMA CreateKeepsBooks == ASSUME TopUpInv, Create PROVE MoneyInv'
  <1> USE DEF TopUpInv
  <1>1. PICK c \in Creator :
          \/ \E t \in Token, w \in Workspace \cup {NoWorkspace} : AdmitTopup(c, t, w)
          \/ EnsureInitiatorWallet(c)
          \/ \E o \in Order : CreatePayment(c, o)
          \/ RecordOrder(c)
          \/ AbandonTopup(c)
    BY DEF Create
  <1>2. CASE \E t \in Token, w \in Workspace \cup {NoWorkspace} : AdmitTopup(c, t, w)
    BY <1>2, StutterKeeps DEF AdmitTopup
  <1>3. CASE EnsureInitiatorWallet(c)
    <2>1. creator[c] # Idle /\ EnsureWallet(creator[c].token)
      BY <1>3 DEF EnsureInitiatorWallet, Idle
    <2> QED BY <2>1, CreatorHas, EnsureWalletKeeps
  <1>4. CASE \E o \in Order : CreatePayment(c, o)
    BY <1>4, StutterKeeps DEF CreatePayment
  <1>5. CASE RecordOrder(c)
    <2>1. /\ creator[c] # Idle /\ creator[c].pc = "opened"
          /\ CreateOrder(creator[c].order, creator[c].token, creator[c].ws)
      BY <1>5 DEF RecordOrder, Idle
    <2> QED BY <2>1, CreatorHas, CreateOrderKeeps
  <1>6. CASE AbandonTopup(c)
    BY <1>6, StutterKeeps DEF AbandonTopup
  <1> QED BY <1>1, <1>2, <1>3, <1>4, <1>5, <1>6

\* applyNotification: the credit goes to the token or the pool it has read.
LEMMA ApplyKeepsBooks == ASSUME TopUpInv, Apply PROVE MoneyInv'
  <1> USE DEF TopUpInv
  <1>1. PICK a \in Applier :
          \/ \E o \in Order, via \in {"notify", "reconcile"} : ReadOrder(a, o, via)
          \/ Proceed(a)
          \/ FailTransient(a)
    BY DEF Apply
  <1>2. CASE \E o \in Order, via \in {"notify", "reconcile"} : ReadOrder(a, o, via)
    BY <1>2, StutterKeeps DEF ReadOrder
  <1>3. CASE RejectOverdue(a)
    <2>1. applier[a] # Idle
      BY <1>3 DEF RejectOverdue, Idle
    <2>2. CASE MarkOrderExpired(applier[a].order)
      BY <2>1, <2>2, ApplierHas, CloseOrdersKeeps DEF MarkOrderExpired
    <2> QED BY <1>3, <2>2, StutterKeeps DEF RejectOverdue
  <1>4. CASE EnsureCreditWallet(a)
    <2>1. applier[a] # Idle /\ EnsureWallet(applier[a].token)
      BY <1>4 DEF EnsureCreditWallet, Idle
    <2> QED BY <2>1, ApplierHas, EnsureWalletKeeps
  <1>5. CASE ApplyCredit(a)
    <2>1. applier[a] # Idle
      BY <1>5 DEF ApplyCredit, Idle
    <2>2. CASE CreditPaidOrder(applier[a].order, applier[a].token)
      BY <2>1, <2>2, ApplierHas, CreditPaidOrderKeeps
    <2>3. CASE CreditPaidOrderToWorkspace(applier[a].order, applier[a].ws)
      <3>1. applier[a].ws \in Workspace
        BY <2>3 DEF CreditPaidOrderToWorkspace, MoneyInv, RowsTypeOK
      <3> QED BY <2>1, <2>3, <3>1, ApplierHas, CreditPaidOrderToWorkspaceKeeps
    <2> QED BY <1>5, <2>2, <2>3 DEF ApplyCredit
  <1>6. CASE FindNotPending(a) \/ FailTransient(a)
    BY <1>6, StutterKeeps DEF FindNotPending, FailTransient
  <1> QED BY <1>1, <1>2, <1>3, <1>4, <1>5, <1>6 DEF Proceed

\* The user, the sweeper, a rotation, an admin.
LEMMA AroundKeepsBooks == ASSUME TopUpInv, Around PROVE MoneyInv'
  <1> USE DEF TopUpInv
  <1>1. ASSUME NEW o \in Order, UserPays(o) \/ OrderAges(o) PROVE MoneyInv'
    BY <1>1, StutterKeeps DEF UserPays, OrderAges
  <1>2. ASSUME NEW o \in Order, OrderCancel(o) PROVE MoneyInv'
    BY <1>2, CloseOrdersKeeps DEF OrderCancel, DeletePendingOrder
  <1>3. CASE RunExpirySweeper
    <2>1. ordStatus' = [o \in Order |-> IF o \in stale \cap Order /\ ordStatus[o] = "pending"
                                        THEN "deleted" ELSE ordStatus[o]]
      BY <1>3 DEF RunExpirySweeper, ExpirePendingOrdersBefore, CloseOrders
    <2>2. CloseOrders(stale \cap Order, "deleted")
      BY <1>3, <2>1 DEF RunExpirySweeper, ExpirePendingOrdersBefore, CloseOrders
    <2> QED BY <2>2, CloseOrdersKeeps
  <1>4. ASSUME NEW old \in Token, NEW new \in Token, RotateToken(old, new) PROVE MoneyInv'
    BY <1>4, RekeyTokenKeeps DEF RotateToken
  <1>5. CASE SetUpTeam
    BY <1>5, CreateWorkspaceKeeps, AddMemberKeeps DEF SetUpTeam, DeskInv
  <1> QED BY <1>1, <1>2, <1>3, <1>4, <1>5 DEF Around

-----------------------------------------------------------------------------
(***************************************************************************)
(* What may become of an order and of its age in one step.                 *)
(***************************************************************************)
Advances(o) ==
  \/ ordStatus'[o] = ordStatus[o]
  \/ ordStatus[o] = "absent" /\ ordStatus'[o] = "pending"
  \/ ordStatus[o] = "pending" /\ ordStatus'[o] = "paid"
  \/ ordStatus[o] = "pending" /\ ordStatus'[o] = "deleted" /\ o \in stale' \cup cancelled'
  \/ ordStatus[o] = "pending" /\ ordStatus'[o] = "expired" /\ o \in stale'

\* Orders only advance; one closed unpaid is old or cancelled; and neither a
\* workspace nor the age of an order goes away.
Onward ==
  /\ \A o \in Order : Advances(o)
  /\ stale \subseteq stale' /\ cancelled \subseteq cancelled' /\ workspaces \subseteq workspaces'

\* A step that leaves the orders alone.
LEMMA QuietOnward ==
  ASSUME UNCHANGED ordStatus, stale \subseteq stale', UNCHANGED <<cancelled, workspaces>>
  PROVE  Onward
  BY DEF Onward, Advances

\* CreateTopup writes an order that was not there.
LEMMA CreateOnward == ASSUME TopUpInv, Create PROVE Onward
  <1>1. PICK c \in Creator :
          \/ \E t \in Token, w \in Workspace \cup {NoWorkspace} : AdmitTopup(c, t, w)
          \/ EnsureInitiatorWallet(c)
          \/ \E o \in Order : CreatePayment(c, o)
          \/ RecordOrder(c)
          \/ AbandonTopup(c)
    BY DEF Create
  <1>2. CASE RecordOrder(c)
    <2>1. /\ creator[c] # Idle /\ creator[c].pc = "opened" /\ UNCHANGED gatewayVars
          /\ CreateOrder(creator[c].order, creator[c].token, creator[c].ws)
      BY <1>2 DEF RecordOrder, Idle
    <2>2. ordStatus \in [Order -> OrderStates] /\ creator[c].order \in Order
      BY <2>1, CreatorHas DEF TopUpInv, MoneyInv, RowsTypeOK
    <2> QED BY <2>1, <2>2 DEF CreateOrder, Onward, Advances, gatewayVars, poolVars
  <1>3. CASE ~RecordOrder(c)
    <2>1. UNCHANGED <<ordStatus, workspaces, stale, cancelled>>
      BY <1>1, <1>3 DEF AdmitTopup, EnsureInitiatorWallet, CreatePayment, AbandonTopup,
         EnsureWallet, storeVars, orderVars, poolVars, gatewayVars
    <2> QED BY <2>1, QuietOnward
  <1> QED BY <1>2, <1>3

\* applyNotification pays a pending order, or expires one it has found overdue.
LEMMA ApplyOnward == ASSUME TopUpInv, Apply PROVE Onward
  <1>1. PICK a \in Applier :
          \/ \E o \in Order, via \in {"notify", "reconcile"} : ReadOrder(a, o, via)
          \/ Proceed(a)
          \/ FailTransient(a)
    BY DEF Apply
  <1>2. ordStatus \in [Order -> OrderStates]
    BY DEF TopUpInv, MoneyInv, RowsTypeOK
  <1>3. CASE RejectOverdue(a)
    <2>1. applier[a].order \in stale /\ UNCHANGED gatewayVars
      BY <1>3 DEF RejectOverdue, TopUpInv, OrdersInv
    <2>2. CASE UNCHANGED storeVars
      BY <2>1, <2>2, QuietOnward DEF storeVars, gatewayVars
    <2>3. CASE MarkOrderExpired(applier[a].order)
      BY <1>2, <2>1, <2>3 DEF MarkOrderExpired, CloseOrders, Onward, Advances, gatewayVars, poolVars
    <2> QED BY <1>3, <2>2, <2>3 DEF RejectOverdue
  <1>4. CASE ApplyCredit(a)
    <2>1. applier[a] # Idle /\ UNCHANGED gatewayVars
      BY <1>4 DEF ApplyCredit, Idle
    <2>2. applier[a].order \in Order
      BY <2>1, ApplierHas
    <2>3. UNCHANGED workspaces /\ ordStatus[applier[a].order] = "pending"
          /\ ordStatus' = [ordStatus EXCEPT ![applier[a].order] = "paid"]
      BY <1>4 DEF ApplyCredit, CreditPaidOrder, CreditPaidOrderToWorkspace, MarkOrderPaid, poolVars
    <2> QED BY <1>2, <2>1, <2>2, <2>3 DEF Onward, Advances, gatewayVars
  <1>5. CASE ~RejectOverdue(a) /\ ~ApplyCredit(a)
    <2>1. UNCHANGED <<ordStatus, workspaces, stale, cancelled>>
      BY <1>1, <1>5 DEF Proceed, ReadOrder, EnsureCreditWallet, FindNotPending, FailTransient,
         EnsureWallet, storeVars, orderVars, poolVars, gatewayVars
    <2> QED BY <2>1, QuietOnward
  <1> QED BY <1>3, <1>4, <1>5

\* Users cancel, the sweeper deletes what is old.
LEMMA AroundOnward == ASSUME TopUpInv, Around PROVE Onward
  <1>1. ordStatus \in [Order -> OrderStates]
    BY DEF TopUpInv, MoneyInv, RowsTypeOK
  <1>2. ASSUME NEW o \in Order, UserPays(o) \/ OrderAges(o) PROVE Onward
    BY <1>2, QuietOnward DEF UserPays, OrderAges, storeVars
  <1>3. ASSUME NEW o \in Order, OrderCancel(o) PROVE Onward
    BY <1>1, <1>3 DEF OrderCancel, DeletePendingOrder, CloseOrders, Onward, Advances, poolVars
  <1>4. CASE RunExpirySweeper
    BY <1>1, <1>4 DEF RunExpirySweeper, ExpirePendingOrdersBefore, CloseOrders, Onward, Advances,
       gatewayVars, poolVars
  <1>5. ASSUME NEW old \in Token, NEW new \in Token, RotateToken(old, new) PROVE Onward
    BY <1>5, QuietOnward DEF RotateToken, RekeyToken, RekeyMembers, RekeyOrders, gatewayVars, poolVars
  <1>6. CASE SetUpTeam
    BY <1>6 DEF SetUpTeam, CreateWorkspace, AddMember, Onward, Advances, gatewayVars, poolVars, orderVars
  <1> QED BY <1>2, <1>3, <1>4, <1>5, <1>6 DEF Around

\* Any step.
LEMMA BooksAndOrders == ASSUME TopUpInv, TopUpNext PROVE MoneyInv' /\ Onward
  BY CreateKeepsBooks, ApplyKeepsBooks, AroundKeepsBooks, CreateOnward, ApplyOnward, AroundOnward
     DEF TopUpNext

-----------------------------------------------------------------------------
(***************************************************************************)
(* The desk.                                                               *)
(***************************************************************************)
\* One request of CreateTopup moves on, and names a workspace that is there.
LEMMA CreatorKeeps ==
  ASSUME TopUpInv, Onward, NEW c \in Creator, NEW next \in {Idle} \cup Creating,
         creator' = [creator EXCEPT ![c] = next],
         next # Idle => next.ws \in workspaces \cup {NoWorkspace},
         trade' \in [Order -> {"none", "open", "settled", "late"}],
         live' \subseteq Token, applier' \in [Applier -> {Idle} \cup Applying]
  PROVE  DeskInv'
  BY DEF TopUpInv, DeskInv, Onward

\* CreateTopup does not change its token and workspace on the way.
LEMMA CreateKeepsDesk == ASSUME TopUpInv, Create, Onward PROVE DeskInv'
  <1>1. PICK c \in Creator :
          \/ \E t \in Token, w \in Workspace \cup {NoWorkspace} : AdmitTopup(c, t, w)
          \/ EnsureInitiatorWallet(c)
          \/ \E o \in Order : CreatePayment(c, o)
          \/ RecordOrder(c)
          \/ AbandonTopup(c)
    BY DEF Create
  <1>2. DeskInv /\ RowsTypeOK
    BY DEF TopUpInv, MoneyInv
  <1>3. ASSUME NEW t \in Token, NEW w \in Workspace \cup {NoWorkspace}, AdmitTopup(c, t, w)
        PROVE  DeskInv'
    <2> DEFINE next == [pc |-> "admitted", token |-> t, ws |-> w]
    <2>1. next \in Creating /\ next.ws \in workspaces \cup {NoWorkspace}
      BY <1>2, <1>3 DEF AdmitTopup, Creating, RowsTypeOK
    <2>2. creator' = [creator EXCEPT ![c] = next] /\ UNCHANGED <<trade, live, applier>>
      BY <1>3 DEF AdmitTopup, gatewayVars, tokenVars
    <2> HIDE DEF next
    <2> QED BY <1>2, <2>1, <2>2, CreatorKeeps DEF DeskInv
  <1>4. CASE EnsureInitiatorWallet(c)
    <2> DEFINE next == [creator[c] EXCEPT !.pc = "walleted"]
    <2>1. creator[c] # Idle /\ creator[c].pc = "admitted"
      BY <1>4 DEF EnsureInitiatorWallet, Idle
    <2>2. next \in Creating /\ next.ws \in workspaces \cup {NoWorkspace}
      BY <2>1, CreatorHas DEF Creating
    <2>3. creator' = [creator EXCEPT ![c] = next] /\ UNCHANGED <<trade, live, applier>>
      BY <1>4 DEF EnsureInitiatorWallet, gatewayVars, tokenVars
    <2> HIDE DEF next
    <2> QED BY <1>2, <2>2, <2>3, CreatorKeeps DEF DeskInv
  <1>5. ASSUME NEW o \in Order, CreatePayment(c, o) PROVE DeskInv'
    <2> DEFINE next == [pc |-> "opened", token |-> creator[c].token, ws |-> creator[c].ws,
                        order |-> o]
    <2>1. creator[c] # Idle
      BY <1>5 DEF CreatePayment, Idle
    <2>2. creator[c].token \in Token /\ creator[c].ws \in workspaces \cup {NoWorkspace}
      BY <2>1, CreatorHas
    <2>3. next \in Creating /\ next.ws \in workspaces \cup {NoWorkspace}
      BY <1>2, <2>2 DEF Creating, RowsTypeOK
    <2>4. creator' = [creator EXCEPT ![c] = next] /\ UNCHANGED <<live, applier>>
          /\ trade' = [trade EXCEPT ![o] = "open"]
      BY <1>5 DEF CreatePayment, tokenVars
    <2> HIDE DEF next
    <2> QED BY <1>2, <2>3, <2>4, CreatorKeeps DEF DeskInv
  <1>6. CASE RecordOrder(c) \/ AbandonTopup(c)
    <2>1. creator' = [creator EXCEPT ![c] = Idle] /\ UNCHANGED <<trade, live, applier>>
      BY <1>6 DEF RecordOrder, AbandonTopup, gatewayVars, tokenVars
    <2> QED BY <1>2, <2>1, CreatorKeeps DEF DeskInv
  <1> QED BY <1>1, <1>3, <1>4, <1>5, <1>6

\* A request of applyNotification moves on, and the rest stands still.
LEMMA ApplierKeeps ==
  ASSUME TopUpInv, Onward, NEW a \in Applier, NEW next \in {Idle} \cup Applying,
         applier' = [applier EXCEPT ![a] = next], UNCHANGED <<trade, live, creator>>
  PROVE  DeskInv'
  BY DEF TopUpInv, DeskInv, Onward

\* applyNotification keeps the row it has read.
LEMMA ApplyKeepsDesk == ASSUME TopUpInv, Apply, Onward PROVE DeskInv'
  <1>1. PICK a \in Applier :
          \/ \E o \in Order, via \in {"notify", "reconcile"} : ReadOrder(a, o, via)
          \/ Proceed(a)
          \/ FailTransient(a)
    BY DEF Apply
  <1>2. UNCHANGED <<trade, live, creator>>
    BY <1>1 DEF ReadOrder, Proceed, FailTransient, RejectOverdue, EnsureCreditWallet, ApplyCredit,
       FindNotPending, gatewayVars, tokenVars
  <1>3. ASSUME NEW o \in Order, NEW via \in {"notify", "reconcile"}, ReadOrder(a, o, via)
        PROVE  DeskInv'
    <2> DEFINE next == [pc |-> IF o \in stale THEN "overdue" ELSE "read", via |-> via,
                        order |-> o, token |-> ordToken[o], ws |-> ordWs[o]]
    <2>1. CASE UNCHANGED applier
      BY <1>2, <2>1 DEF TopUpInv, DeskInv, Onward
    <2>2. CASE applier' = [applier EXCEPT ![a] = next]
      <3>1. ordToken[o] \in Token /\ ordWs[o] \in Workspace \cup {NoWorkspace}
        BY DEF TopUpInv, MoneyInv, RowsTypeOK
      <3>2. next \in Applying
        BY <3>1 DEF Applying
      <3> HIDE DEF next
      <3> QED BY <1>2, <2>2, <3>2, ApplierKeeps
    <2> QED BY <1>3, <2>1, <2>2 DEF ReadOrder, ReadClosed, ReadPending
  <1>4. CASE EnsureCreditWallet(a)
    <2> DEFINE next == [applier[a] EXCEPT !.pc = "walleted"]
    <2>1. applier[a] # Idle /\ applier' = [applier EXCEPT ![a] = next]
      BY <1>4 DEF EnsureCreditWallet, Idle
    <2>2. next \in Applying
      BY <2>1, ApplierHas DEF Applying
    <2> HIDE DEF next
    <2> QED BY <1>2, <2>1, <2>2, ApplierKeeps
  <1>5. CASE RejectOverdue(a) \/ ApplyCredit(a) \/ FindNotPending(a) \/ FailTransient(a)
    BY <1>2, <1>5, ApplierKeeps DEF RejectOverdue, ApplyCredit, FindNotPending, FailTransient
  <1> QED BY <1>1, <1>3, <1>4, <1>5 DEF Proceed

\* Outside the requests.
LEMMA AroundKeepsDesk == ASSUME TopUpInv, Around, Onward PROVE DeskInv'
  <1>1. UNCHANGED <<creator, applier>>
    BY DEF Around, UserPays, OrderAges, OrderCancel, RunExpirySweeper, RotateToken, SetUpTeam
  <1>2. trade' \in [Order -> {"none", "open", "settled", "late"}]
    BY DEF Around, UserPays, OrderAges, OrderCancel, RunExpirySweeper, RotateToken, SetUpTeam,
       gatewayVars, TopUpInv, DeskInv
  <1>3. live' \subseteq Token
    <2>1. UNCHANGED live \/ \E old, new \in Token : live' = (live \ {old}) \cup {new}
      BY DEF Around, UserPays, OrderAges, OrderCancel, RunExpirySweeper, RotateToken, SetUpTeam,
         tokenVars
    <2> QED BY <2>1 DEF TopUpInv, DeskInv
  <1> QED BY <1>1, <1>2, <1>3 DEF TopUpInv, DeskInv, Onward

-----------------------------------------------------------------------------
(***************************************************************************)
(* The orders.                                                             *)
(***************************************************************************)
\* An order that was there is there, and one that was not pending is not,
\* unless it is old.
LEMMA OnwardKeeps ==
  ASSUME TopUpInv, MoneyInv', Onward, NEW o \in Order, ordStatus[o] # "absent"
  PROVE  /\ ordStatus'[o] # "absent"
         /\ ordStatus[o] # "pending" => ordStatus'[o] # "pending"
  BY DEF Onward, Advances, TopUpInv, MoneyInv, RowsTypeOK, OrderStates

\* What is closed unpaid was closed for a cause.
LEMMA CauseKept == ASSUME TopUpInv, Onward PROVE ClosedForCause'
  BY DEF Onward, Advances, TopUpInv, OrdersInv, ClosedForCause

\* The gateway's record turns to paid only once the row is there.
TradeKept ==
  \A o \in Order : trade'[o] \in {"settled", "late"} =>
    trade[o] \in {"settled", "late"} \/ ordStatus[o] # "absent"

\* What a request has in hand it had before, or has just read.
HandKept ==
  \A a \in Applier :
    \/ applier'[a] = Idle
    \/ /\ applier[a] # Idle /\ applier'[a].order = applier[a].order
       /\ applier'[a].pc = "overdue" => applier[a].pc = "overdue"
    \/ /\ applier'[a].order \in Order /\ ordStatus[applier'[a].order] = "pending"
       /\ applier'[a].pc = "overdue" => applier'[a].order \in stale

\* What is acknowledged was before, or is there, and is not pending or is old.
AnswersKept ==
  \A o \in acked' : o \in acked \/
    (o \in Order /\ ordStatus'[o] # "absent" /\ (ordStatus'[o] = "pending" => o \in stale))

\* The three together keep the invariant.
LEMMA OrdersKept ==
  ASSUME TopUpInv, MoneyInv', Onward, TradeKept, HandKept, AnswersKept
  PROVE  OrdersInv'
  <1> USE DEF TopUpInv
  <1>1. ASSUME NEW o \in Order, trade'[o] \in {"settled", "late"} PROVE ordStatus'[o] # "absent"
    BY <1>1, OnwardKeeps DEF TradeKept, OrdersInv
  <1>2. ASSUME NEW a \in Applier, applier'[a] # Idle
        PROVE  ordStatus'[applier'[a].order] # "absent"
    <2>1. CASE /\ applier[a] # Idle /\ applier'[a].order = applier[a].order
      BY <2>1, ApplierHas, OnwardKeeps DEF OrdersInv
    <2>2. CASE applier'[a].order \in Order /\ ordStatus[applier'[a].order] = "pending"
      BY <2>2, OnwardKeeps
    <2> QED BY <1>2, <2>1, <2>2 DEF HandKept
  <1>3. ASSUME NEW a \in Applier, applier'[a].pc = "overdue" PROVE applier'[a].order \in stale'
    BY <1>3 DEF HandKept, OrdersInv, Onward, Idle
  <1>4. ASSUME NEW o \in acked'
        PROVE  o \in Order /\ ordStatus'[o] # "absent" /\ (ordStatus'[o] = "pending" => o \in stale')
    <2>1. CASE o \in acked
      <3>1. o \in Order /\ ordStatus[o] # "absent" /\ (ordStatus[o] = "pending" => o \in stale)
        BY <2>1 DEF OrdersInv, AckedIsClosed
      <3> QED BY <3>1, OnwardKeeps DEF Onward
    <2> QED BY <1>4, <2>1 DEF AnswersKept, Onward
  <1>5. AckedIsClosed'
    BY <1>4 DEF AckedIsClosed
  <1> QED BY <1>1, <1>2, <1>3, <1>4, <1>5, CauseKept DEF OrdersInv

\* CreateTopup answers nobody.
LEMMA CreateKeepsOrders == ASSUME TopUpInv, MoneyInv', Onward, Create PROVE OrdersInv'
  <1>1. UNCHANGED <<applier, acked>>
    BY DEF Create, AdmitTopup, EnsureInitiatorWallet, CreatePayment, RecordOrder, AbandonTopup, answerVars
  <1>2. TradeKept
    BY DEF Create, AdmitTopup, EnsureInitiatorWallet, CreatePayment, RecordOrder, AbandonTopup,
       gatewayVars, TopUpInv, DeskInv, TradeKept
  <1>3. HandKept
    BY <1>1 DEF HandKept
  <1> QED BY <1>1, <1>2, <1>3, OrdersKept DEF AnswersKept

\* Users pay for orders that they have seen.
LEMMA AroundKeepsOrders == ASSUME TopUpInv, MoneyInv', Onward, Around PROVE OrdersInv'
  <1>1. UNCHANGED <<applier, acked>>
    BY DEF Around, UserPays, OrderAges, OrderCancel, RunExpirySweeper, RotateToken, SetUpTeam, answerVars
  <1>2. TradeKept
    BY DEF Around, UserPays, OrderAges, OrderCancel, RunExpirySweeper, RotateToken, SetUpTeam,
       gatewayVars, TopUpInv, DeskInv, TradeKept
  <1>3. HandKept
    BY <1>1 DEF HandKept
  <1> QED BY <1>1, <1>2, <1>3, OrdersKept DEF AnswersKept

\* A request answers for the order it has in hand, once that is closed or old.
LEMMA AnswerKept ==
  ASSUME TopUpInv, NEW o \in Order, NEW via, Answer(o, via) \/ AnswerCredited(o, via),
         ordStatus'[o] # "absent", ordStatus'[o] = "pending" => o \in stale
  PROVE  AnswersKept
  BY DEF Answer, AnswerCredited, answerVars, AnswersKept

\* A request ends, or goes on with what it has.
LEMMA HandOn ==
  ASSUME TopUpInv, NEW a \in Applier, NEW next, applier' = [applier EXCEPT ![a] = next],
         \/ next = Idle
         \/ applier[a] # Idle /\ next.order = applier[a].order /\ next.pc # "overdue"
         \/ /\ next.order \in Order /\ ordStatus[next.order] = "pending"
            /\ next.pc = "overdue" => next.order \in stale
  PROVE  HandKept
  BY DEF TopUpInv, DeskInv, HandKept

\* applyNotification acknowledges what is closed, and what it found overdue.
LEMMA ApplyKeepsOrders == ASSUME TopUpInv, MoneyInv', Onward, Apply PROVE OrdersInv'
  <1>1. PICK a \in Applier :
          \/ \E o \in Order, via \in {"notify", "reconcile"} : ReadOrder(a, o, via)
          \/ Proceed(a)
          \/ FailTransient(a)
    BY DEF Apply
  <1>2. TradeKept
    BY <1>1 DEF ReadOrder, Proceed, FailTransient, RejectOverdue, EnsureCreditWallet, ApplyCredit,
       FindNotPending, gatewayVars, TradeKept
  <1>3. ASSUME NEW o \in Order, NEW via \in {"notify", "reconcile"}, ReadOrder(a, o, via)
        PROVE  HandKept /\ AnswersKept
    <2>1. UNCHANGED ordStatus
      BY <1>3 DEF ReadOrder, storeVars
    <2>2. CASE ReadClosed(a, o, via)
      <3>1. trade[o] \in {"settled", "late"}
        BY <1>3 DEF ReadOrder, VerifyNotify, QueryTrade
      <3>2. ordStatus[o] # "absent" /\ ordStatus[o] # "pending"
        BY <2>2, <3>1 DEF ReadClosed, TopUpInv, OrdersInv
      <3>3. AnswersKept
        BY <2>1, <2>2, <3>2, AnswerKept DEF ReadClosed
      <3> QED BY <2>2, <3>3 DEF ReadClosed, HandKept
    <2>3. CASE ReadPending(a, o, via)
      <3> DEFINE next == [pc |-> IF o \in stale THEN "overdue" ELSE "read", via |-> via,
                          order |-> o, token |-> ordToken[o], ws |-> ordWs[o]]
      <3>1. applier' = [applier EXCEPT ![a] = next] /\ UNCHANGED acked /\ ordStatus[o] = "pending"
        BY <2>3 DEF ReadPending, answerVars
      <3>2. next.order = o /\ (next.pc = "overdue" => o \in stale)
        OBVIOUS
      <3> HIDE DEF next
      <3> QED BY <3>1, <3>2, HandOn DEF AnswersKept
    <2> QED BY <1>3, <2>2, <2>3 DEF ReadOrder
  <1>4. CASE RejectOverdue(a)
    <2>1. /\ applier[a] # Idle /\ applier[a].pc = "overdue"
          /\ applier' = [applier EXCEPT ![a] = Idle] /\ Answer(applier[a].order, applier[a].via)
      BY <1>4 DEF RejectOverdue, Idle
    <2>2. /\ applier[a].order \in Order /\ applier[a].order \in stale
          /\ ordStatus'[applier[a].order] # "absent"
      BY <2>1, ApplierHas, OnwardKeeps DEF TopUpInv, OrdersInv
    <2> QED BY <1>2, <2>1, <2>2, HandOn, AnswerKept, OrdersKept
  <1>5. CASE EnsureCreditWallet(a)
    <2> DEFINE next == [applier[a] EXCEPT !.pc = "walleted"]
    <2>1. applier[a] # Idle /\ applier' = [applier EXCEPT ![a] = next] /\ UNCHANGED acked
      BY <1>5 DEF EnsureCreditWallet, Idle, answerVars
    <2>2. next.order = applier[a].order /\ next.pc # "overdue"
      BY <2>1, ApplierHas DEF Applying
    <2> HIDE DEF next
    <2> QED BY <1>2, <2>1, <2>2, HandOn, OrdersKept DEF AnswersKept
  <1>6. CASE ApplyCredit(a) \/ FindNotPending(a)
    <2>1. /\ applier[a] # Idle /\ applier' = [applier EXCEPT ![a] = Idle]
          /\ AnswerCredited(applier[a].order, applier[a].via)
      BY <1>6 DEF ApplyCredit, FindNotPending, Idle
    <2>2. applier[a].order \in Order /\ ordStatus[applier[a].order] # "absent"
      BY <2>1, ApplierHas DEF TopUpInv, OrdersInv
    <2>3. ordStatus'[applier[a].order] # "absent" /\ ordStatus'[applier[a].order] # "pending"
      <3>1. CASE ApplyCredit(a)
        <4>1. ordStatus' = [ordStatus EXCEPT ![applier[a].order] = "paid"]
          BY <3>1 DEF ApplyCredit, CreditPaidOrder, CreditPaidOrderToWorkspace, MarkOrderPaid
        <4> QED BY <2>2, <4>1 DEF TopUpInv, MoneyInv, RowsTypeOK
      <3>2. CASE FindNotPending(a)
        BY <2>2, <3>2, OnwardKeeps DEF FindNotPending
      <3> QED BY <1>6, <3>1, <3>2
    <2> QED BY <1>2, <2>1, <2>2, <2>3, HandOn, AnswerKept, OrdersKept
  <1>7. CASE FailTransient(a)
    <2>1. applier' = [applier EXCEPT ![a] = Idle] /\ UNCHANGED acked
      BY <1>7 DEF FailTransient, answerVars
    <2> QED BY <1>2, <2>1, HandOn, OrdersKept DEF AnswersKept
  <1> QED BY <1>1, <1>2, <1>3, <1>4, <1>5, <1>6, <1>7, OrdersKept DEF Proceed

-----------------------------------------------------------------------------
\* The inductive invariant of the handlers: the books, what the requests have
\* in hand, and what has been acknowledged and closed.
THEOREM TopUpInvariant == TopUpSpec => []TopUpInv
  <1>1. TopUpInv /\ TopUpNext => TopUpInv'
    BY BooksAndOrders, CreateKeepsDesk, ApplyKeepsDesk, AroundKeepsDesk,
       CreateKeepsOrders, ApplyKeepsOrders, AroundKeepsOrders DEF TopUpNext, TopUpInv
  <1>2. TopUpInv /\ UNCHANGED topUpVars => TopUpInv'
    <2> SUFFICES ASSUME TopUpInv, UNCHANGED topUpVars PROVE TopUpInv'
      OBVIOUS
    <2>1. UNCHANGED <<storeVars, gatewayVars, tokenVars, answerVars, creator, applier>>
      BY DEF topUpVars
    <2>2. MoneyInv'
      BY <2>1, StutterKeeps DEF TopUpInv
    <2>3. UNCHANGED <<workspaces, ordStatus>>
      BY <2>1 DEF storeVars
    <2> QED BY <2>1, <2>2, <2>3 DEF TopUpInv, DeskInv, OrdersInv, AckedIsClosed, ClosedForCause,
            gatewayVars, tokenVars, answerVars
  <1> QED BY <1>1, <1>2, TopUpInitInv, PTL DEF TopUpSpec

\* However deliveries, sweeps, rotations and reconciliations interleave and
\* die, the gateway is told to stop only when there is nothing left to do
\* (notify: terminal errors are acknowledged, transient ones are not).
THEOREM AcknowledgedIsClosed == TopUpSpec => []AckedIsClosed
  BY TopUpInvariant, PTL DEF TopUpInv, OrdersInv

\* An order ends unpaid only if its user cancelled it or it grew old.
THEOREM UnpaidForCause == TopUpSpec => []ClosedForCause
  BY TopUpInvariant, PTL DEF TopUpInv, OrdersInv

\* The handlers keep every balance equal to its ledger, though what they credit
\* is the token they have read and a rotation may come in between.
THEOREM HandlersBalance == TopUpSpec => []LedgerBalanced
  BY TopUpInvariant, PTL DEF TopUpInv, MoneyInv

\* Concurrent deliveries and reconciliations of one payment credit it once.
THEOREM HandlersCreditOnce == TopUpSpec => []CreditedExactlyOnce
  BY TopUpInvariant, PTL DEF TopUpInv, MoneyInv

-----------------------------------------------------------------------------
(***************************************************************************)
(* The handlers implement Settlement: the phase of an order is read off    *)
(* its row, the money is what all wallets and pools hold together.         *)
(***************************************************************************)
\* Phase, for the states a row can be in.
LEMMA PhaseIs ==
  ASSUME ordStatus \in [Order -> OrderStates], NEW o \in Order
  PROVE  /\ ordStatus[o] = "absent" <=> Phase[o] = "none"
         /\ ordStatus[o] = "pending" <=> Phase[o] = "open"
         /\ ordStatus[o] = "paid" <=> Phase[o] = "paid"
         /\ ordStatus[o] \in {"expired", "deleted"} <=> Phase[o] = "closed"
  BY DEF Phase, OrderStates

\* One order enters another phase, or several are closed.
LEMMA PhaseMoves ==
  ASSUME MoneyInv, MoneyInv'
  PROVE  /\ ordStatus' = ordStatus => Phase' = Phase
         /\ \A o \in Order :
              /\ ordStatus' = [ordStatus EXCEPT ![o] = "pending"] =>
                   Phase' = [Phase EXCEPT ![o] = "open"]
              /\ ordStatus' = [ordStatus EXCEPT ![o] = "paid"] =>
                   Phase' = [Phase EXCEPT ![o] = "paid"]
         /\ \A S, st :
              st \in {"expired", "deleted"} /\ CloseOrders(S, st) =>
                Phase' = [o \in Order |-> IF o \in S /\ Phase[o] = "open" THEN "closed" ELSE Phase[o]]
  <1>1. ordStatus \in [Order -> OrderStates] /\ ordStatus' \in [Order -> OrderStates]
    BY DEF MoneyInv, RowsTypeOK
  <1>2. ordStatus' = ordStatus => Phase' = Phase
    BY DEF Phase
  <1>3. ASSUME NEW o \in Order, ordStatus' = [ordStatus EXCEPT ![o] = "pending"]
        PROVE  Phase' = [Phase EXCEPT ![o] = "open"]
    BY <1>1, <1>3 DEF Phase
  <1>4. ASSUME NEW o \in Order, ordStatus' = [ordStatus EXCEPT ![o] = "paid"]
        PROVE  Phase' = [Phase EXCEPT ![o] = "paid"]
    BY <1>1, <1>4 DEF Phase
  <1>5. ASSUME NEW S, NEW st \in {"expired", "deleted"}, CloseOrders(S, st)
        PROVE  Phase' = [o \in Order |-> IF o \in S /\ Phase[o] = "open" THEN "closed" ELSE Phase[o]]
    <2>1. ordStatus' = [o \in Order |-> IF o \in S /\ ordStatus[o] = "pending" THEN st ELSE ordStatus[o]]
      BY <1>5 DEF CloseOrders
    <2>2. ASSUME NEW o \in Order
          PROVE  Phase'[o] = IF o \in S /\ Phase[o] = "open" THEN "closed" ELSE Phase[o]
      BY <1>1, <2>1, PhaseIs DEF Phase
    <2>3. Phase' = [o \in Order |-> Phase'[o]]
      BY DEF Phase
    <2> QED BY <2>2, <2>3
  <1> QED BY <1>2, <1>3, <1>4, <1>5

\* What wallets and pools hold is a number, and a credit adds to it.
LEMMA MoneyMoves ==
  ASSUME MoneyInv, MoneyInv'
  PROVE  /\ UNCHANGED <<balance, pool>> => Money' = Money
         /\ \A t \in Token, d \in Int :
              balance' = [balance EXCEPT ![t] = @ + d] /\ UNCHANGED pool => Money' = Money + d
         /\ \A w \in Workspace, d \in Int :
              pool' = [pool EXCEPT ![w] = @ + d] /\ UNCHANGED balance => Money' = Money + d
         /\ \A old, new \in Token :
              old # new /\ balance' = MoveSum(balance, old, new) /\ UNCHANGED pool => Money' = Money
  <1>1. /\ balance \in [Token -> Int] /\ pool \in [Workspace -> Int]
        /\ balance' \in [Token -> Int] /\ pool' \in [Workspace -> Int]
    BY DEF MoneyInv, RowsTypeOK
  <1>2. /\ SumFunctionOnSet(balance, Token) \in Int /\ SumFunctionOnSet(pool, Workspace) \in Int
    BY <1>1, FiniteStore, SumRemove
  <1>3. UNCHANGED <<balance, pool>> => Money' = Money
    BY DEF Money
  <1>4. ASSUME NEW t \in Token, NEW d \in Int,
               balance' = [balance EXCEPT ![t] = @ + d], UNCHANGED pool
        PROVE  Money' = Money + d
    <2>1. balance'[t] = balance[t] + d /\ \A u \in Token \ {t} : balance'[u] = balance[u]
      BY <1>1, <1>4
    <2>2. SumFunctionOnSet(balance', Token) = SumFunctionOnSet(balance, Token) - balance[t] + balance'[t]
      BY <1>1, <2>1, FiniteStore, SumChange
    <2> QED BY <1>1, <1>2, <1>4, <2>1, <2>2 DEF Money
  <1>5. ASSUME NEW w \in Workspace, NEW d \in Int,
               pool' = [pool EXCEPT ![w] = @ + d], UNCHANGED balance
        PROVE  Money' = Money + d
    <2>1. pool'[w] = pool[w] + d /\ \A v \in Workspace \ {w} : pool'[v] = pool[v]
      BY <1>1, <1>5
    <2>2. SumFunctionOnSet(pool', Workspace) = SumFunctionOnSet(pool, Workspace) - pool[w] + pool'[w]
      BY <1>1, <2>1, FiniteStore, SumChange
    <2> QED BY <1>1, <1>2, <1>5, <2>1, <2>2 DEF Money
  <1>6. ASSUME NEW old \in Token, NEW new \in Token, old # new,
               balance' = MoveSum(balance, old, new), UNCHANGED pool
        PROVE  Money' = Money
    <2>1. /\ balance'[old] = 0 /\ balance'[new] = balance[new] + balance[old]
          /\ \A u \in Token \ {old, new} : balance'[u] = balance[u]
      BY <1>1, <1>6 DEF MoveSum
    <2>2. balance[old] + balance[new] = balance'[old] + balance'[new]
      BY <1>1, <2>1
    <2>3. SumFunctionOnSet(balance', Token) = SumFunctionOnSet(balance, Token)
      BY <1>1, <1>6, <2>1, <2>2, FiniteStore, SumMove
    <2> QED BY <1>6, <2>3 DEF Money
  <1> QED BY <1>3, <1>4, <1>5, <1>6

\* A step of Settlement, or none.
Promised == Promise!Next \/ (Phase' = Phase /\ Money' = Money)

\* Rows of other kinds are not seen.
LEMMA QuietPromised ==
  ASSUME MoneyInv, MoneyInv', UNCHANGED <<ordStatus, balance, pool>>
  PROVE  Promised
  BY PhaseMoves, MoneyMoves DEF Promised

\* What is closed at once, by the sweeper, a user or a late notification.
LEMMA ClosePromised ==
  ASSUME MoneyInv, MoneyInv', NEW S, NEW st \in {"expired", "deleted"}, CloseOrders(S, st)
  PROVE  Promised
  <1> DEFINE open == {o \in Order : o \in S /\ Phase[o] = "open"}
  <1>1. UNCHANGED <<balance, pool>>
    BY DEF CloseOrders, walletVars, poolVars
  <1>2. Phase' = [o \in Order |-> IF o \in S /\ Phase[o] = "open" THEN "closed" ELSE Phase[o]]
    BY PhaseMoves
  <1>3. Phase' = [o \in Order |-> IF o \in open THEN "closed" ELSE Phase[o]]
    BY <1>2
  <1>4. Promise!Close(open)
    BY <1>1, <1>3, MoneyMoves DEF Promise!Close
  <1> QED BY <1>4 DEF Promised, Promise!Next

\* A credit pays its order and adds what the order is worth, to whatever wallet
\* or pool.
LEMMA PayPromised ==
  ASSUME MoneyInv, MoneyInv', NEW o \in Order,
         \/ \E t \in Token : CreditPaidOrder(o, t)
         \/ \E w \in Workspace : CreditPaidOrderToWorkspace(o, w)
  PROVE  Promised
  <1>1. Usd[o] \in Int
    BY StoreAssumption
  <1>2. ordStatus[o] = "pending" /\ ordStatus' = [ordStatus EXCEPT ![o] = "paid"]
    BY DEF CreditPaidOrder, CreditPaidOrderToWorkspace, MarkOrderPaid
  <1>3. \/ \E t \in Token : balance' = [balance EXCEPT ![t] = @ + Usd[o]] /\ UNCHANGED pool
        \/ \E w \in Workspace : pool' = [pool EXCEPT ![w] = @ + Usd[o]] /\ UNCHANGED balance
    BY DEF CreditPaidOrder, CreditPaidOrderToWorkspace, walletVars, poolVars
  <1>4. Money' = Money + Usd[o]
    BY <1>1, <1>3, MoneyMoves
  <1>5. Phase[o] = "open" /\ Phase' = [Phase EXCEPT ![o] = "paid"]
    BY <1>2, PhaseMoves, PhaseIs DEF MoneyInv, RowsTypeOK
  <1> QED BY <1>4, <1>5 DEF Promised, Promise!Next, Promise!Pay

\* CreateTopup opens an order, once.
LEMMA CreatePromised == ASSUME TopUpInv, MoneyInv', Create PROVE Promised
  <1>1. PICK c \in Creator :
          \/ \E t \in Token, w \in Workspace \cup {NoWorkspace} : AdmitTopup(c, t, w)
          \/ EnsureInitiatorWallet(c)
          \/ \E o \in Order : CreatePayment(c, o)
          \/ RecordOrder(c)
          \/ AbandonTopup(c)
    BY DEF Create
  <1>2. CASE RecordOrder(c)
    <2>1. /\ creator[c] # Idle /\ creator[c].pc = "opened"
          /\ CreateOrder(creator[c].order, creator[c].token, creator[c].ws)
      BY <1>2 DEF RecordOrder, Idle
    <2>2. PICK o \in Order : o = creator[c].order
      BY <2>1, CreatorHas
    <2>3. /\ ordStatus[o] = "absent" /\ ordStatus' = [ordStatus EXCEPT ![o] = "pending"]
          /\ UNCHANGED <<balance, pool>>
      BY <2>1, <2>2 DEF CreateOrder, walletVars, poolVars
    <2>4. Phase[o] = "none" /\ Phase' = [Phase EXCEPT ![o] = "open"] /\ Money' = Money
      BY <2>3, PhaseMoves, PhaseIs, MoneyMoves DEF TopUpInv, MoneyInv, RowsTypeOK
    <2> QED BY <2>4 DEF Promised, Promise!Next, Promise!Open
  <1>3. CASE ~RecordOrder(c)
    <2>1. UNCHANGED <<ordStatus, balance, pool>>
      BY <1>1, <1>3 DEF AdmitTopup, EnsureInitiatorWallet, CreatePayment, AbandonTopup,
         EnsureWallet, storeVars, orderVars, poolVars
    <2> QED BY <2>1, QuietPromised DEF TopUpInv
  <1> QED BY <1>2, <1>3

\* applyNotification pays an order or closes it.
LEMMA ApplyPromised == ASSUME TopUpInv, MoneyInv', Apply PROVE Promised
  <1>1. PICK a \in Applier :
          \/ \E o \in Order, via \in {"notify", "reconcile"} : ReadOrder(a, o, via)
          \/ Proceed(a)
          \/ FailTransient(a)
    BY DEF Apply
  <1>2. CASE RejectOverdue(a)
    <2>1. CASE UNCHANGED storeVars
      BY <2>1, QuietPromised DEF TopUpInv, storeVars
    <2>2. CASE MarkOrderExpired(applier[a].order)
      BY <2>2, ClosePromised DEF TopUpInv, MarkOrderExpired
    <2> QED BY <1>2, <2>1, <2>2 DEF RejectOverdue
  <1>3. CASE ApplyCredit(a)
    <2>1. applier[a] # Idle
      BY <1>3 DEF ApplyCredit, Idle
    <2>2. applier[a].order \in Order /\ applier[a].token \in Token
      BY <2>1, ApplierHas
    <2>3. CASE CreditPaidOrder(applier[a].order, applier[a].token)
      BY <2>2, <2>3, PayPromised DEF TopUpInv
    <2>4. CASE CreditPaidOrderToWorkspace(applier[a].order, applier[a].ws)
      <3>1. applier[a].ws \in Workspace
        BY <2>4 DEF CreditPaidOrderToWorkspace, TopUpInv, MoneyInv, RowsTypeOK
      <3> QED BY <2>2, <2>4, <3>1, PayPromised DEF TopUpInv
    <2> QED BY <1>3, <2>3, <2>4 DEF ApplyCredit
  <1>4. CASE ~RejectOverdue(a) /\ ~ApplyCredit(a)
    <2>1. UNCHANGED <<ordStatus, balance, pool>>
      BY <1>1, <1>4 DEF Proceed, ReadOrder, EnsureCreditWallet, FindNotPending, FailTransient,
         EnsureWallet, storeVars, orderVars, poolVars
    <2> QED BY <2>1, QuietPromised DEF TopUpInv
  <1> QED BY <1>2, <1>3, <1>4

\* Users and the sweeper close orders, a rotation moves money.
LEMMA AroundPromised == ASSUME TopUpInv, MoneyInv', Around PROVE Promised
  <1>1. ASSUME NEW o \in Order, UserPays(o) \/ OrderAges(o) PROVE Promised
    BY <1>1, QuietPromised DEF UserPays, OrderAges, storeVars, TopUpInv
  <1>2. ASSUME NEW o \in Order, OrderCancel(o) PROVE Promised
    BY <1>2, ClosePromised DEF OrderCancel, DeletePendingOrder, TopUpInv
  <1>3. CASE RunExpirySweeper
    BY <1>3, ClosePromised DEF RunExpirySweeper, ExpirePendingOrdersBefore, TopUpInv
  <1>4. ASSUME NEW old \in Token, NEW new \in Token, RotateToken(old, new) PROVE Promised
    <2>1. /\ old # new /\ balance' = MoveSum(balance, old, new)
          /\ UNCHANGED <<pool, ordStatus>>
      BY <1>4 DEF RotateToken, RekeyToken, RekeyWallets, RekeyMembers, RekeyOrders, poolVars
    <2> QED BY <2>1, PhaseMoves, MoneyMoves DEF Promised, TopUpInv
  <1>5. CASE SetUpTeam
    <2>1. UNCHANGED <<ordStatus, balance, pool>>
      BY <1>5 DEF SetUpTeam, CreateWorkspace, AddMember, walletVars, poolVars, orderVars
    <2> QED BY <2>1, QuietPromised DEF TopUpInv
  <1> QED BY <1>1, <1>2, <1>3, <1>4, <1>5 DEF Around

\* The handlers implement Settlement: however creations, deliveries,
\* cancellations, sweeps and rotations interleave and die, an order is opened
\* once, ends once, and brings its credit into the books once, as it is paid.
THEOREM HandlersSettle == TopUpSpec => SettlesAsPromised
  <1>1. TopUpInit => Promise!Init
    <2> SUFFICES ASSUME TopUpInit PROVE Promise!Init
      OBVIOUS
    <2>1. /\ ordStatus = [o \in Order |-> "absent"]
          /\ balance = [t \in Token |-> 0] /\ pool = [w \in Workspace |-> 0]
      BY DEF TopUpInit, StoreInit
    <2>2. Phase = [o \in Order |-> "none"]
      BY <2>1 DEF Phase
    <2>3. Money = 0
      BY <2>1, FiniteStore, SumZero DEF Money
    <2> QED BY <2>2, <2>3 DEF Promise!Init
  <1>2. TopUpInv /\ TopUpInv' /\ [TopUpNext]_topUpVars => [Promise!Next]_(Promise!vars)
    <2> SUFFICES ASSUME TopUpInv, TopUpInv', [TopUpNext]_topUpVars
                 PROVE  [Promise!Next]_(Promise!vars)
      OBVIOUS
    <2>1. MoneyInv /\ MoneyInv'
      BY DEF TopUpInv
    <2>2. CASE TopUpNext
      BY <2>1, <2>2, CreatePromised, ApplyPromised, AroundPromised DEF TopUpNext, Promised, Promise!vars
    <2>3. CASE UNCHANGED topUpVars
      BY <2>1, <2>3, QuietPromised DEF topUpVars, storeVars, Promised, Promise!vars
    <2> QED BY <2>2, <2>3
  <1> QED BY <1>1, <1>2, TopUpInvariant, PTL DEF TopUpSpec, SettlesAsPromised, Promise!Spec
=============================================================================
