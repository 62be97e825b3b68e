----------------------------- MODULE PanelProofs -----------------------------
(***************************************************************************)
(* The two panels.  Any number of operators may take up an invoice at once,*)
(* and any of their statements fail: the customer is mailed one.  And any  *)
(* number of requests may work on the teams at once: a request that acts on*)
(* what is still so leaves them their admins.                              *)
(***************************************************************************)
EXTENDS InvoiceDesk, TeamAdmin, FiniteSetTheorems, TLAPS

-----------------------------------------------------------------------------
(***************************************************************************)
(* Operator panel: the issue of an invoice.                                *)
(***************************************************************************)
Row == [status : InvoiceStates, token : Token, ws : Workspace \cup {NoWorkspace}, cny : Int]
DeskJobs == [pc : {"checked", "written", "refused", "issued"}, inv : Invoice]

RowsInv ==
  /\ invoice \in [Invoice -> Row]
  /\ issue \in [Clerk -> {Idle} \cup DeskJobs]
  /\ mailed \subseteq Invoice \X Clerk

\* The requests that have an invoice in hand as issued, or have mailed it.
Holds(c, i) == (issue[c].pc = "issued" /\ issue[c].inv = i) \/ <<i, c>> \in mailed

\* Who has issued an invoice is the only one who holds it, and it stays issued.
DeskInv ==
  /\ RowsInv
  /\ \A c \in Clerk, i \in Invoice : Holds(c, i) => invoice[i].status = "issued"
  /\ \A c, d \in Clerk, i \in Invoice : Holds(c, i) /\ Holds(d, i) => c = d

LEMMA DeskInitInv == DeskInit => DeskInv
  <1> SUFFICES ASSUME DeskInit PROVE DeskInv
    OBVIOUS
  <1>1. invoice \in [Invoice -> Row]
    <2>1. PICK t \in Token : invoice = [i \in Invoice |->
            [status |-> "absent", token |-> t, ws |-> NoWorkspace, cny |-> 0]]
      BY DEF DeskInit, StoreInit
    <2> QED BY <2>1 DEF Row, InvoiceStates
  <1>2. issue = [c \in Clerk |-> Idle] /\ mailed = {}
    BY DEF DeskInit
  <1>3. RowsInv
    BY <1>1, <1>2 DEF RowsInv
  <1>4. \A c \in Clerk, i \in Invoice : ~Holds(c, i)
    BY <1>2 DEF Holds, Idle
  <1> QED BY <1>3, <1>4 DEF DeskInv

-----------------------------------------------------------------------------
(***************************************************************************)
(* What a step does to the rows and to the requests.                       *)
(***************************************************************************)
\* One request moves, to a job of its own or to rest.
Moves(c, job) ==
  /\ job \in {Idle} \cup DeskJobs
  /\ issue' = [issue EXCEPT ![c] = job]
  /\ job # Idle /\ job.pc = "issued" => issue[c].pc = "issued"
  /\ UNCHANGED mailed

LEMMA MovesKeep ==
  ASSUME DeskInv, NEW c \in Clerk, NEW job, Moves(c, job), UNCHANGED invoice,
         job = Idle \/ job.pc # "issued"
  PROVE  DeskInv'
  <1>1. RowsInv'
    BY DEF DeskInv, RowsInv, Moves
  <1>2. ASSUME NEW d \in Clerk, NEW i \in Invoice, Holds(d, i)' PROVE Holds(d, i)
    <2>1. CASE d = c
      BY <1>2, <2>1 DEF DeskInv, RowsInv, Moves, Holds, Idle
    <2>2. CASE d # c
      BY <1>2, <2>2 DEF DeskInv, RowsInv, Moves, Holds
    <2> QED BY <2>1, <2>2
  <1> QED BY <1>1, <1>2 DEF DeskInv

\* The rows change, but none that is issued, and no request moves.
LEMMA RowsKeep ==
  ASSUME DeskInv, UNCHANGED <<issue, mailed>>, invoice' \in [Invoice -> Row],
         \A i \in Invoice : invoice[i].status = "issued" => invoice'[i].status = "issued"
  PROVE  DeskInv'
  BY DEF DeskInv, RowsInv, Holds

\* MarkInvoiceIssued takes a pending row, so nobody holds it yet.
LEMMA IssueKeeps ==
  ASSUME DeskInv, NEW c \in Clerk, Issue(c)
  PROVE  DeskInv'
  <1> DEFINE i == issue[c].inv
  <1>1. issue[c] \in DeskJobs /\ i \in Invoice /\ invoice[i].status = "pending"
    BY DEF DeskInv, RowsInv, Issue, MarkInvoiceIssued, CloseInvoice, Idle, DeskJobs
  <1>2. PICK status \in {"issued", "refused"} :
          issue' = [issue EXCEPT ![c] = [issue[c] EXCEPT !.pc = status]]
    BY DEF Issue, Become
  <1>3. issue'[c].inv = i /\ \A d \in Clerk \ {c} : issue'[d] = issue[d]
    BY <1>1, <1>2 DEF DeskInv, RowsInv, DeskJobs
  <1>4. /\ invoice' = [invoice EXCEPT ![i].status = "issued"]
        /\ mailed' = mailed
    BY DEF Issue, MarkInvoiceIssued, CloseInvoice
  <1>5. RowsInv'
    <2>1. issue' \in [Clerk -> {Idle} \cup DeskJobs]
      BY <1>1, <1>2 DEF DeskInv, RowsInv, DeskJobs
    <2>2. invoice' \in [Invoice -> Row]
      BY <1>1, <1>4 DEF DeskInv, RowsInv, Row, InvoiceStates
    <2> QED BY <1>4, <2>1, <2>2 DEF DeskInv, RowsInv
  <1>6. /\ invoice'[i].status = "issued"
        /\ \A j \in Invoice \ {i} : invoice'[j] = invoice[j]
    BY <1>1, <1>4 DEF DeskInv, RowsInv, Row
  <1>7. \A d \in Clerk : ~Holds(d, i)
    BY <1>1 DEF DeskInv
  <1>8. ASSUME NEW d \in Clerk, NEW j \in Invoice, Holds(d, j)'
        PROVE  Holds(d, j) \/ (d = c /\ j = i)
    BY <1>3, <1>4, <1>8 DEF Holds
  <1>9. ASSUME NEW d \in Clerk, NEW j \in Invoice, Holds(d, j)'
        PROVE  invoice'[j].status = "issued"
    BY <1>6, <1>8, <1>9 DEF DeskInv
  <1>10. ASSUME NEW d \in Clerk, NEW e \in Clerk, NEW j \in Invoice, Holds(d, j)', Holds(e, j)'
         PROVE  d = e
    BY <1>7, <1>8, <1>10 DEF DeskInv
  <1> QED BY <1>5, <1>9, <1>10 DEF DeskInv

\* The mail is of the invoice in hand.
LEMMA DeliverKeeps ==
  ASSUME DeskInv, NEW c \in Clerk, DeliverInvoiceEmail(c)
  PROVE  DeskInv'
  <1> DEFINE i == issue[c].inv
  <1>1. issue[c].pc = "issued" /\ i \in Invoice /\ invoice' = invoice
    BY DEF DeskInv, RowsInv, DeliverInvoiceEmail, Idle, DeskJobs, storeVars
  <1>2. /\ issue' = [issue EXCEPT ![c] = Idle]
        /\ mailed' \in {mailed, mailed \cup {<<i, c>>}}
    BY DEF DeliverInvoiceEmail, Become
  <1>3. RowsInv'
    BY <1>1, <1>2 DEF DeskInv, RowsInv
  <1>4. ASSUME NEW d \in Clerk, NEW j \in Invoice, Holds(d, j)' PROVE Holds(d, j)
    <2>1. CASE <<j, d>> \in mailed'
      BY <1>1, <1>2, <2>1 DEF Holds
    <2>2. CASE issue'[d].pc = "issued" /\ issue'[d].inv = j
      <3>1. d # c
        BY <1>2, <2>2 DEF DeskInv, RowsInv, Idle
      <3>2. issue'[d] = issue[d]
        BY <1>2, <3>1 DEF DeskInv, RowsInv
      <3> QED BY <2>2, <3>2 DEF Holds
    <2> QED BY <1>4, <2>1, <2>2 DEF Holds
  <1> QED BY <1>1, <1>3, <1>4 DEF DeskInv

\* The other steps of a request.
LEMMA ClerkKeeps ==
  ASSUME DeskInv, NEW c \in Clerk,
         \/ \E i \in Invoice : CheckPending(c, i)
         \/ WritePDF(c) \/ IssueRefused(c) \/ RemovePDF(c) \/ Die(c)
  PROVE  DeskInv'
  <1>1. UNCHANGED <<invoice, mailed>>
    BY DEF CheckPending, WritePDF, IssueRefused, RemovePDF, Die, storeVars
  <1>2. PICK job \in {Idle} \cup DeskJobs :
          issue' = [issue EXCEPT ![c] = job] /\ (job = Idle \/ job.pc # "issued")
    <2>1. ASSUME NEW i \in Invoice, CheckPending(c, i)
          PROVE  \E job \in {Idle} \cup DeskJobs :
                   issue' = [issue EXCEPT ![c] = job] /\ (job = Idle \/ job.pc # "issued")
      <3> DEFINE job == [pc |-> "checked", inv |-> i]
      <3>1. job \in {Idle} \cup DeskJobs /\ job.pc # "issued"
        BY DEF DeskJobs
      <3>2. issue' = [issue EXCEPT ![c] = job]
        BY <2>1 DEF CheckPending, Become
      <3> HIDE DEF job
      <3> QED BY <3>1, <3>2
    <2>2. ASSUME NEW pc \in {"written", "refused"}, issue[c].pc \in {"checked", "written"},
                 Become(c, [issue[c] EXCEPT !.pc = pc])
          PROVE  \E job \in {Idle} \cup DeskJobs :
                   issue' = [issue EXCEPT ![c] = job] /\ (job = Idle \/ job.pc # "issued")
      <3>1. issue[c] \in DeskJobs
        BY <2>2 DEF DeskInv, RowsInv, Idle
      <3>2. [issue[c] EXCEPT !.pc = pc] \in DeskJobs /\ [issue[c] EXCEPT !.pc = pc].pc = pc
        BY <3>1 DEF DeskJobs
      <3> QED BY <2>2, <3>2 DEF Become
    <2>3. CASE Become(c, Idle)
      BY <2>3 DEF Become
    <2>4. CASE WritePDF(c)
      BY <2>2, <2>4 DEF WritePDF
    <2>5. CASE IssueRefused(c)
      BY <2>2, <2>5 DEF IssueRefused
    <2> QED BY <2>1, <2>3, <2>4, <2>5 DEF RemovePDF, Die
  <1> QED BY <1>1, <1>2, MovesKeep DEF Moves

\* Filing takes an absent row, rejecting a pending one.
LEMMA OthersKeep ==
  ASSUME DeskInv, Customer \/ \E i \in Invoice : Reject(i)
  PROVE  DeskInv'
  <1>1. UNCHANGED <<issue, mailed>>
    BY DEF Customer, Reject
  <1>2. CASE UNCHANGED invoice
    BY <1>1, <1>2, RowsKeep DEF DeskInv, RowsInv
  <1>3. ASSUME NEW i \in Invoice, Reject(i) PROVE DeskInv'
    <2>1. invoice[i].status = "pending" /\ invoice' = [invoice EXCEPT ![i].status = "rejected"]
      BY <1>3 DEF Reject, MarkInvoiceRejected, CloseInvoice
    <2> QED BY <1>1, <2>1, RowsKeep DEF DeskInv, RowsInv, Row, InvoiceStates
  <1>4. ASSUME NEW i \in Invoice, NEW t \in Token, NEW cny \in Claims, CreateInvoice(i, t, cny)
        PROVE  DeskInv'
    <2>1. /\ invoice[i].status = "absent"
          /\ invoice' = [invoice EXCEPT ![i] = [status |-> "pending", token |-> t,
                                                ws |-> NoWorkspace, cny |-> cny]]
      BY <1>4 DEF CreateInvoice, FileInvoice
    <2>2. [status |-> "pending", token |-> t, ws |-> NoWorkspace, cny |-> cny] \in Row
      BY StoreAssumption DEF Row, InvoiceStates
    <2> QED BY <1>1, <2>1, <2>2, RowsKeep DEF DeskInv, RowsInv
  <1> QED BY <1>2, <1>3, <1>4
          DEF Customer, EnsureWallet, CreateOrder, CreditPaidOrder, invoiceVars

LEMMA DeskKept ==
  ASSUME DeskInv, [DeskNext]_deskVars
  PROVE  DeskInv'
  <1>1. CASE UNCHANGED deskVars
    BY <1>1, RowsKeep DEF deskVars, storeVars, DeskInv, RowsInv
  <1>2. CASE DeskNext
    BY <1>2, IssueKeeps, DeliverKeeps, ClerkKeeps, OthersKeep DEF DeskNext
  <1> QED BY <1>1, <1>2

\* However many requests issue an invoice at once, and whichever statements
\* fail after their work is done, the customer is mailed one PDF at most, of
\* an invoice that is issued (handleIssueInvoice, MarkInvoiceIssued).
THEOREM OneMailPerInvoice == DeskSpec => []OneInvoiceMailed
  <1>1. DeskInv => OneInvoiceMailed
    <2> SUFFICES ASSUME DeskInv PROVE OneInvoiceMailed
      OBVIOUS
    <2>1. ASSUME NEW m \in mailed PROVE /\ m[1] \in Invoice /\ m[2] \in Clerk
                                        /\ m = <<m[1], m[2]>> /\ Holds(m[2], m[1])
      BY <2>1 DEF DeskInv, RowsInv, Holds
    <2>2. \A m \in mailed : invoice[m[1]].status = "issued"
      BY <2>1 DEF DeskInv
    <2>3. ASSUME NEW m \in mailed, NEW n \in mailed, m[1] = n[1] PROVE m = n
      BY <2>1, <2>3 DEF DeskInv
    <2> QED BY <2>2, <2>3 DEF OneInvoiceMailed
  <1> QED BY <1>1, DeskInitInv, DeskKept, PTL DEF DeskSpec

-----------------------------------------------------------------------------
(***************************************************************************)
(* Team console: the admins of a team.                                     *)
(***************************************************************************)
Work == [pc : {"admitted"}, ws : Workspace \cup {NoWorkspace}]
          \cup [pc : {"resolved", "cleared", "unregistered", "created", "failed"},
                kind : Kinds, ws : Workspace \cup {NoWorkspace}, target : Token]

Founding == {"created", "failed"}

TeamRows ==
  /\ workspaces \subseteq Workspace
  /\ member \in [Token -> workspaces \cup {NoWorkspace}]
  /\ admins \subseteq Token /\ live \subseteq Token

\* Somebody other than the target is an admin of its team, or the target is
\* none.
Spare(w, t) == t \in admins => member[t] = w /\ \E u \in admins \ {t} : member[u] = w

\* What a request relies on when it writes.
Relies(job) ==
  /\ job.pc = "admitted" => \E u \in admins : member[u] = job.ws
  /\ job.pc = "resolved" => member[job.target] = job.ws
  /\ job.pc = "cleared" /\ job.kind = "invite" =>
       job.target \in live /\ \E u \in admins : member[u] = job.ws
  /\ job.pc = "cleared" /\ job.kind \in {"demote", "remove", "delete"} => Spare(job.ws, job.target)
  /\ job.pc = "unregistered" => Spare(job.ws, job.target)
  /\ job.pc = "created" => job.target \in live

\* A workspace without its first admin has no members, and is known to the
\* request that founds it only.
Fresh(r) ==
  /\ req[r].ws \in workspaces \cup {NoWorkspace}
  /\ req[r].pc \in Founding =>
       /\ req[r].ws \in workspaces
       /\ \A t \in Token : member[t] # req[r].ws
       /\ \A s \in Request \ {r} : req[s] # NoRequest => req[s].ws # req[r].ws

TeamInv ==
  /\ TeamRows
  /\ DOMAIN req = Request
  /\ \A r \in Request : req[r] \in {NoRequest} \cup Work
  /\ \A r \in Request : req[r] # NoRequest => Fresh(r)
  /\ \A r \in Request \ lapsed : Relies(req[r])

\* More than one admin: one of them is somebody else.
LEMMA AnotherAdmin ==
  ASSUME TeamRows, NEW w, ~OnlyAdmin(w), NEW t
  PROVE  \E u \in admins \ {t} : member[u] = w
  <1> DEFINE S == Members(w) \cap admins
  <1>1. IsFiniteSet(S) /\ Cardinality(S) \in Nat /\ ~(Cardinality(S) <= 1)
    BY FiniteStore, FS_Subset, FS_CardinalityType DEF TeamRows, OnlyAdmin, Members
  <1>2. SUFFICES ASSUME S \subseteq {t} PROVE FALSE
    BY DEF Members
  <1>3. IsFiniteSet({t}) /\ Cardinality({t}) = 1
    BY FS_Singleton
  <1>4. Cardinality(S) <= Cardinality({t})
    BY <1>2, <1>3, FS_Subset
  <1> QED BY <1>1, <1>3, <1>4

-----------------------------------------------------------------------------
(***************************************************************************)
(* The steps of a request.                                                 *)
(***************************************************************************)
LEMMA Rests == Relies(NoRequest)
  BY DEF Relies, NoRequest

LEMMA WorkHas ==
  ASSUME TeamInv, NEW r \in Request, req[r] # NoRequest
  PROVE  /\ req[r] \in Work /\ req[r].ws \in Workspace \cup {NoWorkspace}
         /\ req[r].pc # "admitted" =>
              req[r] \in [pc : {"resolved", "cleared", "unregistered", "created", "failed"},
                          kind : Kinds, ws : Workspace \cup {NoWorkspace}, target : Token]
  BY DEF TeamInv, Work

\* A request goes on to its next step with the same job.
LEMMA NextPc ==
  ASSUME TeamInv, NEW r \in Request, req[r] # NoRequest, req[r].pc # "admitted",
         NEW pc \in {"resolved", "cleared", "unregistered", "created", "failed"}
  PROVE  \E job \in Work : /\ job = [req[r] EXCEPT !.pc = pc] /\ job.pc = pc
                           /\ job.kind = req[r].kind /\ job.ws = req[r].ws /\ job.target = req[r].target
  <1>1. req[r] \in [pc : {"resolved", "cleared", "unregistered", "created", "failed"},
                    kind : Kinds, ws : Workspace \cup {NoWorkspace}, target : Token]
    BY WorkHas
  <1>2. [req[r] EXCEPT !.pc = pc] \in [pc : {"resolved", "cleared", "unregistered", "created", "failed"},
                                      kind : Kinds, ws : Workspace \cup {NoWorkspace}, target : Token]
    BY <1>1
  <1> QED BY <1>1, <1>2 DEF Work

LEMMA KindsAre ==
  {"invite", "promote", "demote", "remove", "delete", "create"} \subseteq Kinds
  BY DEF Kinds

LEMMA NewJob ==
  ASSUME NEW pc \in {"resolved", "cleared", "created"}, NEW kind \in Kinds,
         NEW w \in Workspace \cup {NoWorkspace}, NEW t \in Token
  PROVE  \E job \in Work : /\ job = Job(pc, kind, w, t) /\ job.pc = pc
                           /\ job.kind = kind /\ job.ws = w /\ job.target = t
  <1> DEFINE job == Job(pc, kind, w, t)
  <1>1. job.pc = pc /\ job.kind = kind /\ job.ws = w /\ job.target = t
    BY DEF Job
  <1>2. job \in Work
    BY DEF Job, Work
  <1> HIDE DEF job
  <1> QED BY <1>1, <1>2 DEF job

\* A step of r leads to job: what the teams and the other requests may see of
\* it.
Leads(r, job) ==
  /\ job \in {NoRequest} \cup Work /\ Advance(r, job)
  /\ TeamRows' /\ workspaces \subseteq workspaces'
  /\ \A t \in Token : \/ member'[t] \in {member[t], NoWorkspace}
                      \/ job = NoRequest /\ req[r] # NoRequest /\ member'[t] = req[r].ws
  /\ \/ job = NoRequest
     \/ /\ req[r] # NoRequest /\ job.ws = req[r].ws
        /\ job.pc \in Founding => req[r].pc \in Founding
     \/ job.pc \notin Founding /\ \E t \in Token : job.ws = member[t]
     \/ job.ws \in workspaces' \ workspaces /\ member' = member

\* It orphans no workspace and leaves no deleted token in one.
Harmless ==
  /\ \A w \in Workspace : Orphaned(w)' => Orphaned(w)
  /\ \A t \in Token : Dangling(t)' => Dangling(t)

\* And that is so if r acts on what is still so.
Keeps(r, job) == Leads(r, job) /\ (Relies(req[r]) => Relies(job)' /\ Harmless)

\* What a request that is not overtaken relies on stays so.
LEMMA HoldsStill ==
  ASSUME TeamInv, TeamRows', NEW s \in Request, ~Overtaken(s), Relies(req[s]), req'[s] = req[s]
  PROVE  Relies(req[s])'
  <1> DEFINE job == req[s]
  <1>1. CASE job = NoRequest
    <2>1. req'[s] = NoRequest
      BY <1>1
    <2> QED BY <2>1 DEF Relies, NoRequest
  <1>2. CASE job # NoRequest
    <2> DEFINE w == job.ws
               t == job.target
    <2>1. /\ Admins(w) \subseteq Admins(w)'
          /\ job.pc # "admitted" => /\ member'[t] = member[t]
                                    /\ (t \in admins') = (t \in admins)
                                    /\ (t \in live') = (t \in live)
      BY <1>2 DEF Overtaken
    <2>2. \A u \in admins : member[u] = w => u \in admins' /\ member'[u] = w
      <3>1. Admins(w)' = {u \in Token : member'[u] = w} \cap admins'
        BY DEF Admins, Members
      <3> QED BY <2>1, <3>1 DEF Admins, Members, TeamInv, TeamRows
    <2> HIDE DEF w, t
    <2>3. job.pc = "admitted" => \E u \in admins' : member'[u] = w
      BY <2>2 DEF Relies, w
    <2>4. job.pc = "resolved" => member'[t] = w
      BY <2>1 DEF Relies, w, t
    <2>5. job.pc = "cleared" /\ job.kind = "invite" => t \in live' /\ \E u \in admins' : member'[u] = w
      BY <2>1, <2>2 DEF Relies, w, t
    <2>6. Spare(w, t) /\ job.pc # "admitted" => Spare(w, t)'
      BY <2>1, <2>2 DEF Spare, w, t
    <2>7. job.pc = "cleared" /\ job.kind \in {"demote", "remove", "delete"} => Spare(w, t)'
      BY <2>6 DEF Relies, w, t
    <2>8. job.pc = "unregistered" => Spare(w, t)'
      BY <2>6 DEF Relies, w, t
    <2>9. job.pc = "created" => t \in live'
      BY <2>1 DEF Relies, t
    <2> QED BY <2>3, <2>4, <2>5, <2>7, <2>8, <2>9 DEF Relies, w, t
  <1> QED BY <1>1, <1>2

\* The workspaces being founded stay out of everybody else's sight.
LEMMA FreshKept ==
  ASSUME TeamInv, NEW r \in Request, NEW job, Leads(r, job), NEW s \in Request, req'[s] # NoRequest
  PROVE  Fresh(s)'
  <1>1. /\ req'[r] = job /\ \A q \in Request \ {r} : req'[q] = req[q]
        /\ workspaces \subseteq workspaces' /\ NoWorkspace \notin workspaces'
    BY StoreAssumption DEF TeamInv, Leads, Advance, TeamRows
  <1>2. \A q \in Request : req[q] # NoRequest => Fresh(q)
    BY DEF TeamInv
  <1>3. \A t \in Token : member[t] \in workspaces \cup {NoWorkspace}
    BY DEF TeamInv, TeamRows
  <1>4. \A t \in Token : \/ member'[t] = member[t] \/ member'[t] = NoWorkspace
                         \/ job = NoRequest /\ req[r] # NoRequest /\ member'[t] = req[r].ws
    BY DEF Leads
  <1>5. \/ job = NoRequest
        \/ /\ req[r] # NoRequest /\ job.ws = req[r].ws
           /\ job.pc \in Founding => req[r].pc \in Founding
        \/ job.pc \notin Founding /\ \E t \in Token : job.ws = member[t]
        \/ job.ws \in workspaces' \ workspaces /\ member' = member
    BY DEF Leads
  <1>6. CASE s = r
    <2>1. job # NoRequest /\ req'[s] = job
      BY <1>1, <1>6
    <2>2. CASE /\ req[r] # NoRequest /\ job.ws = req[r].ws
               /\ job.pc \in Founding => req[r].pc \in Founding
      <3>1. Fresh(r)
        BY <1>2, <2>2
      <3> QED BY <1>1, <1>4, <1>6, <2>1, <2>2, <3>1 DEF Fresh
    <2>3. CASE job.pc \notin Founding /\ \E t \in Token : job.ws = member[t]
      BY <1>1, <1>3, <1>6, <2>1, <2>3 DEF Fresh
    <2>4. CASE job.ws \in workspaces' \ workspaces /\ member' = member
      <3>1. \A t \in Token : member'[t] # job.ws
        BY <1>1, <1>3, <2>4
      <3>2. \A q \in Request \ {r} : req'[q] # NoRequest => req'[q].ws # job.ws
        BY <1>1, <1>2, <2>4 DEF Fresh
      <3> QED BY <1>1, <1>6, <2>1, <2>4, <3>1, <3>2 DEF Fresh
    <2> QED BY <1>5, <2>1, <2>2, <2>3, <2>4
  <1>7. CASE s # r
    <2>1. req'[s] = req[s] /\ Fresh(s)
      BY <1>1, <1>2, <1>7
    <2>2. ASSUME req[s].pc \in Founding, NEW t \in Token
          PROVE  member'[t] # req[s].ws
      BY <1>1, <1>4, <1>7, <2>1, <2>2 DEF Fresh
    <2>3. ASSUME req[s].pc \in Founding, NEW q \in Request \ {s}, req'[q] # NoRequest
          PROVE  req'[q].ws # req[s].ws
      <3>1. CASE q # r
        BY <1>1, <2>1, <2>3, <3>1 DEF Fresh
      <3>2. CASE q = r
        BY <1>1, <1>5, <1>7, <2>1, <2>3, <3>2 DEF Fresh
      <3> QED BY <3>1, <3>2
    <2> QED BY <1>1, <2>1, <2>2, <2>3 DEF Fresh
  <1> QED BY <1>6, <1>7

LEMMA StepKeeps ==
  ASSUME TeamInv, NEW r \in Request, NEW job, Leads(r, job),
         \/ lapsed' = Behind(r) /\ Keeps(r, job)
         \/ lapsed' = Behind(r) \cup {r}
  PROVE  TeamInv' /\ (r \in lapsed' \/ Harmless)
  <1>1. /\ req'[r] = job /\ job \in {NoRequest} \cup Work /\ TeamRows'
        /\ \A q \in Request \ {r} : req'[q] = req[q]
        /\ DOMAIN req' = Request
    BY DEF TeamInv, Leads, Advance
  <1>2. ASSUME r \notin lapsed' PROVE Relies(job)' /\ Harmless
    <2>1. Keeps(r, job) /\ r \notin Behind(r)
      BY <1>2
    <2>2. req[r] = NoRequest \/ r \notin lapsed
      BY <2>1 DEF Behind
    <2>3. Relies(req[r])
      BY <2>2, Rests DEF TeamInv
    <2> QED BY <2>1, <2>3 DEF Keeps
  <1>3. ASSUME NEW s \in Request \ lapsed' PROVE Relies(req[s])'
    <2>1. CASE s = r
      <3>1. Relies(job)' /\ req'[s] = job
        BY <1>1, <1>2, <1>3, <2>1
      <3> QED BY <3>1 DEF Relies, Spare
    <2>2. CASE s # r
      <3>1. s \notin Behind(r)
        BY <1>3, <2>2
      <3>2. s \notin lapsed /\ ~Overtaken(s)
        BY <2>2, <3>1 DEF Behind
      <3>3. Relies(req[s]) /\ req'[s] = req[s]
        BY <1>1, <2>2, <3>2 DEF TeamInv
      <3> QED BY <1>1, <3>2, <3>3, HoldsStill
    <2> QED BY <2>1, <2>2
  <1>4. \A s \in Request : req'[s] # NoRequest => Fresh(s)'
    BY FreshKept
  <1>5. \A s \in Request : req'[s] \in {NoRequest} \cup Work
    BY <1>1 DEF TeamInv
  <1> QED BY <1>1, <1>2, <1>3, <1>4, <1>5 DEF TeamInv

\* No team changes.
LEMMA QuietLeads ==
  ASSUME TeamInv, NEW r \in Request, NEW job \in {NoRequest} \cup Work, Advance(r, job),
         UNCHANGED <<member, admins, live, workspaces>>,
         \/ job = NoRequest
         \/ /\ req[r] # NoRequest /\ job.ws = req[r].ws
            /\ job.pc \in Founding => req[r].pc \in Founding
         \/ job.pc \notin Founding /\ \E t \in Token : job.ws = member[t]
  PROVE  Leads(r, job)
  <1>1. TeamRows'
    BY DEF TeamInv, TeamRows
  <1> QED BY <1>1 DEF Leads

LEMMA QuietKeeps ==
  ASSUME TeamInv, NEW r \in Request, NEW job, Leads(r, job),
         UNCHANGED <<member, admins, live, workspaces>>, disabled \subseteq disabled',
         Relies(req[r]) => Relies(job),
         req[r].pc = "unregistered" => member[req[r].target] = NoWorkspace,
         req[r].pc \in Founding =>
           (job.pc \in Founding /\ job.ws = req[r].ws) \/ req[r].ws \in disabled'
  PROVE  Keeps(r, job)
  <1>1. /\ req'[r] = job /\ \A q \in Request \ {r} : req'[q] = req[q]
    BY DEF TeamInv, Leads, Advance
  <1>2. Relies(job) => Relies(job)'
    BY DEF Relies, Spare
  <1>3. ASSUME NEW w \in Workspace, Orphaned(w)' PROVE Orphaned(w)
    <2>1. /\ w \in workspaces /\ Admins(w) = {}
          /\ Members(w) # {} \/ w \notin disabled'
          /\ ~\E q \in Request : req'[q].pc \in Founding /\ req'[q].ws = w
      BY <1>3 DEF Orphaned, Admins, Members, Founding
    <2>2. ASSUME NEW q \in Request, req[q].pc \in Founding, req[q].ws = w PROVE FALSE
      <3>1. q = r
        BY <1>1, <2>1, <2>2
      <3>2. w \in disabled'
        BY <1>1, <2>1, <2>2, <3>1
      <3>3. req[r] # NoRequest
        BY <2>2, <3>1 DEF NoRequest, Founding
      <3>4. \A t \in Token : member[t] # w
        BY <2>2, <3>1, <3>3 DEF TeamInv, Fresh
      <3> QED BY <2>1, <3>2, <3>4 DEF Members
    <2> QED BY <2>1, <2>2 DEF Orphaned, Founding
  <1>4. ASSUME NEW t \in Token, Dangling(t)' PROVE Dangling(t)
    <2>1. /\ t \notin live /\ member[t] # NoWorkspace
          /\ ~\E q \in Request : req'[q].pc = "unregistered" /\ req'[q].target = t
      BY <1>4 DEF Dangling
    <2>2. ASSUME NEW q \in Request, req[q].pc = "unregistered", req[q].target = t PROVE FALSE
      <3>1. q # r
        BY <2>1, <2>2
      <3> QED BY <1>1, <2>1, <2>2, <3>1
    <2> QED BY <2>1, <2>2 DEF Dangling
  <1> QED BY <1>2, <1>3, <1>4 DEF Keeps, Harmless

\* A request begins: authMW, handleDeleteToken, handleCreateWorkspace.
LEMMA BeginKeeps ==
  ASSUME TeamInv, NEW r \in Request, Begin(r)
  PROVE  \E job : Keeps(r, job)
  <1>1. PICK t \in Token : \/ Authenticate(r, t) \/ StartDelete(r, t)
                           \/ \E w \in Workspace : NewWorkspace(r, w, t)
    BY DEF Begin
  <1>2. req[r] = NoRequest /\ req[r].pc = "idle"
    BY <1>1 DEF Authenticate, StartDelete, NewWorkspace, NoRequest
  <1>3. member[t] \in Workspace \cup {NoWorkspace}
    BY DEF TeamInv, TeamRows
  <1>4. CASE Authenticate(r, t)
    <2>1. PICK job \in Work : job = [pc |-> "admitted", ws |-> member[t]] /\ job.pc = "admitted"
                              /\ job.ws = member[t]
      <3> DEFINE next == [pc |-> "admitted", ws |-> member[t]]
      <3>1. next \in Work /\ next.pc = "admitted" /\ next.ws = member[t]
        BY <1>3 DEF Work
      <3> HIDE DEF next
      <3> QED BY <3>1 DEF next
    <2>2. /\ Advance(r, job) /\ t \in admins
          /\ UNCHANGED <<member, admins, live, workspaces, disabled>>
      BY <1>4, <2>1 DEF Authenticate, storeVars
    <2>3. Relies(job)
      BY <2>1, <2>2 DEF Relies
    <2>4. Leads(r, job)
      BY <2>1, <2>2, QuietLeads DEF Founding
    <2> QED BY <1>2, <2>2, <2>3, <2>4, QuietKeeps DEF Founding
  <1>5. CASE StartDelete(r, t)
    <2>1. PICK pc \in {"resolved", "cleared"} : pc = IF t \in admins THEN "resolved" ELSE "cleared"
      OBVIOUS
    <2>2. PICK job \in Work : /\ job = Job(pc, "delete", member[t], t) /\ job.pc = pc
                              /\ job.kind = "delete" /\ job.ws = member[t] /\ job.target = t
      BY <1>3, KindsAre, NewJob
    <2>3. Advance(r, job) /\ UNCHANGED <<member, admins, live, workspaces, disabled>>
      BY <1>5, <2>1, <2>2 DEF StartDelete, storeVars
    <2>4. Relies(job)
      BY <2>1, <2>2 DEF Relies, Spare
    <2>5. Leads(r, job)
      BY <2>1, <2>2, <2>3, QuietLeads DEF Founding
    <2> QED BY <1>2, <2>3, <2>4, <2>5, QuietKeeps DEF Founding
  <1>6. ASSUME NEW w \in Workspace, NewWorkspace(r, w, t) PROVE \E job : Keeps(r, job)
    <2>1. PICK job \in Work : /\ job = Job("created", "create", w, t) /\ job.pc = "created"
                              /\ job.kind = "create" /\ job.ws = w /\ job.target = t
      BY KindsAre, NewJob
    <2>2. /\ Advance(r, job) /\ t \in live
          /\ w \notin workspaces /\ workspaces' = workspaces \cup {w}
          /\ UNCHANGED <<member, admins, live, disabled>>
      BY <1>6, <2>1 DEF NewWorkspace, CreateWorkspace, memberVars
    <2>3. TeamRows'
      BY <2>2 DEF TeamInv, TeamRows
    <2>4. Leads(r, job)
      BY <2>1, <2>2, <2>3 DEF Leads
    <2>5. Relies(job)'
      BY <2>1, <2>2 DEF Relies
    <2>6. /\ req'[r] = job /\ \A q \in Request \ {r} : req'[q] = req[q]
      BY <2>2 DEF TeamInv, Advance
    <2>7. ASSUME NEW v \in Workspace, Orphaned(v)' PROVE Orphaned(v)
      <3>1. v # w
        BY <2>1, <2>6, <2>7 DEF Orphaned
      <3>2. \A q \in Request : req[q].pc \in Founding => q # r
        BY <1>2 DEF Founding
      <3> QED BY <2>2, <2>6, <2>7, <3>1, <3>2 DEF Orphaned, Admins, Members, Founding
    <2>8. ASSUME NEW u \in Token, Dangling(u)' PROVE Dangling(u)
      BY <1>2, <2>2, <2>6, <2>8 DEF Dangling
    <2> QED BY <2>4, <2>5, <2>7, <2>8 DEF Keeps, Harmless
  <1> QED BY <1>1, <1>4, <1>5, <1>6

\* A request looks up what it needs, or ends.
LEMMA LookKeeps ==
  ASSUME TeamInv, NEW r \in Request,
         \/ \E t \in Token :
              ResolveInvitee(r, t) \/ \E kind \in {"promote", "demote", "remove"} : ResolveMember(r, kind, t)
         \/ CountAdmins(r) \/ CheckSoleAdmin(r) \/ GiveUp(r) \/ UndoCreate(r)
  PROVE  \E job : Keeps(r, job)
  <1>1. req[r].pc \in {"admitted", "resolved", "cleared", "failed"} /\ req[r] # NoRequest
    <2>1. req[r].pc \in {"admitted", "resolved", "cleared", "failed"}
      BY DEF ResolveInvitee, ResolveMember, CountAdmins, CheckSoleAdmin, GiveUp, UndoCreate
    <2> QED BY <2>1 DEF NoRequest
  <1>2. /\ UNCHANGED <<member, admins, live, workspaces>> /\ disabled \subseteq disabled'
        /\ req[r].pc \in Founding => req[r].ws \in disabled'
    BY DEF ResolveInvitee, ResolveMember, CountAdmins, CheckSoleAdmin, GiveUp, UndoCreate, storeVars,
       SetWorkspaceDisabled, memberVars, Founding
  <1>3. req[r] \in Work /\ req[r].ws \in Workspace \cup {NoWorkspace}
    BY <1>1, WorkHas
  <1>4. ASSUME NEW job \in {NoRequest} \cup Work, Advance(r, job), Relies(req[r]) => Relies(job),
               job = NoRequest \/ (job.ws = req[r].ws /\ job.pc \in {"resolved", "cleared"})
        PROVE  Keeps(r, job)
    <2>1. Leads(r, job)
      BY <1>1, <1>2, <1>4, QuietLeads DEF Founding
    <2> QED BY <1>1, <1>2, <1>4, <2>1, QuietKeeps
  <1>5. CASE Advance(r, NoRequest)
    BY <1>4, <1>5, Rests
  <1>6. ASSUME NEW t \in Token, ResolveInvitee(r, t) PROVE \E job : Keeps(r, job)
    <2>1. PICK job \in Work : /\ job = Job("cleared", "invite", req[r].ws, t) /\ job.pc = "cleared"
                              /\ job.kind = "invite" /\ job.ws = req[r].ws /\ job.target = t
      BY <1>3, KindsAre, NewJob
    <2>2. Advance(r, job) /\ t \in live /\ req[r].pc = "admitted"
      BY <1>6, <2>1 DEF ResolveInvitee
    <2>3. Relies(req[r]) => Relies(job)
      BY <2>1, <2>2 DEF Relies
    <2> QED BY <1>4, <2>1, <2>2, <2>3
  <1>7. ASSUME NEW t \in Token, NEW kind \in {"promote", "demote", "remove"}, ResolveMember(r, kind, t)
        PROVE  \E job : Keeps(r, job)
    <2>1. PICK pc \in {"resolved", "cleared"} :
            pc = IF kind # "promote" /\ t \in admins THEN "resolved" ELSE "cleared"
      OBVIOUS
    <2>2. PICK job \in Work : /\ job = Job(pc, kind, req[r].ws, t) /\ job.pc = pc
                              /\ job.kind = kind /\ job.ws = req[r].ws /\ job.target = t
      BY <1>3, KindsAre, NewJob
    <2>3. Advance(r, job) /\ member[t] = req[r].ws
      BY <1>7, <2>1, <2>2 DEF ResolveMember
    <2>4. Relies(job)
      BY <2>1, <2>2, <2>3 DEF Relies, Spare
    <2> QED BY <1>4, <2>2, <2>3, <2>4
  <1>8. CASE /\ CountAdmins(r) \/ CheckSoleAdmin(r)
             /\ ~Advance(r, NoRequest)
    <2>1. /\ ~OnlyAdmin(req[r].ws) /\ req[r].pc = "resolved"
          /\ req[r].kind \in {"demote", "remove", "delete"}
          /\ Advance(r, [req[r] EXCEPT !.pc = "cleared"])
      BY <1>8 DEF CountAdmins, CheckSoleAdmin
    <2>2. PICK job \in Work : /\ job = [req[r] EXCEPT !.pc = "cleared"] /\ job.pc = "cleared"
                              /\ job.kind = req[r].kind /\ job.ws = req[r].ws /\ job.target = req[r].target
      BY <1>1, <2>1, NextPc
    <2>3. \E u \in admins \ {job.target} : member[u] = job.ws
      BY <2>1, <2>2, AnotherAdmin DEF TeamInv
    <2>4. Relies(req[r]) => Relies(job)
      BY <2>1, <2>2, <2>3 DEF Relies, Spare
    <2> QED BY <1>4, <2>1, <2>2, <2>4
  <1> QED BY <1>5, <1>6, <1>7, <1>8 DEF GiveUp, UndoCreate

-----------------------------------------------------------------------------
(***************************************************************************)
(* The writes.                                                             *)
(***************************************************************************)
\* A member joins: a live token, into a workspace with an admin or as one.
LEMMA JoinKeeps ==
  ASSUME TeamInv, NEW r \in Request, req[r] # NoRequest, Advance(r, NoRequest), UNCHANGED live,
         NEW t \in Token, NEW isAdmin \in BOOLEAN, AddMember(req[r].ws, t, isAdmin, 0, 0),
         req[r].pc # "unregistered",
         Relies(req[r]) => t \in live /\ (isAdmin \/ \E u \in admins : member[u] = req[r].ws)
  PROVE  Keeps(r, NoRequest)
  <1> DEFINE w == req[r].ws
  <1>1. /\ w \in workspaces /\ member[t] = NoWorkspace
        /\ member' = [member EXCEPT ![t] = w]
        /\ admins' = (IF isAdmin THEN admins \cup {t} ELSE admins)
        /\ UNCHANGED <<workspaces, disabled>>
    BY DEF AddMember, poolVars
  <1>2. member'[t] = w /\ \A u \in Token \ {t} : member'[u] = member[u]
    BY <1>1 DEF TeamInv, TeamRows
  <1>3. w # NoWorkspace /\ w \in Workspace
    BY <1>1, StoreAssumption DEF TeamInv, TeamRows
  <1>4. TeamRows'
    BY <1>1 DEF TeamInv, TeamRows
  <1>5. Leads(r, NoRequest)
    BY <1>1, <1>2, <1>4 DEF Leads
  <1>6. /\ req'[r] = NoRequest /\ NoRequest.pc \notin Founding
        /\ \A q \in Request \ {r} : req'[q] = req[q]
    BY DEF TeamInv, Advance, NoRequest, Founding
  <1>7. ASSUME Relies(req[r]), NEW v \in Workspace, Orphaned(v)' PROVE Orphaned(v)
    <2>1. /\ v \in workspaces
          /\ ~\E u \in Token : member'[u] = v /\ u \in admins'
          /\ (\E u \in Token : member'[u] = v) \/ v \notin disabled
          /\ ~\E q \in Request : req'[q].pc \in Founding /\ req'[q].ws = v
      BY <1>1, <1>7 DEF Orphaned, Admins, Members, Founding
    <2>2. CASE v = w
      <3>1. CASE isAdmin
        BY <1>1, <1>2, <2>1, <2>2, <3>1
      <3>2. CASE ~isAdmin
        <4>1. PICK u \in admins : member[u] = w
          BY <1>7, <3>2
        <4> QED BY <1>1, <1>2, <1>3, <2>1, <2>2, <3>2, <4>1 DEF TeamInv, TeamRows
      <3> QED BY <3>1, <3>2
    <2>3. CASE v # w
      <3>1. ~\E u \in Token : member[u] = v /\ u \in admins
        BY <1>1, <1>2, <2>1, <2>3, StoreAssumption
      <3>2. (\E u \in Token : member[u] = v) \/ v \notin disabled
        BY <1>2, <2>1, <2>3
      <3>3. ~\E q \in Request : req[q].pc \in Founding /\ req[q].ws = v
        BY <1>6, <2>1, <2>3
      <3> QED BY <2>1, <3>1, <3>2, <3>3 DEF Orphaned, Admins, Members, Founding
    <2> QED BY <2>2, <2>3
  <1>8. ASSUME Relies(req[r]), NEW u \in Token, Dangling(u)' PROVE Dangling(u)
    <2>1. u # t
      BY <1>8 DEF Dangling
    <2> QED BY <1>2, <1>6, <1>8, <2>1 DEF Dangling
  <1>9. Relies(NoRequest)'
    BY DEF Relies, NoRequest
  <1> QED BY <1>5, <1>7, <1>8, <1>9 DEF Keeps, Harmless

\* A member leaves, or changes its role: a new admin, no admin, or not the
\* only one.
LEMMA ChangeKeeps ==
  ASSUME TeamInv, NEW r \in Request, req[r] # NoRequest, Advance(r, NoRequest), UNCHANGED live,
         NEW t \in Token, UNCHANGED <<workspaces, disabled>>,
         \/ admins' = admins \cup {t} /\ member' = member
         \/ admins' = admins \ {t} /\ member' \in {member, [member EXCEPT ![t] = NoWorkspace]},
         req[r].pc \notin Founding,
         req[r].pc = "unregistered" => req[r].target = t /\ member'[t] = NoWorkspace,
         Relies(req[r]) => admins \subseteq admins' \/ Spare(req[r].ws, t)
  PROVE  Keeps(r, NoRequest)
  <1>1. /\ member' \in [Token -> workspaces \cup {NoWorkspace}]
        /\ member'[t] \in {member[t], NoWorkspace} /\ \A u \in Token \ {t} : member'[u] = member[u]
    BY DEF TeamInv, TeamRows
  <1>2. Leads(r, NoRequest)
    BY <1>1 DEF Leads, TeamInv, TeamRows
  <1>3. /\ req'[r] = NoRequest /\ NoRequest.pc = "idle"
        /\ \A q \in Request \ {r} : req'[q] = req[q]
    BY DEF TeamInv, Advance, NoRequest
  <1>4. ASSUME Relies(req[r]), NEW v \in Workspace, Orphaned(v)' PROVE Orphaned(v)
    <2>1. /\ v \in workspaces /\ v # NoWorkspace
          /\ ~\E u \in Token : member'[u] = v /\ u \in admins'
          /\ (\E u \in Token : member'[u] = v) \/ v \notin disabled
          /\ ~\E q \in Request : req'[q].pc \in Founding /\ req'[q].ws = v
      BY <1>4, StoreAssumption DEF Orphaned, Admins, Members, Founding
    <2>2. ASSUME NEW u \in Token, member[u] = v, u \in admins PROVE FALSE
      <3>1. CASE admins \subseteq admins'
        <4>1. member' = member \/ u # t
          BY <2>2, <3>1
        <4>2. member'[u] = v
          BY <1>1, <2>2, <4>1
        <4> QED BY <2>1, <2>2, <3>1, <4>2
      <3>2. CASE Spare(req[r].ws, t) /\ u # t
        BY <1>1, <2>1, <2>2, <3>2
      <3>3. CASE Spare(req[r].ws, t) /\ u = t
        <4>1. PICK x \in admins \ {t} : member[x] = v
          BY <2>2, <3>3 DEF Spare
        <4>2. x \in Token /\ x \in admins' /\ member'[x] = v
          BY <1>1, <4>1 DEF TeamInv, TeamRows
        <4> QED BY <2>1, <4>2
      <3> QED BY <1>4, <3>1, <3>2, <3>3
    <2>3. (\E u \in Token : member[u] = v) \/ v \notin disabled
      BY <1>1, <2>1
    <2>4. ~\E q \in Request : req[q].pc \in Founding /\ req[q].ws = v
      BY <1>3, <2>1
    <2> QED BY <2>1, <2>2, <2>3, <2>4 DEF Orphaned, Admins, Members, Founding
  <1>5. ASSUME NEW u \in Token, Dangling(u)' PROVE Dangling(u)
    <2>1. /\ u \notin live /\ member'[u] # NoWorkspace
          /\ ~\E q \in Request : req'[q].pc = "unregistered" /\ req'[q].target = u
      BY <1>5 DEF Dangling
    <2>2. member[u] # NoWorkspace
      BY <1>1, <2>1
    <2>3. ~\E q \in Request : req[q].pc = "unregistered" /\ req[q].target = u
      BY <1>3, <2>1
    <2> QED BY <2>1, <2>2, <2>3 DEF Dangling
  <1>6. Relies(NoRequest)'
    BY DEF Relies, NoRequest
  <1> QED BY <1>2, <1>4, <1>5, <1>6 DEF Keeps, Harmless

\* The writes of the console.
LEMMA WriteKeeps ==
  ASSUME TeamInv, NEW r \in Request, WriteMember(r)
  PROVE  Keeps(r, NoRequest)
  <1> DEFINE t == req[r].target
             w == req[r].ws
  <1>1. /\ req[r].pc = "cleared" /\ Advance(r, NoRequest) /\ UNCHANGED live
        /\ req[r] # NoRequest
    BY DEF WriteMember, NoRequest
  <1>2. t \in Token
    BY <1>1, WorkHas
  <1>3. /\ "cleared" \notin Founding /\ "cleared" # "unregistered"
    BY DEF Founding
  <1>4. ASSUME NEW isAdmin \in BOOLEAN, req[r].kind = "invite", AddMember(w, t, isAdmin, 0, 0)
        PROVE  Keeps(r, NoRequest)
    <2>1. Relies(req[r]) => t \in live /\ \E u \in admins : member[u] = w
      BY <1>1, <1>4 DEF Relies
    <2> QED BY <1>1, <1>2, <1>3, <1>4, <2>1, JoinKeeps
  <1>5. CASE req[r].kind = "promote" /\ UpdateMemberRole(t, TRUE)
    <2>1. admins' = admins \cup {t} /\ UNCHANGED <<member, workspaces, disabled>>
      BY <1>5 DEF UpdateMemberRole, poolVars
    <2> QED BY <1>1, <1>2, <1>3, <2>1, ChangeKeeps
  <1>6. CASE req[r].kind = "demote" /\ UpdateMemberRole(t, FALSE)
    <2>1. admins' = admins \ {t} /\ UNCHANGED <<member, workspaces, disabled>>
      BY <1>6 DEF UpdateMemberRole, poolVars
    <2>2. Relies(req[r]) => Spare(w, t)
      BY <1>1, <1>6 DEF Relies
    <2> QED BY <1>1, <1>2, <1>3, <2>1, <2>2, ChangeKeeps
  <1>7. CASE req[r].kind = "remove" /\ RemoveMember(t)
    <2>1. /\ admins' = admins \ {t} /\ UNCHANGED <<workspaces, disabled>>
          /\ member' = [member EXCEPT ![t] = NoWorkspace]
      BY <1>7 DEF RemoveMember, poolVars
    <2>2. Relies(req[r]) => Spare(w, t)
      BY <1>1, <1>7 DEF Relies
    <2> QED BY <1>1, <1>2, <1>3, <2>1, <2>2, ChangeKeeps
  <1> QED BY <1>4, <1>5, <1>6, <1>7 DEF WriteMember

\* handleDeleteToken unregisters the token, then drops its row.
LEMMA DeleteKeeps ==
  ASSUME TeamInv, NEW r \in Request, DeleteToken(r)
  PROVE  \E job : Keeps(r, job)
  <1>1. /\ req[r].pc = "cleared" /\ req[r].kind = "delete"
        /\ live' = live \ {req[r].target}
        /\ Advance(r, [req[r] EXCEPT !.pc = "unregistered"])
        /\ UNCHANGED <<member, admins, workspaces, disabled>>
        /\ req[r] # NoRequest
    BY DEF DeleteToken, storeVars, NoRequest
  <1>2. PICK job \in Work : /\ job = [req[r] EXCEPT !.pc = "unregistered"] /\ job.pc = "unregistered"
                            /\ job.kind = req[r].kind /\ job.ws = req[r].ws /\ job.target = req[r].target
    BY <1>1, NextPc
  <1>3. Leads(r, job)
    BY <1>1, <1>2 DEF Leads, TeamInv, TeamRows, Founding
  <1>4. Relies(req[r]) => Spare(job.ws, job.target)
    BY <1>1, <1>2 DEF Relies
  <1>5. Relies(req[r]) => Relies(job)'
    BY <1>1, <1>2, <1>4 DEF Relies, Spare
  <1>6. /\ req'[r] = job /\ \A q \in Request \ {r} : req'[q] = req[q]
    BY <1>1, <1>2 DEF TeamInv, Advance
  <1>7. ASSUME NEW v \in Workspace, Orphaned(v)' PROVE Orphaned(v)
    BY <1>1, <1>6, <1>7 DEF Orphaned, Admins, Members
  <1>8. ASSUME NEW u \in Token, Dangling(u)' PROVE Dangling(u)
    <2>1. u # req[r].target
      BY <1>2, <1>6, <1>8 DEF Dangling
    <2> QED BY <1>1, <1>6, <1>8, <2>1 DEF Dangling
  <1> QED BY <1>3, <1>5, <1>7, <1>8 DEF Keeps, Harmless

LEMMA DropKeeps ==
  ASSUME TeamInv, NEW r \in Request, DropMembership(r)
  PROVE  Keeps(r, NoRequest)
  <1> DEFINE t == req[r].target
  <1>1. /\ req[r].pc = "unregistered" /\ Advance(r, NoRequest) /\ UNCHANGED live
        /\ req[r] # NoRequest
    BY DEF DropMembership, NoRequest
  <1>2. t \in Token /\ req[r].pc \notin Founding
    BY <1>1, WorkHas DEF Founding
  <1>3. CASE RemoveMember(t)
    <2>1. /\ admins' = admins \ {t} /\ UNCHANGED <<workspaces, disabled>>
          /\ member' = [member EXCEPT ![t] = NoWorkspace]
      BY <1>3 DEF RemoveMember, poolVars
    <2>2. member'[t] = NoWorkspace
      BY <1>2, <2>1 DEF TeamInv, TeamRows
    <2>3. Relies(req[r]) => Spare(req[r].ws, t)
      BY <1>1 DEF Relies
    <2> QED BY <1>1, <1>2, <2>1, <2>2, <2>3, ChangeKeeps
  <1>4. CASE member[t] = NoWorkspace /\ UNCHANGED storeVars
    <2>1. UNCHANGED <<member, admins, live, workspaces, disabled>>
      BY <1>1, <1>4 DEF storeVars
    <2>2. Leads(r, NoRequest)
      BY <1>1, <2>1, QuietLeads
    <2> QED BY <1>2, <1>4, <2>1, <2>2, Rests, QuietKeeps
  <1> QED BY <1>3, <1>4 DEF DropMembership

\* handleCreateWorkspace adds the first admin, or has to undo.
LEMMA AssignKeeps ==
  ASSUME TeamInv, NEW r \in Request, AssignAdmin(r)
  PROVE  \E job : Keeps(r, job)
  <1>1. req[r].pc = "created" /\ req[r] # NoRequest /\ UNCHANGED live
    BY DEF AssignAdmin, NoRequest
  <1>2. req[r].target \in Token
    BY <1>1, WorkHas
  <1>3. CASE AddMember(req[r].ws, req[r].target, TRUE, 0, 0) /\ Advance(r, NoRequest)
    <2>1. Relies(req[r]) => req[r].target \in live
      BY <1>1 DEF Relies
    <2>2. Keeps(r, NoRequest)
      BY <1>1, <1>2, <1>3, <2>1, JoinKeeps
    <2> QED BY <2>2
  <1>4. CASE Advance(r, [req[r] EXCEPT !.pc = "failed"]) /\ UNCHANGED storeVars
    <2>1. PICK job \in Work : /\ job = [req[r] EXCEPT !.pc = "failed"] /\ job.pc = "failed"
                              /\ job.kind = req[r].kind /\ job.ws = req[r].ws /\ job.target = req[r].target
      BY <1>1, NextPc
    <2>2. Relies(job)
      BY <2>1 DEF Relies
    <2>3. UNCHANGED <<member, admins, live, workspaces, disabled>>
      BY <1>1, <1>4 DEF storeVars
    <2>4. Leads(r, job)
      BY <1>1, <1>4, <2>1, <2>3, QuietLeads DEF Founding
    <2> QED BY <1>1, <2>1, <2>2, <2>3, <2>4, QuietKeeps DEF Founding
  <1> QED BY <1>3, <1>4 DEF AssignAdmin

\* A request whose statement fails goes on unchecked or breaks off.
LEMMA FailsLeads ==
  ASSUME TeamInv, NEW r \in Request, Fails(r)
  PROVE  \E job : Leads(r, job)
  <1>1. req[r] # NoRequest /\ UNCHANGED <<member, admins, live, workspaces>>
    BY DEF Fails, CheckFails, BreakOff, storeVars, NoRequest
  <1>2. CASE BreakOff(r)
    BY <1>1, <1>2, QuietLeads DEF BreakOff
  <1>3. CASE CheckFails(r)
    <2>1. req[r].pc = "resolved" /\ Advance(r, [req[r] EXCEPT !.pc = "cleared"])
      BY <1>3 DEF CheckFails
    <2>2. PICK job \in Work : /\ job = [req[r] EXCEPT !.pc = "cleared"] /\ job.pc = "cleared"
                              /\ job.kind = req[r].kind /\ job.ws = req[r].ws /\ job.target = req[r].target
      BY <1>1, <2>1, NextPc
    <2>3. Leads(r, job)
      BY <1>1, <2>1, <2>2, QuietLeads DEF Founding
    <2> QED BY <2>3
  <1> QED BY <1>2, <1>3 DEF Fails

LEMMA TeamInitInv == TeamInit => TeamInv
  <1> SUFFICES ASSUME TeamInit PROVE TeamInv
    OBVIOUS
  <1>1. TeamRows
    BY DEF TeamInit, StoreInit, TeamRows
  <1> QED BY <1>1, Rests DEF TeamInit, TeamInv

\* A step of a request either leaves it behind or does no harm.
LEMMA RequestKeeps ==
  ASSUME TeamInv, NEW r \in Request,
         \/ (Begin(r) \/ Step(r)) /\ lapsed' = Behind(r)
         \/ Fails(r) /\ lapsed' = Behind(r) \cup {r}
  PROVE  /\ TeamInv' /\ (r \in lapsed' \/ Harmless)
         /\ \A q \in Request \ {r} : req'[q] = req[q]
  <1>1. \E job : /\ Leads(r, job)
                 /\ \/ lapsed' = Behind(r) /\ Keeps(r, job)
                    \/ lapsed' = Behind(r) \cup {r}
    <2>1. ASSUME Begin(r) \/ Step(r) PROVE \E job : Keeps(r, job)
      BY <2>1, BeginKeeps, LookKeeps, WriteKeeps, DeleteKeeps, DropKeeps, AssignKeeps DEF Step
    <2> QED BY <2>1, FailsLeads DEF Keeps
  <1>2. PICK job : /\ Leads(r, job)
                   /\ \/ lapsed' = Behind(r) /\ Keeps(r, job)
                      \/ lapsed' = Behind(r) \cup {r}
    BY <1>1
  <1>3. \A q \in Request \ {r} : req'[q] = req[q]
    BY <1>2 DEF TeamInv, Leads, Advance
  <1> QED BY <1>2, <1>3, StepKeeps

\* What a step may do: only who has lapsed does harm.
LEMMA TeamKept ==
  ASSUME TeamInv, [TeamNext]_teamVars
  PROVE  TeamInv' /\ \A r \in Request : req'[r] # req[r] => r \in lapsed' \/ Harmless
  <1>1. ASSUME UNCHANGED <<member, admins, live, workspaces, req, lapsed>>
        PROVE  TeamInv' /\ \A r \in Request : req'[r] = req[r]
    <2>1. TeamRows'
      BY <1>1 DEF TeamInv, TeamRows
    <2>2. \A r \in Request : req[r] # NoRequest => Fresh(r)'
      BY <1>1 DEF TeamInv, Fresh
    <2>3. \A r \in Request \ lapsed : Relies(req[r])'
      BY <1>1 DEF TeamInv, Relies, Spare
    <2> QED BY <1>1, <2>1, <2>2, <2>3 DEF TeamInv
  <1>2. CASE UNCHANGED teamVars \/ \E w \in Workspace, off \in BOOLEAN : PatchWorkspace(w, off)
    BY <1>1, <1>2 DEF teamVars, storeVars, PatchWorkspace, SetWorkspaceDisabled, memberVars
  <1>3. ASSUME NEW r \in Request,
               \/ (Begin(r) \/ Step(r)) /\ lapsed' = Behind(r)
               \/ Fails(r) /\ lapsed' = Behind(r) \cup {r}
        PROVE  TeamInv' /\ \A q \in Request : req'[q] # req[q] => q \in lapsed' \/ Harmless
    BY <1>3, RequestKeeps
  <1> QED BY <1>2, <1>3 DEF TeamNext

\* However many requests work on however many teams at once, and whatever
\* fails: a team loses its last admin, or a new one is left open without any,
\* only by a request that was overtaken or broke off.
THEOREM OrphansNeedALapse == TeamSpec => OrphanedByLapse
  <1>1. TeamInv /\ [TeamNext]_teamVars =>
          [\A r \in Request, w \in Workspace :
             req'[r] # req[r] /\ Orphaned(w)' /\ ~Orphaned(w) => r \in lapsed']_teamVars
    BY TeamKept DEF Harmless
  <1>2. TeamInv /\ [TeamNext]_teamVars => TeamInv'
    BY TeamKept
  <1> QED BY <1>1, <1>2, TeamInitInv, PTL DEF TeamSpec, OrphanedByLapse

\* And only by such a request does a deleted token stay in a team or get into
\* one.
THEOREM DanglersNeedALapse == TeamSpec => DanglingByLapse
  <1>1. TeamInv /\ [TeamNext]_teamVars =>
          [\A r \in Request, t \in Token :
             req'[r] # req[r] /\ Dangling(t)' /\ ~Dangling(t) => r \in lapsed']_teamVars
    BY TeamKept DEF Harmless
  <1>2. TeamInv /\ [TeamNext]_teamVars => TeamInv'
    BY TeamKept
  <1> QED BY <1>1, <1>2, TeamInitInv, PTL DEF TeamSpec, DanglingByLapse
=============================================================================
