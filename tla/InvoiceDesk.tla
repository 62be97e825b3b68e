----------------------------- MODULE InvoiceDesk -----------------------------
(***************************************************************************)
(* The operator's side of an invoice (src/internal/admin/invoices.go): the *)
(* PDF is written to disk, then the row becomes issued, then the PDF is    *)
(* mailed.  The file has one name per invoice, whoever writes it.  The     *)
(* disk and the store share no transaction.                                *)
(***************************************************************************)
EXTENDS SaasStore

CONSTANTS
  Clerk,     \* concurrent requests of handleIssueInvoice, each with its PDF
  NoPDF,     \* no file under the invoice's name
  MayFail    \* whether a statement can fail after it has committed its work

ASSUME DeskAssumption == NoPDF \notin Clerk /\ MayFail \in BOOLEAN

VARIABLES
  issue,   \* progress of the requests
  pdf,     \* whose PDF is on disk, by invoice
  mailed   \* the mails sent: invoice and PDF

deskVars == <<storeVars, issue, pdf, mailed>>

Idle == [pc |-> "idle"]

DeskTypeOK ==
  /\ StoreTypeOK
  /\ issue \in [Clerk -> {Idle} \cup [pc : {"checked", "written", "refused", "issued"},
                                      inv : Invoice]]
  /\ pdf \in [Invoice -> Clerk \cup {NoPDF}]
  /\ mailed \subseteq Invoice \X Clerk

DeskInit ==
  /\ StoreInit
  /\ issue = [c \in Clerk |-> Idle]
  /\ pdf = [i \in Invoice |-> NoPDF]
  /\ mailed = {}

Become(c, next) == issue' = [issue EXCEPT ![c] = next]
-----------------------------------------------------------------------------
\* GetInvoice: only a pending invoice is taken further.
CheckPending(c, i) ==
  /\ issue[c] = Idle
  /\ invoice[i].status = "pending"
  /\ Become(c, [pc |-> "checked", inv |-> i])
  /\ UNCHANGED <<storeVars, pdf, mailed>>

WritePDF(c) ==
  /\ issue[c].pc = "checked"
  /\ pdf' = [pdf EXCEPT ![issue[c].inv] = c]
  /\ Become(c, [issue[c] EXCEPT !.pc = "written"])
  /\ UNCHANGED <<storeVars, mailed>>

\* Mutant: the UPDATE takes any row.
IssueAnyStatus(c) ==
  /\ issue[c].pc = "written"
  /\ invoice' = [invoice EXCEPT ![issue[c].inv].status = "issued"]
  /\ Become(c, [issue[c] EXCEPT !.pc = "issued"])
  /\ UNCHANGED <<alloc, titles, walletVars, poolVars, memberVars, usedVars, orderVars>>
  /\ UNCHANGED <<pdf, mailed>>

\* The UPDATE, then a SELECT of the row for the answer: when that one fails
\* the row is issued and the caller is told that it is not.
Issue(c) ==
  /\ issue[c].pc = "written"
  /\ MarkInvoiceIssued(issue[c].inv)
  /\ \/ Become(c, [issue[c] EXCEPT !.pc = "issued"])
     \/ MayFail /\ Become(c, [issue[c] EXCEPT !.pc = "refused"])
  /\ UNCHANGED <<pdf, mailed>>

\* The row is not pending any more, or the UPDATE fails.
IssueRefused(c) ==
  /\ issue[c].pc = "written"
  /\ invoice[issue[c].inv].status # "pending" \/ MayFail
  /\ Become(c, [issue[c] EXCEPT !.pc = "refused"])
  /\ UNCHANGED <<storeVars, pdf, mailed>>

\* The file of that name is removed, whoever wrote it last.
RemovePDF(c) ==
  /\ issue[c].pc = "refused"
  /\ pdf' = [pdf EXCEPT ![issue[c].inv] = NoPDF]
  /\ Become(c, Idle)
  /\ UNCHANGED <<storeVars, mailed>>

\* Mutant: the mail takes what is on disk by now.
DeliverFromDisk(c) ==
  /\ issue[c].pc = "issued"
  /\ mailed' \in {mailed, mailed \cup {<<issue[c].inv, pdf[issue[c].inv]>>}}
  /\ Become(c, Idle)
  /\ UNCHANGED <<storeVars, pdf>>

\* Best effort, from the bytes of the request, not from the file.
DeliverInvoiceEmail(c) ==
  /\ issue[c].pc = "issued"
  /\ mailed' \in {mailed, mailed \cup {<<issue[c].inv, c>>}}
  /\ Become(c, Idle)
  /\ UNCHANGED <<storeVars, pdf>>

Reject(i) ==
  /\ MarkInvoiceRejected(i)
  /\ UNCHANGED <<issue, pdf, mailed>>

\* The process stops: what the request had done stays done.
Die(c) ==
  /\ issue[c] # Idle
  /\ Become(c, Idle)
  /\ UNCHANGED <<storeVars, pdf, mailed>>

\* A customer pays and asks for an invoice.
Customer ==
  /\ \E t \in Token :
       \/ EnsureWallet(t)
       \/ \E o \in Order : CreateOrder(o, t, NoWorkspace) \/ CreditPaidOrder(o, ordToken[o])
       \/ \E i \in Invoice, cny \in Claims : CreateInvoice(i, t, cny)
  /\ UNCHANGED <<issue, pdf, mailed>>

DeskNext ==
  \/ \E c \in Clerk :
       \/ \E i \in Invoice : CheckPending(c, i)
       \/ WritePDF(c) \/ Issue(c) \/ IssueRefused(c) \/ RemovePDF(c)
       \/ DeliverInvoiceEmail(c) \/ Die(c)
  \/ \E i \in Invoice : Reject(i)
  \/ Customer

DeskSpec == DeskInit /\ [][DeskNext]_deskVars
-----------------------------------------------------------------------------
(***************************************************************************)
(* Properties.                                                             *)
(***************************************************************************)

\* migrations.go: once issued, "they can download it again from the status
\* page"; download answers "pdf file missing" otherwise.
IssuedHasPDF == \A i \in Invoice : invoice[i].status = "issued" => pdf[i] # NoPDF

\* What a customer was mailed is an invoice that is issued, and there is one
\* of it: two requests for the same invoice never both deliver, and none
\* delivers a rejected one (handleIssueInvoice, MarkInvoiceIssued).
OneInvoiceMailed ==
  /\ \A m \in mailed : invoice[m[1]].status = "issued"
  /\ \A m, n \in mailed : m[1] = n[1] => m = n
=============================================================================
