# CPA-Claude: specifications, model checking and proofs

CPA-Claude is a reverse proxy in front of Claude and Codex credentials with a
prepaid billing tier: clients hold a token, the token holds a wallet, a request
is admitted on the wallet's balance, sent to one of many upstream credentials
with failover between them, and debited when it has been answered. Around this
stand a payment gateway (ZPay), teams with a shared pool, invoices, statements,
and an operator panel that can rotate and delete tokens and credentials.

This directory holds TLA+ modules written from the Go code, TLC configurations
that check them on small instances, and proofs that hold for every instance.
Line numbers in `PROJECT.json` tie every definition to the code it stands for.

## 1. Inventory

The parts of the system, what each keeps, and what makes it correct.

| Part | State | Operations | Hard behaviour | Correct when |
|---|---|---|---|---|
| SaaS store, `internal/saas/db` | SQLite: wallets, wallet_tx, alipay_orders, workspaces, workspace_members, workspace_tx, invoices, invoice_allocations, invoice_titles, pricing_groups, inbox | one function per transaction; `RekeyToken` moves eight tables at once | statements outside the transaction (EnsureWallet, read-backs), three sums over two tables for the invoice quota | balances equal their ledgers; an order is credited once; nobody is invoiced for more than was paid; a charge respects caps and pool |
| Top-ups, `billing/handlers.go`, `zpay.go` | none of its own; rows of the store, the trades of the gateway | CreateTopup, notify, orderCancel, ReconcileOrder, RunExpirySweeper | repeated and late notifications, the sweeper and the TTL racing a payment, a credit by a token read earlier | a payment in time is credited once; what is acknowledged is done; nothing closes an order without a cause |
| Team console, `billing/team.go` | rows of the store | addMember, patchMember, removeMember; caps | check and write in separate statements, two admins at once | no request takes the last admin from a team, or leaves a deleted token in one, unless another overtook it |
| Invoice requests, `billing/invoices.go`, `team_invoices.go` | rows of the store | create, team create | quota measured and claimed under concurrent changes | see the store |
| Statements and usage, `billing/usage.go`, `team_statement.go`, `team_requests.go`, `admin/statement.go`, `internal/statement` | caches of log aggregates, one per query key | usage and statement of a team, a page of its requests, statement of a token | two books that never agree exactly: the ledger, and a log that comes later, may lose rows and knows tokens by masks; members come and go between the queries | what was paid is in the statement; what is shown belongs to the team; a page hides no newer row |
| Operator: invoices, `admin/invoices.go` | a PDF per invoice on disk | issue, reject, mail | disk and database share no transaction | an issued invoice has its PDF; one version is mailed |
| Operator: tokens, workspaces, orders, `admin/admin.go`, `saas_admin.go` | the token store (file) | create, rotate, delete a token; create, patch a workspace; reconcile | rows and key in two stores, a rollback in a third step | money stays on tokens that exist |
| Admission and settlement, `server/proxy.go` forward, `saas_billing.go` | in-flight counters | PrecheckBalance, Begin/Release, SettleCharge | the balance is read long before it is debited; the token may rotate in between; the counter is raised before it is compared | overdraft is bounded; slots are returned, and no more requests are let through than the limit; a served request is debited |
| Failover, `server/proxy.go` forwardWithFailover, doForward, doForwardAnthropicAPIKey, `upstream_health.go` | tried set, deferred response, health of every credential | attempts, withheld responses, un-tries, markers of health | twelve attempts of many outcomes, a client that leaves, a stream that breaks | it ends; it serves or says why; a credential is blamed for its own failures only |
| Codex streams, `codex_oauth_proxy.go`, `codex_chat_bridge.go`, `codex_ws_egress.go` | what is held back of a stream; one idle socket per credential and conversation | withhold, let out, shed, settle; dial, reuse, discard a socket | a refusal that comes inside a 200; a socket left in the middle of a turn | the client gets what upstream sent, in order; a refusal can still go elsewhere; no frame of another turn |
| Codex sockets, `codex_ws.go`, `codex_session.go` | seats, in-flight counters, the table of response ids, per-turn counters | admission, first frame, pinning, reader, writer, biller, teardown | three goroutines that end a socket, a full queue of bills, a cut turn | each turn is billed once with its own usage; a cut answer never closes normally; a chain of responses stays in its group |
| Codex credentials, `codex_auth_reject.go`, `codex_model_guard.go`, `codexquota`, `upstream_health.go`, `admin/admin.go` | bearer and gate of each subscription, catalogue of models, strikes, pauses | confirm a rejection, mint, probe, publish, strike, absolve; the operator's switches | many requests learn of one rejected bearer; a probe that half fails; a 200 that breaks | a refresh token is shown once; a model is refused on full information; a relay that keeps breaking is paused |
| Monitor, `monitor/monitor.go` | results of probes | probe, classify | hysteresis | one flake does not change a status |
| Pricing, `db/groups.go`, `billing/exchange.go`, `cost.go`, `promo.go` | groups, rate cache, promotions | group of a wallet, multiplier, rate refresh | a group deleted while a wallet joins it; a stale rate | every wallet's group exists |
| Mail, `saas/resend`, `db/inbox.go` | inbox rows | webhook, lazy fetch of a body | duplicated webhooks | one row per mail |
| Rate limits | buckets per token | allow | a counter at its limit | a window admits its limit and no more |
| Config, backup, web interface, audit tool | none that others rely on | reading and rendering | none of concurrency | not a subject of TLA+ |

How they interact. Every handler is a goroutine of its own; the parts share the
SQLite store (opened with `_txlock=immediate`, so transactions are serial, and
everything between two of them is not), the token store, the request log, the
pool of credentials (`cc-core`, a library outside this repository) and
in-memory counters and caches. The gateway and the mail provider are the only
callers that retry.

## 2. Modules

| Module | Models | State and actions |
|---|---|---|
| `SaasStore` | `internal/saas/db` | one action per transaction; `StoreNext` lets any caller do anything at any time |
| `Settlement` | abstract promise of the top-ups | an order is opened, then paid once or closed for good; money enters by payment only |
| `TopUp` (extends SaasStore) | `billing/handlers.go`, the gateway | a `creator` per CreateTopup, an `applier` per applyNotification, one action per database call |
| `TeamAdmin` (extends SaasStore) | `billing/team.go`, `handleDeleteToken`, `handleCreateWorkspace` | a `req` per request, one action per database call |
| `Serving` (extends SaasStore) | `forward`, `saas_billing.go`, `handleResetToken` | a `call` per request, a `job` per rotation |
| `InvoiceDesk` (extends SaasStore) | `admin/invoices.go` | an `issue` per request, the PDF of each invoice, the mails |
| `Failover` | `forwardWithFailover`, `doForward`, `doForwardAnthropicAPIKey`, `doForwardCodex`, `doForwardCodexOAuth`, `doForwardCodexImages` | one action per way an attempt can go on; the loop's local variables under their names |
| `CodexRelay` (extends Failover) | `streamSSECodexBackend` and its kin, `codex_chat_bridge.go`, `codex_ws_egress.go` | one action per line read; Failover's "relay" taken apart |
| `CodexSocket` | `codex_ws.go`, the response table of `codex_session.go` | one action per step of the handler, the reader, the writer and the biller of each socket |
| `Credentials` | `codex_auth_reject.go`, `codex_model_guard.go`, `codexquota`, markers of `codex_proxy.go` and `upstream_health.go`, credential handlers of `admin.go` | a `req` per request, one `probe`, the operator |
| `Statements` | `usage.go`, `team_statement.go`, `team_requests.go`, `admin/statement.go`, `tokenmask` | the two books, the roster, and a `desk` that puts one answer together query by query |
| `*Proofs` | theorems about the module they are named after; `FailoverProofs` is about `Failover` and `CodexRelay`, `PanelProofs` about `InvoiceDesk` and `TeamAdmin` | |
| `MC*` | model values and symmetry for TLC | |

The modules that extend `SaasStore` use its transactions as sub-actions: a
step of a handler is the transaction it makes, with the local variables the
handler keeps across it in a record (`applier[a]` holds the order row as
`GetOrder` returned it, `call[c].bal` the balance as `PrecheckBalance` read it).
Anything else that can happen in the program can happen between two such steps.

### State of the store

Columns map to functions: `balance[t]` is `wallets.balance_usd`, `member[t]`
the workspace of the one member row `UNIQUE(token)` allows, `invoice[i]` a row
of `invoices`, `alloc[i][t]` the share of `t` in `invoice_allocations`. A
missing row is a value of its own (`t \notin wallets`, `NoWorkspace`,
`"absent"`), since several functions behave differently without one.
`wallet_tx` and `workspace_tx` are kept as their sums, except the top-up rows,
which `credits` and `creditTo` keep per order. The rollups behind the caps are
`usedDay` and `usedMonth`; `DayStart` is midnight in Beijing.

Money is an integer. The code computes in `float64` and rounds to six (dollars)
or two (yuan) decimals before the store sees an amount; differences below that
are outside the model.

### An attempt

`Failover` is the stretch that `Serving` takes in one step, between the
admission of a request and its debit. `sent` is the time from the
request to the status line, `relay` from there to the end of the answer,
`backoff` the wait before a credential is asked again. A forward function
returns `done` or `retry` and perhaps a withheld response; `Finish` and `Rotate`
are these two ways out. What an upstream answers is a choice: refused, refused
inside a 200, cut off before or after the first byte, complete with usage or
without. `req.shape` is the kind of answer, `stream` or one of three kinds of
body. A client that asked for a stream and is answered with a body is a body
here, for all attempts of a request. `voices` are the attempts that wrote to
the client, `blame` why failures were counted.

The pool belongs to `cc-core`. `Candidates` says what the loop relies on: no
excluded credential, no subscription if `apiKeyOnly`, keys only when
subscriptions are exhausted and the token allows it. `healthy` changes at any
time, since other requests use the same credentials. The replay of a Claude
request without its thinking blocks stays with one credential and writes
nothing; it is part of the attempt.

### The stream of an attempt

`CodexRelay` keeps `Failover`'s variables and adds what it abstracts from: the
lines `read` so far, those that are `held` (an event line that waits for its
data) or in the `preamble` (openers, withheld until something is said), why the
rest is withheld (`shed`), and what the client `heard`. A line is its part of an
event (`event`, `data`, `blank`), the kind of the event, and the attempt it
answers. An event whose code would end the client's session is passed on
`demoted`. The transport is `wire`: the conversation's idle socket, a new one,
or HTTP, for a while after a socket failed (`cooldown`). What remains unread in
a socket is `leftover`; `CloseBody` decides whether a socket goes back to the
pool. The collected answers (`req.shape = "whole"`) and the chat bridge
(`chat`) read the same stream with rules of their own.

### A socket of a client

In `CodexSocket` the handler's position is `stage`; `reader` and `writer` are
the two relaying goroutines, the biller is `queued` and `inhand`, and `inline`
is the turn the reader settles itself when the queue is full. `code` is the
first reason anybody gave to `stop`. Frames are `output`, `status` (dropped
before the client) and `final`; response ids are pairs of a socket and a turn.
`counts` runs over the whole socket and `billed` is what of it was handed to
billing: `TurnDelta` is the difference. Sockets of others appear through the
ids they mint (`Elsewhere`).

### What is believed of credentials

In `Credentials` the bearer of a subscription is a version number, `taken` the
oldest the backend still accepts, `gate` the holder of the refresh lock.
`rejected` and `forced` remember which bearers were refused and how many mints
that forced. `catalog` is what the model guard knows of the relays, `probe` the
refresh of it that runs in the background, `polled` the keys it was made from.
`strikes` count up to a pause (keys) or to retirement (subscriptions).

### An answer about spending

In `Statements` every request costs one unit, so a sum is a set of requests:
`charged` and `pooled` are the ledger, `log` the rows of the request log in
order, `lost` those that never came. A cached aggregate is what part of the log
it saw and which groupings it was asked for; `Answers` offers one of any age.
`desk` is the answer being built: `of` its members, `pool` and `own` what the
ledger said, `total`, `models` and `lines` what the log said, `waiting` the
members still to be asked. `owed` and `known` are the books as they were when it
was asked for, and `held` says that no member had left when the personal half of
the ledger was read; only properties use these three.

## 3. Runs

Bounds are named in the `.cfg` files. `MaxMoney` stops charges and adjustments
only (a guard `Fits`), never credits; it is large enough in every run for the
property's boundary to be crossed, which the mutants of `PROJECT.json`
demonstrate: each property is broken by a plausible bug in the code, under the
same bounds.

| Run | Instance | Shows |
|---|---|---|
| `SaasStore_charges` | 2 tokens, 1 workspace, cost 2, adjustments -1 and 1, caps 0 and 1, balances within -2..2 | ledgers balance and a charge stays within the caps in force and an enabled pool. Cost 2 against caps of 1 is the split of a charge over pool and wallet; two tokens are a rotation, or two members of one pool |
| `SaasStore_invoices` | 2 tokens, 1 workspace, 2 orders, 2 invoices of 2 or 4 yuan | an order is credited once, nobody is invoiced for more than was paid, the shares of a team invoice make its face value, end states are final. Two members with different payments are what the greedy split needs, two invoices what a quota used twice needs |
| `TopUp_settles` | 1 order, 1 creator, 2 appliers, 2 tokens, 1 workspace | the properties of the top-ups, that `TopUp` implements `Settlement`, and that a payment made in time is credited. Orders meet only in `ExpirePendingOrdersBefore` and in balances, which `SaasStore_invoices` has two of; two appliers are a notification beside a reconciliation or beside its own repetition |
| `TeamAdmin_races` | 3 tokens, 2 workspaces, 2 requests, failures on | only a request that was overtaken by the other one, or broke off, takes the last admin from a team, leaves a new workspace open without one, or leaves a deleted token in a team. Two admins and a stranger are what it takes for two to remove each other and a third to be invited |
| `Serving_paid` | 2 requests, 2 tokens, 1 workspace, 1 rotation, a limit of 1 in flight, failures on | overdraft, slots, wallets at settlement |
| `Serving_stranded` | 3 tokens, 2 rotations, 1 request | the finding of section 4 |
| `InvoiceDesk_mail` | 2 clerks, 2 invoices, failures on | what is mailed is issued, one version of it |
| `Failover_answers` | 1 request of any kind, 2 subscriptions, 1 key, 5 attempts, 1 retry for capacity | one attempt is heard and paid for; credentials are asked within bounds, and all of them before the loop gives up; it ends |
| `CodexRelay_stream` | 1 streamed, bridged or collected request, 1 subscription asked twice, up to 5 lines an attempt (`MaxRead`), 1 retry for capacity | what is withheld and let out, line by line; whose frames the client hears; and that all of it is a behaviour of `Failover` |
| `CodexSocket_turns` | 1 socket of up to 2 turns on a subscription or a plain key, a stranger's socket that mints ids in another group, a queue of 1 bill, up to 1 token reported per turn (`MaxUsage`) | bills are the turns, cut answers are told, chains stay in their group, seats are exact, a stopped socket is torn down |
| `Credentials_beliefs` | 2 requests, 1 subscription, 2 relays that offer different models, retirement after 3 rejections, a pause after 2 faults, 2 bearers (`MaxBearer`), 2 faults per key (`MaxFaults`), 2 events around them (`MaxEvents`) | one mint per rejected bearer, refusals on full information, a pause for a relay that keeps breaking |
| `Statements_books` | 5 tokens, two of them too short for a mask, 3 requests, 2 of them the pool's to pay for, a page of 1 row (`MaxLines`), 2 members asked one by one (`MaxFanout`), 1 lost row (`MaxLost`), 3 tokens that join and leave (`Mobile`) | nothing paid is missing, nobody else's rows are shown, the model table names every spender, a page is the newest |

Why these bounds. `Failover_answers` has 5 attempts where the code has 12: with
two subscriptions that may each be asked three times, and a key, both the
backstop and an empty pool end the loop. Requests meet only in the health of
credentials, so one is enough. `CodexRelay_stream` needs two attempts, for a
refusal and its successor and for a socket that is used again, and five lines:
an opener of two lines, then an event line, its data, and a line more. In
`CodexSocket_turns` a queue of one bill is full with two turns, so that the
reader settles one itself beside the biller. In `Credentials_beliefs` two
requests are what a shared bearer needs and two relays what a probe that half
fails needs. In `Statements_books` three members are one more than is asked one
by one, and two members' rows are one more than a page.

Deadlock is checked only where nothing can stop (`Statements_books`): the other
systems may stop (no order left to create, every token rotated away, an
answered request), and the program waits for requests then.

State spaces range up to 4.8 million states (`Statements_books`); the Codex
modules have 2.2 million (`CodexRelay_stream`), 1.6 million
(`Credentials_beliefs`) and 116 thousand (`CodexSocket_turns`).

### Fairness

`Failover` asks for weak fairness of `Step`, its own steps taken together, for
`Ends`: an upstream answers or its transport gives up, a timer fires. Nothing
is assumed of the client, the deadline or the health of credentials. That a
stream ends is part of the assumption: the loop bounds the start of an attempt,
not its length (`proxy.go`, comment on `failoverDeadline`).

`TopUp` states, for `PaidIsCredited`:

- strong fairness of a notification being read: the gateway repeats it until it
  is answered `success`, so a delivery that is possible again and again happens;
- weak fairness of a request's next step, or of its failure: a handler runs
  under a timeout and ends;
- strong fairness of the two statements that credit an order, per order: the
  database does not refuse the same order's statements for ever.

Nothing is assumed of users, of the sweeper, of operators or of rotations.

`CodexSocket` states weak fairness of `OwnStep` for each followed socket, for
`TearsDown`: a goroutine whose context is done notices (closing the connections
wakes the blocked reads), and the biller goes on. Upstream and client owe
nothing: `TearsDown` begins with the first `stop`.

### The properties, by hazard

- *Repeated deliveries*: `CreditedExactlyOnce`, `SettlesAsPromised`. The
  UPDATE guarded by `status = 'pending'` is the only protection; the top-up row
  is in the same transaction.
- *Lost deliveries*: `AckedIsClosed` (an acknowledged order is never left
  pending unless too old to be credited) and `PaidIsCredited`.
- *The clock*: `ClosedForCause`, `EndStatesAreFinal`.
- *Money and its history in different tables*: `LedgerBalanced`,
  `NeverOverInvoiced`, `SharesMakeFaceValue`, all across rotations.
- *Caps that move under the use they bound*: `ChargeWithinLimits`.
- *Check now, debit later*: `OverdraftBounded` says by how much a wallet can go
  below zero: by the requests that can be on their way together, each with its
  own cost, and the last of them started from a positive balance. Waived for
  team members (their check counts a pool that others use) and for a request
  whose check failed, which the code lets through. The in-flight limit does not
  bound it: a check made early outlasts any number of slots.
- *Two stores*: `WalletFoundAtSettlement` says when a served request goes
  unbilled for lack of a wallet: only after a check that failed or a rotation.
- *A counter with many exits*: `SlotsExact`, `SeatsExact`. `forward` and the
  socket raise the counter, then compare, and lower it when the handler
  returns. So it passes the limit while requests wait for their 429, and one of
  those can cost another request a slot that is free; what holds is that the
  counter is exact and that no more requests than the limit are let through.
- *A check in one statement, the write in another*: `OrphanedByLapse`,
  `DanglingByLapse`. Two requests at once can leave a team without an admin
  (section 4), and a failed statement can leave one open without any or with a
  deleted token. The properties say that nothing else can. `lapsed` holds the
  requests whose team has lost an admin, or whose target was changed, by the
  step of another since they began, and those a failed statement or the end of
  the process has cut short; whoever is not in it does no harm, however many
  others have.
- *Another attempt after the first byte*: `OneVoice`. Bytes are committed by a
  relay, a keepalive, a heartbeat timer or early headers, and each forward
  function decides for itself whether it may still rotate. What a stream holds
  back so that it may: `RefusalStaysHidden`, `StreamAsSent`,
  `ImplementsFailover`.
- *A socket used for the next turn*: `OwnFrames`.
- *Paying for attempts and turns*: `ChargedExactly`, across failed attempts,
  broken streams and answers without usage; `BilledTurnByTurn`, across a full
  queue and a torn socket.
- *Credentials put back*: `AskedWithinBounds`, and `Ends`.
- *Giving up*: `NotGivenUpEarly`, `RefusalIsReplayed`, `AnsweredOrLeft`.
- *Three goroutines that end one socket*: `HalfIsNeverNormal`, `TearsDown`.
- *Ids replayed by strangers*: `ChainStaysInGroup`.
- *Many requests, one rejected bearer*: `ForcedOncePerBearer`.
- *Information that is incomplete*: `RefusalIsInformed`.
- *A 200 that breaks*: `BrokenRelaysRest`. The status line of a broken 200 must
  not take off the strike that the break puts on.
- *Two books and caches of any age*: `NothingPaidIsMissing`,
  `ModelTableNamesEverySpender`; *masks that are not unique*: `TeamRowsOnly`;
  *pages that come in any order*: `PageIsTheNewest`.
- *Disk and database*: `OneInvoiceMailed`.

## 4. Where the code does not keep what it says

`Serving_stranded` is the run whose expectation is a violation; `PROJECT.json`
quotes the line it contradicts. Two rotations of one token: the second moves the
rows to its own new token, fails to swap a key that is gone, and moves them back
to the old token, which nobody can use.

Further configurations, each of one property that TLC finds violated, are kept
for the traces they give (`tlc -config MCX_y.cfg MCX`):

| Configuration, property | Trace |
|---|---|
| `MCTopUp_reported`, `ReportedIsPaid` | `ErrOrderNotPending` is read as "already credited", but an order is also not pending when it was cancelled, swept or expired between the read and the UPDATE. `ReconcileOrder` then tells an operator "credited" |
| `MCTeamAdmin_lastadmin`, `HasAdmin` | two admins of a team demote, remove or delete each other at once; each request counts two, and none is left |
| `MCServing_debt`, `OverdraftBounded` | the bound of `Serving_paid`, with two rotations of one token at a time. The first moves the rows of a wallet in debt to its new token; the old token is given a new wallet, funded, and a request is checked against that; the second moves the new rows away, the swap of one of the two fails, and `MoveRowsBack` puts the old debt on the token the request now debits |
| `MCInvoiceDesk_race`, `IssuedHasPDF` | two clerks issue one invoice; the loser removes the PDF, which has one name per invoice, after the winner's row is issued |
| `MCFailover_departure`, `LeavingBlamesNobody` | the non-streaming branch for Codex API keys drops the error of the body's read. A client that leaves cuts the body short, the body has no usage, and the key is reported with a 502 |
| `MCCodexSocket_cap`, `SessionsCapped` | `client_max_sessions` caps what a token holds (`config.go:389`), but `handleCodexResponsesWS` compares it at line 171 and takes the seat only after the wait for the first frame: two sockets that arrive together both pass a cap of one |
| `MCCodexRelay_break`, `BreakStaysOpen` | the comments at `codex_oauth_proxy.go:982-986` and `1234-1236` say that a break before any output can be retried elsewhere, but line 1237 flushes the openers on any error of the read, so a connection reset after nothing but `response.created` counts as heard |
| `MCCredentials_cancel`, `CancelLeavesUntouched` | `codex_proxy.go:498-500` says of a client that hangs up in the middle of a stream "leave the credential untouched", and `545-547` that it "is a success for the credential". The code does the second: `MarkSuccess` at line 554 wipes the strikes of the key. A relay whose streams break can so be kept from its pause by clients that leave; on the Claude side `markResponseHealth` leaves the credential alone |
| `MCStatements_short`, `StatementIsTheHoldersOwn` | `buildStatement` uses `maskToken(tok)` as the filter of the log (`admin/statement.go:201`) without asking whether the mask is opaque, which `tokenmask.go:19-22` demands and `usage.go` and `team_requests.go` do: the statement of a token of at most ten characters itemises the requests of all such tokens. Tokens minted here are longer; imported ones need not be |

Met while modelling, told by the modules but without a run of their own:

- A payment made in time whose notification comes after the sweeper (or after
  `OrderTTL`) is dropped and the notification acknowledged: the order is
  `deleted` or `expired`, the trade `settled`. `PaidIsCredited` has
  `o \in stale` as an alternative for this reason.
- A rotation between `GetOrder` and `CreditPaidOrder` credits the old token: its
  `EnsureWallet` makes a new, empty wallet there. The order row has moved. Only
  a rotation that is tried again moves the money, and `RekeyToken` refuses none.
- After a lost answer of the gateway `zpay.go` posts the same order number
  again.
- `MaxPendingPerUser` is compared with a count whose error is dropped, and two
  requests pass it together (`handlers.go:350`).
- A request in flight across a rotation finds no wallet, or one made anew, when
  it settles. `unbilled` and `moved` in `Serving` keep track.
- `WorkspaceAdminFor` does not look at `workspaces.disabled`, though its comment
  says "enabled": the admin of a disabled workspace is admitted
  (`Authenticate`; `workspace.go:333`).
- `patchMember` and `removeMember` find the member in the caller's workspace and
  then write by token alone (`ResolveMember`, `WriteMember`): one moved to
  another workspace in between is changed there.
- `addMember` and `patchMember` read the member back and use the result without
  looking at the error (`team.go:241`).
- The rollups behind the caps are read with their errors dropped: a read that
  fails counts as nothing used (`workspace.go:612`).
- A pricing group is deleted after its wallets were counted, while
  `EnsureWallet` or `SetWalletGroup` may attach another (`groups.go:125`).
- `doForward` takes any `context.Canceled` for a client that left, though
  `isClientDisconnect` (used everywhere else) says that a transport may cancel
  on its own and should be retried: a waiting client is told nothing. It is the
  exception in `AnsweredOrLeft`.
- The comment of `forwardWithFailover` says that the last withheld error is
  replayed. Codex refusals are dropped, never withheld (`Refuse`), and a Claude
  preparation failure drops what was withheld (`PrepareFails`).
- The Claude branches for bodies drop the error of the read as well: a body cut
  short by a client that left ends in `MarkSuccess`, where `markResponseHealth`
  says "never a success either".
- `aggregateCodexResponseStream` that was shed is retried without asking whether
  the client is still there; the next attempt finds out (`AggregateBreaks`).
- The wait for capacity returns without `pool.Release` when the client leaves
  (`WakeUp`); every other way out of an attempt that is not retried calls it.
- The chat bridge never sets the code of a shed stream (`ReadChatLine`), so its
  refusals are not told apart.
- The credential that `Bind` stores with a response id is never read; only its
  group is (`Bind`).
- A turn that was sent, and of which upstream has said nothing yet, ends with a
  normal closure when upstream closes (`EndOfStream`); a status frame between
  two turns sets `midTurn` and makes the next orderly end a retry (`ReadStatus`).
- Tokens reported in a turn that was cut are folded into the credential's ledger
  but never billed (`folded` beside `paid`).
- N requests that are refused the same bearer at once each add a strike to it
  (`Rejected`), so a burst counts like a series.
- `codexOAuthModelSet` leaves out disabled subscriptions and keeps those that
  are hard-failed (`TierNames`); a relay whose probe always fails freezes the
  catalogue (`ProbeFails`); a key that is new is not in the catalogue until the
  next round, and a request for its models is refused meanwhile (`Consult`).
- A credential that was deleted can have its file written again by a concurrent
  patch or refresh (`admin.go:1055`).
- `usage_test.go:172` calls a usage answer "three cuts of one number", but the
  cuts come from caches of different age (`TakeTotals`, `TakeCut`); the counts
  of the totals are then used as limits for the rows (`ReadLines`).
- Totals up to a minute old beside a ledger read afresh print an "unitemised"
  line for spending that does have a row (`Unitemised`).
- `reqCacheKey` (`admin.go:1882`) leaves `Dims` out of the key, though its
  comment wants every field that changes the result; one of its callers asks for
  a single grouping (`admin.go:1711`). The cache of `usage.go` has it (`KeyOf`).
- The roster is read before `MemberPersonalSpendBetween` joins it again
  (`ReadPersonal`): a member who leaves in between loses the personal half.
  `held` is the condition of `NothingPaidIsMissing` for this reason.

## 5. Proofs

Each theorem holds for all values of the constants that satisfy the module's
assumption. `PROJECT.json` lists the theorems; what follows is why they hold.
In every module there is one lemma per action or group of actions and one that
puts them together over the next-state relation.

`SaasStoreProofs` (`StoreAssumption`: disjoint name spaces, positive amounts)
proves `MoneyInvariant`, that is `RowsTypeOK /\ LedgerBalanced /\
CreditedExactlyOnce`, with `LedgersBalance` and `OrdersCreditedOnce` as its
parts, and the action properties `EndStatesStay` and
`ChargesStayWithinLimits`. `balance = walletTx` is kept by every write, but a
rotation adds the old token's row to whatever the new one has; that it has
nothing follows from "a token without a wallets row has nothing on its ledger",
which is therefore the second part of `LedgerBalanced`. That a credit raises
`credits` to one needs the status of the order to say how often it was credited.
For the charges, `PoolAvail` shows that what `MemberPoolAvail` offers is within
the caps and the pool, and `ChargeLimits` that a charge takes no more.

`BooksInvariant` adds the invoices: `StoreTypeOK`, `NeverOverInvoiced` and
`SharesMakeFaceValue` (`ClaimsInv`), of which `NobodyOverInvoiced` and
`SharesAddUp` are the parts. They need each other: a filing is bounded by what
is available under the sums as they are, and a rotation moves paid orders,
claims and shares of a token onto one that may have some already, so that the
quota has to hold of both before it holds of their sum (`RekeyKeeps`). Three
groups of lemmas carry this:

- the sums. `SumFunctionOnSet` is what TLC evaluates; `SumEmpty`, `SumInsert`,
  `SumSame`, `SumUnion`, `SumChange`, `SumMove` and the rest say what the
  proofs use of it. The induction over the finite set is the set of its subsets
  for which the claim holds, and a smallest one outside it (`Smallest`,
  `GrowSet`): no theorem with an operator parameter is needed;
- the split. `AllocateGives` says that the greedy split of a team invoice gives
  everybody at most what is available and adds up to the face value, by
  counting through its steps (`SplitExists`, `SplitStep`, `CountUp`);
- one lemma for each kind of write: filing, closing, rotating, and the rest,
  which only add to what was paid.

They assume `FiniteStore`: tokens, workspaces, orders and invoices are finite
sets, as the rows of a database are.

`TopUpProofs` proves of the handlers `AcknowledgedIsClosed`, `UnpaidForCause`,
`HandlersBalance` and `HandlersCreditOnce`. The books are those of
`SaasStoreProofs`, but the handlers credit the token they have read, which need
not be the order's any more: the lemmas about the credit are stated for any
token. `DeskInv` types what the requests have in hand, and `OrdersInv` relates
it to the rows: what was read as closed is closed. It survives everything else
because every step is `Onward`: an order's status only advances, an age is not
taken back, and an acknowledgement is never withdrawn.

`HandlersSettle` is the refinement: with the phase of an order read off its
row, and `Money` the sum of all balances and pools, every step of the
handlers is a step of `Settlement` or leaves phase and money alone. `MoneyMoves`
says that a rotation leaves the sum alone and a credit raises it by the amount
of the order, whichever wallet or pool takes it. `PhaseMoves` says what a phase
may become, and a sweep closes several orders in one step as `Settlement` allows
(`ClosePromised`).

`ServingProofs` proves the properties of `Serving_paid`.
`SlotsAreExact` counts, as `SeatsInv` does below; a request that is let through
has found the counter within the limit, and the counter is no less than those let
through. `ServedRequestsHaveWallets`
follows a token from its check on: it is unchecked, has a wallet, or has been
rotated away. `DebtsAreBounded` is about money that one request sees and others
take. Its invariant, `DebtInv`, says of every wallet without a team that its debt
is covered by the debits that are no longer owed: `Owes(c, t)` is how many a
request may still make of what it was admitted for, `Room(t)` the sum of what all
requests do not owe, and a balance is at least one (or zero, once the token was
rotated) minus `Room(t)` times the largest cost. A request is let through, and
takes up room, only with money in the wallet, where the bound starts anew; a
debit that takes money leaves room (`Pays`). `Returnable` says the same of rows that
a rotation may have to move back. The hypotheses are in `DebtHypotheses`: costs
have a maximum and operators only fund (a deduction by hand may go to any depth).
Besides, the theorem has `[]Apart` for hypothesis: rotations under way together have
no token in common, since two of one token break the bound (section 4). Rotations
of other tokens leave `Returnable` alone (`OthersReturnable`). With the one
rotation of run `Serving_paid`, `Apart` holds by itself. `RequestsBalance` carries
the ledgers of the store over to these requests and rotations. The number of
requests is not bounded, but finite and not zero
(`ServingAssumption`): goroutines of one process.

`FailoverProofs` (`FailoverAssumption`: disjoint sets, at least one attempt)
proves `FailoverInvariant`, and from it every safety property of
`Failover_answers`. `Shapes` sorts the actions of an attempt by what they do to
the loop (`Rotated`, `Finished`, `Continued`, `PutBack`, `Outside`), and one
lemma per part of the invariant looks at the shapes only. The parts that the
properties do not contain:

- `Voices`: a path that returns `retry` without asking whether anything has
  been written (`PrepareFails`) is on the Claude side, where nothing is written
  before the status line; hence the case `pc = "sent" /\ Claude`;
- `AskedCount`: how often a credential was asked is bounded by what is in
  `tried`, `staleRetried` and `shedRetried`, so that an un-try pays for itself;
- `Withheld`: a refusal is forgotten only together with the subscriptions.

TLC checked `FailoverInv` on the instance of `Failover_answers`.

Its second part is about `CodexRelay` and proves the refinement:
`RelayImplementsFailover`. Given that the request is one for Codex without keys
(`CodexRequest`, an invariant since the request never changes), every step of
the relay is a step of `Failover` or changes nothing it knows of.
`RelayKeepsFailover` is the consequence, and the three properties of the stream
build on it:

- `FrameInv` says that what is held, withheld or read is of the current attempt
  and what was heard of one in `voices`, which needs a pooled socket to be empty
  (`leftover`);
- `HiddenInv` follows the first refusal among the lines that were read;
- `ShownInv` cuts what was read into what is shown and the line that is held.
  That the held line is the last one and an event line (`EventLine`) is what a
  data line that joins it relies on (`HeldBelongs`), and that nothing is heard
  before anybody has spoken is what a second attempt starts from. `Shown` counts
  the visible lines instead of selecting them by recursion; that the k-th of
  them exists is not proved by induction over the lines but kept as a part of
  the invariant, line by line (`Counted`, `ShownNext`).

`CodexSocketProofs` proves all four safety properties of the sockets, each from
an invariant of its own:

- `HalfInv`: when something of an unfinished turn has been written, the reader
  knows that it is in the middle of a turn, and nobody has closed normally;
- `ChainInv`: the table holds ids under the group they were minted in, and
  forgetting only removes;
- `SeatsInv`: the number on a seat is the number of sockets at a stage that
  holds one, a cardinality, for which the set of sockets is finite;
- `TurnBooks` and `SocketBooks`: the running total is ahead of what was handed
  to billing by exactly the usage of the current turn, and each ended turn is
  queued, in hand, settled by the reader, or paid, in one of these places only.

`CredentialsProofs` proves `OneMintPerBearer`, `RefusalsAreInformed` and
`BrokenRelaysArePaused`. Mints are counted against `Replaced(s)`, the rejected
bearers that are older than the one held: the gate lets one request at a time
compare, and it mints only if the bearer it holds is the one that was refused,
which then joins the set. Operators who refresh by hand only make the comparison
fail. `GuardInv` says that a catalogue that is known is what the keys of
`polled` advertise, and that a probe under way has collected what the keys it
has asked advertise. `SlateInv` says that every fault since a relay last served
anyone is still on its slate; the fault that makes the count full pauses it.

`PanelProofs` proves `OneMailPerInvoice`: at most one clerk holds an invoice,
having issued it or mailed it (`Holds`), since the UPDATE takes only a row that
is not issued and nothing reopens one. Of `TeamAdmin` it proves `OrphansNeedALapse`
and `DanglersNeedALapse`, for any number of requests at once and with any
statement failing. The invariant, `TeamInv`, says what a request that has not
lapsed may rely on between its reads and its write (`Relies`): the team still has
an admin, the target is still where it was found and registered, a count of two
admins is still a count of two (`Spare`). A step of another request that changes
any of it makes this one lapse (`HoldsStill`); its own steps build it up from
what the code reads, and `JoinKeeps` and `ChangeKeeps` use it up. `Fresh` says
that a workspace without its first admin is known to the request that founds it
only, so that disabling it undoes the founding. TLC checked `TeamInv` on the
instance of `TeamAdmin_races`.

`StatementsProofs` proves the four properties of the answers, for any teams,
request sequences and limits:

- `Ledgered`: what was owed when the answer was asked for is on one side of the
  ledger or the other, for a request settled by then never changes sides;
- `OwnRows`: with `Opaque \notin Token`, a mask that is not shared is its
  token's own, so buckets contain nobody else's rows;
- `Named`: every spender of the totals is still to be asked for models or has
  some, or the answer is partial;
- `PagedBy`: a row of a member that was asked is on the page, or as many newer
  ones as the page holds are (`Shown`); merging keeps that (`MergeShows`), and
  so does cutting to the newest (`CutShows`), which rests on `NewestFills`: the
  newest k of a finite set are all of it or at least k. Its proof picks a row
  with the fewest newer ones among those cut off, by well-foundedness of strict
  inclusion.

Model-checked only: the liveness properties `PaidIsCredited`, `Ends` and
`TearsDown`, since temporal reasoning with fairness and ENABLED is beyond the
provers. Every safety and action property, and both refinements, that a run
checks is stated by a theorem. What the theorems do not cover is named by their
hypotheses, `DebtHypotheses` and `Apart` for the overdraft.
`MoneyOnLiveTokens` is not true and has none.

## 6. Not modelled, and why

- `cc-core` (credentials, pool, quotas, log) is a library outside the
  repository. The gateway, mail and the token store appear as what the code
  relies on.
- Rendering (PDF, CSV, HTML, the web interface), configuration, backup,
  logging: no state others depend on.
- Rewriting of requests and responses, among them the JSON of the chat bridge
  and `relay_fanout.go`: strings and JSON.
- Token counting and prepared Claude requests: the same, without state.
- Of the statements: deployments without a log or an index, which refuse or
  shorten the answers; the choice of a range by a target amount; pruning.
- Of the sockets: the contents of frames, and the marks that an outcome leaves
  on a credential's health.
- The admission of a session to a credential and its expiry by the janitor
  belong to `cc-core`'s pool; `CodexSocket` has its seats, and a pool that picks
  any credential.
- Errors of the store's reads that the code drops (rollups, pending count):
  reads succeed, except where a module's `MayFail` (`DbFails` in `TeamAdmin`)
  says otherwise.
- The signature and amount checks of notifications: those that fail change no
  state. `VerifyNotify` and `QueryTrade` let through what is genuine.

## 7. Plan

1. `Pricing`: groups and their wallets, the rate cache and promotions, so far a
   set of amounts.
2. `Monitor` (hysteresis of the probes) and `Inbox` (deduplication of mails).
3. Proofs: the books of `SaasStoreProofs` for the remaining modules that use its
   transactions (`TeamAdmin`, `InvoiceDesk`, and the invoices beside the top-up
   handlers).
4. The composition of `Credentials` and `Failover`, with health as what outcomes
   make of it instead of a choice.
