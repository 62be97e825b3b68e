----------------------------- MODULE Statements -----------------------------
(***************************************************************************)
(* What a client or a team is told it spent (billing/usage.go,             *)
(* team_statement.go, team_requests.go, admin/statement.go).               *)
(*                                                                         *)
(* The answers join two books.  The ledger is debited when a request       *)
(* settles; its row is appended to the request log afterwards, under the   *)
(* mask of the token, and may be lost.  Aggregates of the log are cached,  *)
(* each under the query that made it, while the ledger and the pages of    *)
(* rows are always read afresh, and requests settle and members come and   *)
(* go while an answer is being put together.                               *)
(*                                                                         *)
(* Every request costs one unit, so a sum is a set of requests; the time   *)
(* of a row is its place in the log.  An aggregate is known by how much of *)
(* the log it saw and by the groupings it was asked for.  Concurrent       *)
(* queries of one key share one pass over the log, which is one step here; *)
(* a cached answer may be of any age.  Left out: the deployments without a *)
(* log or an index, which refuse or shorten these answers, the choice of a *)
(* range by a target amount, and pruning.                                  *)
(***************************************************************************)
EXTENDS Naturals, Sequences, FiniteSets, TLC

CONSTANTS
  Token,       \* client tokens
  Short,       \* those too short for a mask of their own
  Founder,     \* the first members of the workspace
  Cost,        \* Cost[i] is the token of the i-th request to settle
  Shared,      \* the requests the pool pays for, if their token is a member
  MaxLines,    \* rows of a document or of a page (MaxDetailLines, limit)
  MaxFanout,   \* members asked one by one (maxFanoutMembers)
  Holder,      \* those who ask for a statement of their own
  Mobile,      \* bound: tokens that join the workspace or leave it
  MaxLost      \* bound: rows that never reach the log

\* What a token too short for a mask of its own is known by.
Opaque == "***"

ASSUME StatementAssumption ==
  /\ Short \subseteq Token /\ Founder \subseteq Token /\ Opaque \notin Token
  /\ Cost \in Seq(Token) /\ Shared \subseteq 1 .. Len(Cost)
  /\ {MaxLines, MaxFanout} \subseteq Nat \ {0} /\ Holder \subseteq Token
  /\ Mobile \subseteq Token
  /\ MaxLost \in Nat

VARIABLES
  charged,   \* requests settled: 1 .. charged
  pooled,    \* those of them in workspace_tx; the others are in wallet_tx
  log,       \* the requests that have a row, oldest first
  lost,      \* the requests whose row was lost
  roster,    \* members of the workspace
  desk       \* the answer being put together

vars == <<charged, pooled, log, lost, roster, desk>>
books == <<charged, pooled, log, lost>>

Request == 1 .. Len(Cost)

\* The request log knows a token by its mask, and all short ones by the same.
Mask(t) == IF t \in Short THEN Opaque ELSE t

At(r) == CHOOSE i \in DOMAIN log : log[i] = r
Rows(n) == {log[i] : i \in 1 .. n}
Bucket(n, mask) == {r \in Rows(n) : Mask(Cost[r]) = mask}
Newest(rows, k) ==
  {r \in rows : Cardinality({q \in rows : At(q) > At(r)}) < k}

(***************************************************************************)
(* The caches.  A key names the token asked about, or Fleet, and the       *)
(* groupings wanted: ByClient ("client"), or ByModel and ByDay ("cut").    *)
(* What a key holds is an answer made for it, some time ago or just now;   *)
(* the cut of a token is asked for only once it has been seen to have rows.*)
(***************************************************************************)
Fleet == "fleet"
\* Mutant: a key that forgets what was asked for.
KeyOfQuery(mask, dims) == <<mask>>

KeyOf(mask, dims) == <<mask, dims>>
Dims == {"client", "cut"}

Answers(mask, dims) ==
  {a \in [seen : 0 .. Len(log), dims : Dims] :
     /\ KeyOf(mask, a.dims) = KeyOf(mask, dims)
     /\ a.dims = "cut" => Bucket(a.seen, mask) # {}}

\* An answer has only the groupings it was asked for; the others are empty.
ByClient(answer, mask) == IF answer.dims = "client" THEN Bucket(answer.seen, mask) ELSE {}
ByModel(answer, mask) == IF answer.dims = "cut" THEN Bucket(answer.seen, mask) ELSE {}

(***************************************************************************)
(* The books.                                                              *)
(***************************************************************************)
Settle ==
  LET r == charged + 1
  IN /\ r \in Request
     /\ charged' = r
     /\ pooled' = IF r \in Shared /\ Cost[r] \in roster THEN pooled \cup {r} ELSE pooled
     /\ UNCHANGED <<log, lost, roster, desk>>

Unlogged == {r \in 1 .. charged : r \notin lost /\ \A i \in DOMAIN log : log[i] # r}

EmitLog(r) ==
  /\ r \in Unlogged
  /\ log' = Append(log, r)
  /\ UNCHANGED <<charged, pooled, lost, roster, desk>>

LoseRow(r) ==
  /\ r \in Unlogged /\ Cardinality(lost) < MaxLost
  /\ lost' = lost \cup {r}
  /\ UNCHANGED <<charged, pooled, log, roster, desk>>

Join(t) ==
  /\ t \in Mobile \ roster
  /\ roster' = roster \cup {t}
  /\ UNCHANGED <<books, desk>>

Leave(t) ==
  /\ t \in Mobile \cap roster
  /\ roster' = roster \ {t}
  /\ UNCHANGED <<books, desk>>

(***************************************************************************)
(* The desk: one answer at a time, for the team ("team"), for a page of    *)
(* the team's requests ("page"), or for one token ("token").               *)
(***************************************************************************)
Idle == [step |-> "idle", kind |-> "none", of |-> {}, held |-> FALSE, ledger |-> FALSE,
         pool |-> {}, own |-> {}, total |-> {}, models |-> {}, lines |-> {},
         waiting |-> {}, partial |-> FALSE, truncated |-> FALSE,
         owed |-> {}, known |-> 0]

\* What the answer will be measured by: the books as it was asked for.
Asked(kind, step) ==
  [Idle EXCEPT !.kind = kind, !.step = step, !.owed = 1 .. charged, !.known = Len(log)]

Open(kind) ==
  /\ desk.step = "idle"
  /\ desk' = Asked(kind, "roster")
  /\ UNCHANGED <<books, roster>>

Close ==
  /\ desk.step = "served"
  /\ desk' = Idle
  /\ UNCHANGED <<books, roster>>

Step(d) == desk' = d /\ UNCHANGED <<books, roster>>

(***************************************************************************)
(* Usage and statement of a team (BuildGroupUsage, buildGroupStatement).   *)
(***************************************************************************)
ListMembers ==
  /\ desk.step = "roster" /\ desk.kind = "team"
  /\ Step([desk EXCEPT !.of = roster, !.step = "pool"])

PooledBy(tokens) == {r \in pooled : Cost[r] \in tokens}
PaidBy(tokens) == {r \in (1 .. charged) \ pooled : Cost[r] \in tokens}

ReadPool ==
  /\ desk.step = "pool"
  /\ Step([desk EXCEPT !.pool = PooledBy(desk.of), !.step = "own"])

\* The personal half joins the members of the workspace as they are now.
ReadPersonal ==
  /\ desk.step = "own"
  /\ Step([desk EXCEPT !.own = PaidBy(desk.of \cap roster), !.step = "fleet",
                       !.held = desk.of \subseteq roster, !.ledger = TRUE])

LedgerFails ==
  /\ desk.step \in {"pool", "own"}
  /\ Step([desk EXCEPT !.step = "fleet", !.partial = TRUE])

\* Short tokens cannot be told apart in the log and count for nothing there.
\* Mutant: the guard on short tokens dropped.
Everyone == desk.of

Measurable == desk.of \ Short
Totals(answer) == UNION {ByClient(answer, Mask(t)) : t \in Measurable}
SpentBy(rows, t) == Cardinality({r \in rows : Cost[r] = t})

\* The members worth a query of their own, highest spenders first.
Biggest(tokens, rows) ==
  {s \in SUBSET tokens :
     /\ Cardinality(s) = MaxFanout \/ (s = tokens /\ Cardinality(s) < MaxFanout)
     /\ \A t \in s, u \in tokens \ s : SpentBy(rows, t) >= SpentBy(rows, u)}
Active(rows) == {t \in Measurable : SpentBy(rows, t) > 0}

PoolOutweighs(rows) == Cardinality({r \in desk.pool : Cost[r] \in Measurable}) > Cardinality(rows)

TakeTotals ==
  /\ desk.step = "fleet"
  /\ \E a \in Answers(Fleet, "client") :
       LET rows == Totals(a)
       IN \E s \in Biggest(Active(rows), rows) :
            Step([desk EXCEPT
                  !.total = rows, !.waiting = s, !.step = "cuts",
                  !.partial = \/ desk.partial \/ desk.of \cap Short # {}
                              \/ PoolOutweighs(rows) \/ s # Active(rows)])

TotalsFail ==
  /\ desk.step = "fleet"
  /\ Step([desk EXCEPT !.partial = TRUE, !.step = "cuts"])

\* One query for each of those members, in any order, merged into one table.
TakeCut(t) ==
  /\ desk.step = "cuts" /\ t \in desk.waiting
  /\ \E a \in Answers(t, "cut") :
       Step([desk EXCEPT !.models = @ \cup ByModel(a, t), !.waiting = @ \ {t}])

CutFails(t) ==
  /\ desk.step = "cuts" /\ t \in desk.waiting
  /\ Step([desk EXCEPT !.partial = TRUE, !.waiting = @ \ {t}])

\* A summary ends here; a full statement goes on to the rows, of the same
\* members.
CutsDone ==
  /\ desk.step = "cuts" /\ desk.waiting = {}
  /\ \/ Step([desk EXCEPT !.step = "served"])
     \/ \E s \in Biggest(Active(desk.total), desk.total) :
          Step([desk EXCEPT !.step = "lines", !.waiting = s])

LeastOf(a, b) == IF a < b THEN a ELSE b

\* As many rows as the totals say the member has, and the newest of all.
ReadLines(t) ==
  LET have == LeastOf(SpentBy(desk.total, t), MaxLines)
      page == Newest(Bucket(Len(log), t), have)
  IN /\ desk.step = "lines" /\ t \in desk.waiting
     /\ Step([desk EXCEPT !.lines = Newest(@ \cup page, MaxLines), !.waiting = @ \ {t}])

LinesFail ==
  /\ desk.step = "lines" /\ desk.waiting # {}
  /\ Step([desk EXCEPT !.lines = {}, !.partial = TRUE, !.waiting = {}, !.step = "served"])

LinesDone ==
  /\ desk.step = "lines" /\ desk.waiting = {}
  /\ Step([desk EXCEPT !.step = "served",
           !.truncated = Cardinality(desk.total) > Cardinality(desk.lines)])

(***************************************************************************)
(* A page of the team's requests, of all members or of one named by its    *)
(* mask.                                                                   *)
(***************************************************************************)
ListForPage(masks) ==
  LET named == {t \in roster \ Short : Mask(t) \in masks}
  IN /\ desk.step = "roster" /\ desk.kind = "page"
     /\ Step([desk EXCEPT !.of = named, !.waiting = named,
              !.step = IF Cardinality(named) > MaxFanout THEN "rank" ELSE "page"])

\* Too many members: those that spent most, or any if the totals fail.
TopSpenders ==
  /\ desk.step = "rank"
  /\ \E s \in SUBSET desk.of :
       /\ \/ \E a \in Answers(Fleet, "client") : s \in Biggest(desk.of, Totals(a))
          \/ Cardinality(s) = MaxFanout
       /\ Step([desk EXCEPT !.of = s, !.waiting = s, !.truncated = TRUE, !.step = "page"])

\* Each member is asked for a whole page and one row more.
PageOf(t) == Newest(Bucket(Len(log), Mask(t)), MaxLines + 1)

\* Mutant: more is announced only if a member had the row too many, not if the
\* merge cut one off.
ReadPageBySentinel(t) ==
  LET page == PageOf(t)
      merged == desk.lines \cup Newest(page, MaxLines)
  IN /\ desk.step = "page" /\ t \in desk.waiting
     /\ Step([desk EXCEPT
              !.lines = Newest(merged, MaxLines), !.waiting = @ \ {t},
              !.truncated = @ \/ Cardinality(page) > MaxLines])

ReadPage(t) ==
  LET page == PageOf(t)
      merged == desk.lines \cup Newest(page, MaxLines)
  IN /\ desk.step = "page" /\ t \in desk.waiting
     /\ Step([desk EXCEPT
              !.lines = Newest(merged, MaxLines), !.waiting = @ \ {t},
              !.truncated = @ \/ Cardinality(page) > MaxLines \/ Cardinality(merged) > MaxLines])

PageFails(t) ==
  /\ desk.step = "page" /\ t \in desk.waiting
  /\ Step([desk EXCEPT !.waiting = @ \ {t}, !.of = @ \ {t}])

PageDone ==
  /\ desk.step = "page" /\ desk.waiting = {}
  /\ Step([desk EXCEPT !.step = "served"])

(***************************************************************************)
(* The statement of one token (buildStatement, reconcileAgainstLedger).    *)
(* It has a cache of its own; a failed query ends it with an error.        *)
(***************************************************************************)
OpenToken(t) ==
  /\ desk.step = "idle"
  /\ desk' = [Asked("token", "sum") EXCEPT !.of = {t}]
  /\ UNCHANGED <<books, roster>>

TakeSum ==
  /\ desk.step = "sum"
  /\ \E t \in desk.of, n \in 0 .. Len(log) :
       Step([desk EXCEPT !.total = Bucket(n, Mask(t)), !.step = "rows"])

TakeRows ==
  /\ desk.step = "rows"
  /\ \E t \in desk.of, n \in 0 .. Len(log) :
       Step([desk EXCEPT !.lines = Newest(Bucket(n, Mask(t)), MaxLines), !.step = "reconcile"])

QueryRefused ==
  /\ desk.step \in {"sum", "rows"}
  /\ Step(Idle)

Reconcile ==
  /\ desk.step = "reconcile"
  /\ \E read \in BOOLEAN :
       Step([desk EXCEPT
             !.ledger = read, !.held = TRUE, !.step = "served",
             !.pool = IF read THEN PooledBy(desk.of) ELSE {},
             !.own = IF read THEN PaidBy(desk.of) ELSE {},
             !.truncated = Cardinality(desk.total) > Cardinality(desk.lines)])

(***************************************************************************)
(* The closing lines: what the ledger has beyond the itemised total is     *)
(* printed as a line of its own, never spread over the rows.               *)
(***************************************************************************)
\* Mutant: the personal half of the ledger forgotten.
ChargedToPool == Cardinality(desk.pool)

ChargedUSD == Cardinality(desk.pool) + Cardinality(desk.own)
Unitemised ==
  IF ChargedUSD > Cardinality(desk.total) THEN ChargedUSD - Cardinality(desk.total) ELSE 0

StatementsInit ==
  /\ charged = 0 /\ pooled = {} /\ log = <<>> /\ lost = {}
  /\ roster = Founder
  /\ desk = Idle

ForTeam ==
  \/ ListMembers \/ ReadPool \/ ReadPersonal \/ LedgerFails
  \/ TakeTotals \/ TotalsFail \/ CutsDone \/ LinesFail \/ LinesDone
  \/ \E t \in Token : TakeCut(t) \/ CutFails(t) \/ ReadLines(t)

ForPage ==
  \/ ListForPage({Mask(t) : t \in Token}) \/ \E t \in Token : ListForPage({Mask(t)})
  \/ TopSpenders \/ PageDone
  \/ \E t \in Token : ReadPage(t) \/ PageFails(t)

ForToken ==
  \/ \E t \in Holder : OpenToken(t)
  \/ TakeSum \/ TakeRows \/ QueryRefused \/ Reconcile

StatementsNext ==
  \/ Settle \/ (\E r \in Request : EmitLog(r) \/ LoseRow(r))
  \/ (\E t \in Token : Join(t) \/ Leave(t))
  \/ (\E kind \in {"team", "page"} : Open(kind)) \/ Close
  \/ ForTeam \/ ForPage \/ ForToken

StatementsSpec == StatementsInit /\ [][StatementsNext]_vars

(***************************************************************************)
(* Properties.                                                             *)
(***************************************************************************)
Served(kinds) == desk.step = "served" /\ desk.kind \in kinds
CostOf(tokens) == {r \in Request : Cost[r] \in tokens}

\* A statement that could read the ledger, of a roster that held still while
\* it did, never adds up to less than its people had been charged when it was
\* asked for: not when rows are lost or not yet written, nor when the totals
\* come from the cache, nor when a member's rows cannot be told apart.
NothingPaidIsMissing ==
  Served({"team", "token"}) /\ desk.ledger /\ desk.held =>
    Cardinality(desk.total) + Unitemised >= Cardinality(desk.owed \cap CostOf(desk.of))

\* What a team is shown was spent by the members the answer is about: no total,
\* model row or line is of a token outside, though all short ones share a mask.
TeamRowsOnly ==
  Served({"team", "page"}) =>
    desk.total \cup desk.models \cup desk.lines \subseteq CostOf(desk.of)

\* Whoever has a share in the totals has one in the table of models, unless the
\* answer says that it is partial.
ModelTableNamesEverySpender ==
  Served({"team"}) /\ ~desk.partial =>
    \A t \in desk.of : SpentBy(desk.total, t) > 0 => SpentBy(desk.models, t) > 0

\* A page shows no row while it withholds a newer one of the same members that
\* was there when it was asked for, and if it says there is no more, there was
\* not: whichever order the members' pages came in, as the log grew.
PageIsTheNewest ==
  Served({"page"}) =>
    LET there == Rows(desk.known) \cap CostOf(desk.of)
    IN /\ \A r \in desk.lines, q \in there : At(q) > At(r) => q \in desk.lines
       /\ desk.truncated \/ there \subseteq desk.lines

\* "the charge the wallet was debited" (admin/statement.go:30): the statement of
\* a token totals requests of that token.
StatementIsTheHoldersOwn ==
  Served({"token"}) => desk.total \subseteq CostOf(desk.of)
=============================================================================
