-------------------------- MODULE StatementsProofs --------------------------
(***************************************************************************)
(* Proofs about the usage answers and statements, for any teams, any       *)
(* sequence of requests and any limits.                                    *)
(*                                                                         *)
(* What an answer shows is followed from step to step: whose rows it has,  *)
(* which spending of the ledger it has seen, which members are still to be *)
(* asked.  For a page this is what "the newest rows" means half way        *)
(* through: a row of a member already asked is there, or as many newer     *)
(* ones as the page holds are (Shown), which merging and cutting keep.     *)
(***************************************************************************)
EXTENDS Statements, FiniteSetTheorems, SequenceTheorems, TLAPS

BooksInv ==
  /\ charged \in 0 .. Len(Cost) /\ pooled \subseteq 1 .. charged
  /\ log \in Seq(Request)
  /\ \A i, j \in 1 .. Len(log) : log[i] = log[j] => i = j
  /\ roster \subseteq Token

LogRows == Rows(Len(log))

LEMMA CostType == /\ Len(Cost) \in Nat /\ IsFiniteSet(Request)
                  /\ \A r \in Request : Cost[r] \in Token
  <1>1. Cost \in Seq(Token)
    BY StatementAssumption
  <1>2. Len(Cost) \in Nat /\ \A r \in 1 .. Len(Cost) : Cost[r] \in Token
    BY <1>1
  <1> QED BY <1>2, FS_Interval DEF Request

-----------------------------------------------------------------------------
(***************************************************************************)
(* Rows by age.                                                            *)
(***************************************************************************)
\* A row has one place in the log.
LEMMA AtType ==
  ASSUME BooksInv
  PROVE  /\ \A r \in LogRows : At(r) \in 1 .. Len(log) /\ log[At(r)] = r
         /\ LogRows \subseteq Request /\ Len(log) \in Nat
  <1>1. Len(log) \in Nat /\ DOMAIN log = 1 .. Len(log) /\ \A i \in 1 .. Len(log) : log[i] \in Request
    BY DEF BooksInv
  <1>2. ASSUME NEW r \in LogRows PROVE At(r) \in 1 .. Len(log) /\ log[At(r)] = r
    <2>1. \E i \in DOMAIN log : log[i] = r
      BY <1>1, <1>2 DEF LogRows, Rows
    <2> QED BY <1>1, <2>1 DEF At
  <1> QED BY <1>1, <1>2 DEF LogRows, Rows

\* The rows among some that are newer than a given one.
Newer(rows, q) == {x \in rows : At(x) > At(q)}

LEMMA RowsFinite ==
  ASSUME BooksInv, NEW B \in SUBSET LogRows, NEW q
  PROVE  /\ IsFiniteSet(B) /\ Cardinality(B) \in Nat
         /\ IsFiniteSet(Newer(B, q)) /\ Cardinality(Newer(B, q)) \in Nat
         /\ Cardinality(Newer(B, q)) <= Cardinality(B)
  <1>1. B \in SUBSET Request
    BY AtType
  <1>2. IsFiniteSet(B)
    BY <1>1, CostType, FS_Subset
  <1>3. Newer(B, q) \in SUBSET B
    BY DEF Newer
  <1> QED BY <1>2, <1>3, FS_Subset, FS_CardinalityType

\* The newest k rows are all there are, or as many as k.
LEMMA NewestFills ==
  ASSUME BooksInv, NEW B \in SUBSET LogRows, NEW k \in Nat
  PROVE  Newest(B, k) = B \/ Cardinality(Newest(B, k)) >= k
  <1> DEFINE N == Newest(B, k)
  <1>1. N \subseteq B /\ \A r \in B : r \in N <=> Cardinality(Newer(B, r)) < k
    BY DEF Newest, Newer
  <1>2. SUFFICES ASSUME N # B PROVE Cardinality(N) >= k
    OBVIOUS
  <1> HIDE DEF N
  <1>3. IsFiniteSet(B) /\ IsFiniteSet(N) /\ Cardinality(N) \in Nat
    BY <1>1, RowsFinite, FS_Subset, FS_CardinalityType
  <1> DEFINE T == {Newer(B, x) : x \in B \ N}
  <1>4. PICK x \in B \ N : \A y \in B \ N : ~(Newer(B, y) \subseteq Newer(B, x) /\ Newer(B, y) # Newer(B, x))
    <2>1. IsWellFoundedOn(StrictSubsetOrdering(B), SUBSET B)
      BY <1>3, FS_FiniteSubsetsOfFinite, FS_StrictSubsetOrderingWellFounded
    <2>2. T \subseteq SUBSET B /\ T # {}
      BY <1>1, <1>2 DEF Newer
    <2> HIDE DEF T
    <2>3. PICK m \in T : \A n \in T : ~ (<<n, m>> \in StrictSubsetOrdering(B))
      BY <2>1, <2>2, WFMin
    <2>4. \A n \in T : ~(n \subseteq m /\ n # m)
      BY <2>2, <2>3 DEF StrictSubsetOrdering
    <2> QED BY <2>3, <2>4 DEF T
  <1>5. Newer(B, x) \subseteq N
    <2> SUFFICES ASSUME NEW y \in Newer(B, x), y \notin N PROVE FALSE
      OBVIOUS
    <2>1. x \in LogRows /\ y \in B \ N /\ At(y) > At(x)
      BY DEF Newer
    <2>2. At(x) \in Nat /\ At(y) \in Nat /\ \A z \in B : At(z) \in Nat
      BY <2>1, AtType
    <2>3. Newer(B, y) \subseteq Newer(B, x) /\ y \notin Newer(B, y)
      BY <2>1, <2>2 DEF Newer
    <2> QED BY <1>4, <2>1, <2>3
  <1>6. Cardinality(Newer(B, x)) <= Cardinality(N) /\ Cardinality(Newer(B, x)) \in Nat
    BY <1>3, <1>5, FS_Subset, RowsFinite
  <1>7. ~(Cardinality(Newer(B, x)) < k)
    BY <1>1
  <1> QED BY <1>3, <1>6, <1>7 DEF N

\* A row is shown by a page of k when it is on it, or k newer ones are.
Shown(q, page, k) == q \in page \/ Cardinality(Newer(page, q)) >= k

\* Cutting a page to its newest k rows shows what it showed.
LEMMA CutShows ==
  ASSUME BooksInv, NEW B \in SUBSET LogRows, NEW k \in Nat, NEW q \in LogRows, Shown(q, B, k)
  PROVE  Shown(q, Newest(B, k), k)
  <1> DEFINE N == Newest(B, k)
  <1>1. N \subseteq B /\ \A r \in B : r \in N <=> Cardinality(Newer(B, r)) < k
    BY DEF Newest, Newer
  <1>2. N = B \/ Cardinality(N) >= k
    BY NewestFills
  <1> HIDE DEF N
  <1>3. SUFFICES ASSUME q \notin N, N # B PROVE Cardinality(Newer(N, q)) >= k
    BY DEF Shown, N
  <1>4. Cardinality(Newer(B, q)) >= k
    <2>1. Cardinality(Newer(B, q)) \in Nat
      BY RowsFinite
    <2>2. q \in B => ~(Cardinality(Newer(B, q)) < k)
      BY <1>1, <1>3
    <2> QED BY <2>1, <2>2 DEF Shown
  <1>5. N \subseteq Newer(N, q)
    <2> SUFFICES ASSUME NEW y \in N, ~(At(y) > At(q)) PROVE FALSE
      BY DEF Newer
    <2>1. At(q) \in Nat /\ \A z \in B : At(z) \in Nat
      BY AtType
    <2>2. Newer(B, q) \subseteq Newer(B, y)
      BY <1>1, <2>1 DEF Newer
    <2>3. Cardinality(Newer(B, q)) <= Cardinality(Newer(B, y))
      BY <2>2, RowsFinite, FS_Subset
    <2>4. Cardinality(Newer(B, y)) < k
      BY <1>1
    <2> QED BY <1>4, <2>3, <2>4, RowsFinite
  <1>6. Newer(N, q) = N
    BY <1>5 DEF Newer
  <1> QED BY <1>2, <1>3, <1>6

\* Merging more rows into a page shows what it showed.
LEMMA MergeShows ==
  ASSUME BooksInv, NEW B \in SUBSET LogRows, NEW A \in SUBSET B, NEW k \in Nat, NEW q, Shown(q, A, k)
  PROVE  Shown(q, B, k)
  <1>1. Newer(A, q) \in SUBSET Newer(B, q)
    BY DEF Newer
  <1>2. Cardinality(Newer(A, q)) <= Cardinality(Newer(B, q))
    BY <1>1, RowsFinite, FS_Subset
  <1>3. Cardinality(Newer(A, q)) \in Nat /\ Cardinality(Newer(B, q)) \in Nat
    BY RowsFinite
  <1> QED BY <1>2, <1>3 DEF Shown

\* Of k rows or fewer none is cut.
LEMMA ShortPageWhole ==
  ASSUME BooksInv, NEW B \in SUBSET LogRows, NEW k \in Nat, Cardinality(B) <= k
  PROVE  Newest(B, k) = B
  <1> SUFFICES ASSUME NEW x \in B PROVE Cardinality(Newer(B, x)) < k
    BY DEF Newest, Newer
  <1>1. At(x) \in Nat
    BY AtType
  <1>2. x \notin Newer(B, x) /\ Newer(B, x) \in SUBSET B
    BY <1>1 DEF Newer
  <1>3. Cardinality(Newer(B, x)) # Cardinality(B)
    BY <1>2, RowsFinite, FS_Subset
  <1> QED BY <1>3, RowsFinite

-----------------------------------------------------------------------------
(***************************************************************************)
(* The invariant of an answer.                                             *)
(***************************************************************************)
Steps == {"idle", "roster", "pool", "own", "fleet", "cuts", "lines", "rank", "page",
          "sum", "rows", "reconcile", "served"}
Kinds == {"none", "team", "page", "token"}

DeskType ==
  desk \in [step : Steps, kind : Kinds, of : SUBSET Token, held : BOOLEAN, ledger : BOOLEAN,
            pool : SUBSET Request, own : SUBSET Request, total : SUBSET Request,
            models : SUBSET Request, lines : SUBSET Request, waiting : SUBSET Token,
            partial : BOOLEAN, truncated : BOOLEAN, owed : SUBSET Request, known : Nat]

\* Each kind of answer has its steps, rows come after the members, and the
\* ledger is read late.
Placed ==
  /\ desk.step \in {"pool", "own", "fleet", "cuts", "lines"} => desk.kind = "team"
  /\ desk.step \in {"rank", "page"} => desk.kind = "page"
  /\ desk.step \in {"sum", "rows", "reconcile"} => desk.kind = "token"
  /\ desk.step = "roster" => desk.kind \in {"team", "page"}
  /\ desk.step = "idle" => desk.kind = "none"
  /\ desk.step \in {"roster", "pool", "own", "fleet", "rank"} =>
       desk.total = {} /\ desk.models = {} /\ desk.lines = {}
  /\ desk.step \in {"idle", "roster", "pool", "own", "sum", "rows", "reconcile"} => ~desk.ledger
  /\ desk.kind = "page" => ~desk.ledger /\ desk.total = {} /\ desk.models = {}
  /\ desk.step \in {"idle", "roster", "pool", "own", "fleet"} => desk.waiting = {}
  /\ desk.step = "rank" => desk.of \cap Short = {}
  /\ desk.kind = "page" /\ desk.step = "served" => desk.waiting = {}
  /\ desk.waiting \subseteq desk.of \ Short
  /\ desk.owed \subseteq 1 .. charged /\ desk.known <= Len(log)

\* The rows are of the members the answer is about; a page has those of the
\* members that have been asked.
OwnRows ==
  /\ desk.kind = "team" => desk.total \cup desk.models \cup desk.lines \subseteq CostOf(desk.of)
  /\ desk.kind = "page" => desk.lines \subseteq CostOf(desk.of \ desk.waiting)

\* What was owed when the answer was asked for is on one side of the ledger or
\* the other: a request settled by then does not change sides.
Ledgered ==
  /\ desk.step = "own" => desk.owed \cap CostOf(desk.of) \cap pooled \subseteq desk.pool
  /\ desk.ledger /\ desk.held => desk.owed \cap CostOf(desk.of) \subseteq desk.pool \cup desk.own

Has(rows, t) == \E r \in rows : Cost[r] = t

\* Every spender is still to be asked for models, or has some.
Named ==
  desk.kind = "team" /\ ~desk.partial =>
    /\ desk.step = "cuts" =>
         \A t \in desk.of : Has(desk.total, t) => t \in desk.waiting \/ Has(desk.models, t)
    /\ desk.step \in {"lines", "served"} =>
         \A t \in desk.of : Has(desk.total, t) => Has(desk.models, t)

There(d) == Rows(d.known) \cap CostOf(d.of \ d.waiting)

PagedBy(d) ==
  d.kind = "page" /\ d.step \in {"page", "served"} =>
    /\ d.lines \subseteq LogRows
    /\ \A r \in d.lines : Cardinality(Newer(d.lines, r)) < MaxLines
    /\ \A q \in There(d) : Shown(q, d.lines, MaxLines)
    /\ d.truncated \/ There(d) \subseteq d.lines

AnswerInv ==
  /\ BooksInv /\ DeskType /\ Placed /\ OwnRows /\ Ledgered /\ Named
  /\ PagedBy(desk)

\* An empty desk.
LEMMA StatementsInitInv == StatementsInit => AnswerInv
  <1> SUFFICES ASSUME StatementsInit PROVE AnswerInv
    OBVIOUS
  <1>1. BooksInv
    BY CostType, StatementAssumption DEF StatementsInit, BooksInv, Request
  <1>2. desk = Idle
    BY DEF StatementsInit
  <1>3. DeskType
    BY <1>2 DEF DeskType, Idle, Steps, Kinds
  <1>4. Len(log) = 0
    BY DEF StatementsInit
  <1>5. Placed /\ OwnRows /\ Ledgered /\ Named /\ PagedBy(desk)
    BY <1>2, <1>4 DEF Idle, Placed, OwnRows, Ledgered, Named, PagedBy
  <1> QED BY <1>1, <1>3, <1>5 DEF AnswerInv

-----------------------------------------------------------------------------
(***************************************************************************)
(* The books move on beneath an answer.                                    *)
(***************************************************************************)
LogGrows == log' = log \/ \E x : log' = Append(log, x)

\* Rows keep their place, and a prefix of the log its rows.
LEMMA PlacesKept ==
  ASSUME BooksInv, BooksInv', LogGrows
  PROVE  /\ LogRows \subseteq LogRows' /\ Len(log) <= Len(log)'
         /\ \A r \in LogRows : At(r)' = At(r)
         /\ \A n \in 0 .. Len(log) : Rows(n)' = Rows(n)
  <1>1. /\ Len(log) \in Nat /\ Len(log') \in Nat /\ Len(log) <= Len(log')
        /\ \A i \in 1 .. Len(log) : log'[i] = log[i]
    <2>1. CASE log' = log
      BY <2>1 DEF BooksInv
    <2>2. CASE \E x : log' = Append(log, x)
      <3>1. PICK x : log' = Append(log, x)
        BY <2>2
      <3>2. Len(log) \in Nat /\ Len(log') = Len(log) + 1 /\ \A i \in 1 .. Len(log) : log'[i] = log[i]
        BY <3>1 DEF BooksInv
      <3> QED BY <3>2
    <2> QED BY <2>1, <2>2 DEF LogGrows
  <1>2. \A n \in 0 .. Len(log) : Rows(n)' = Rows(n)
    BY <1>1 DEF Rows
  <1>3. LogRows \subseteq LogRows'
    BY <1>1 DEF LogRows, Rows
  <1>4. ASSUME NEW r \in LogRows PROVE At(r)' = At(r)
    <2>1. At(r) \in 1 .. Len(log) /\ log[At(r)] = r
      BY AtType
    <2>2. DOMAIN log' = 1 .. Len(log')
      BY DEF BooksInv
    <2>3. At(r) \in DOMAIN log' /\ log'[At(r)] = r
      BY <1>1, <2>1, <2>2
    <2>4. At(r)' \in DOMAIN log' /\ log'[At(r)'] = r
      BY <2>3 DEF At
    <2> QED BY <2>2, <2>3, <2>4 DEF BooksInv
  <1> QED BY <1>1, <1>2, <1>3, <1>4

\* What a page shows is not changed by rows that come after it was asked for.
LEMMA PagedNow ==
  ASSUME BooksInv, BooksInv', LogGrows, desk'.known \in 0 .. Len(log), PagedBy(desk')
  PROVE  PagedBy(desk)'
  <1> SUFFICES ASSUME desk'.kind = "page", desk'.step \in {"page", "served"}
               PROVE  /\ desk'.lines \subseteq LogRows'
                      /\ \A r \in desk'.lines : Cardinality(Newer(desk.lines, r)') < MaxLines
                      /\ \A q \in There(desk)' : Shown(q, desk.lines, MaxLines)'
                      /\ desk'.truncated \/ There(desk)' \subseteq desk'.lines
    BY DEF PagedBy
  <1>1. /\ desk'.lines \subseteq LogRows
        /\ \A r \in desk'.lines : Cardinality(Newer(desk'.lines, r)) < MaxLines
        /\ \A q \in There(desk') : Shown(q, desk'.lines, MaxLines)
        /\ desk'.truncated \/ There(desk') \subseteq desk'.lines
    BY DEF PagedBy
  <1>2. There(desk)' = There(desk')
    BY PlacesKept DEF There, CostOf
  <1>3. There(desk') \subseteq LogRows
    BY AtType DEF There, Rows, LogRows
  <1>4. ASSUME NEW q \in LogRows PROVE Newer(desk.lines, q)' = Newer(desk'.lines, q)
    BY <1>1, <1>4, PlacesKept DEF Newer
  <1>5. ASSUME NEW q \in There(desk') PROVE Shown(q, desk.lines, MaxLines)'
    BY <1>1, <1>3, <1>4, <1>5 DEF Shown
  <1> QED BY <1>1, <1>2, <1>4, <1>5, PlacesKept

\* A step of the books: one request settles, one row is written or lost, a
\* token joins or leaves.
LEMMA BooksKeep ==
  ASSUME AnswerInv,
         \/ Settle \/ \E r \in Request : EmitLog(r) \/ LoseRow(r)
         \/ \E t \in Token : Join(t) \/ Leave(t)
  PROVE  AnswerInv'
  <1>1. desk' = desk /\ LogGrows
    BY DEF Settle, EmitLog, LoseRow, Join, Leave, books, LogGrows
  <1>2. Len(Cost) \in Nat
    BY CostType
  <1>3. /\ charged' \in charged .. Len(Cost)
        /\ pooled' = pooled \/ (pooled' = pooled \cup {charged + 1} /\ charged' = charged + 1)
        /\ roster' \subseteq Token
    BY <1>2 DEF AnswerInv, BooksInv, Settle, EmitLog, LoseRow, Join, Leave, books, Request
  <1>4. log' \in Seq(Request) /\ \A i, j \in 1 .. Len(log') : log'[i] = log'[j] => i = j
    <2>1. CASE log' = log
      BY <2>1 DEF AnswerInv, BooksInv
    <2>2. ASSUME NEW r \in Request, EmitLog(r)
          PROVE  log' \in Seq(Request) /\ \A i, j \in 1 .. Len(log') : log'[i] = log'[j] => i = j
      <3>1. /\ log' = Append(log, r) /\ log \in Seq(Request) /\ Len(log) \in Nat
            /\ DOMAIN log = 1 .. Len(log) /\ \A i \in DOMAIN log : log[i] # r
        BY <2>2 DEF EmitLog, Unlogged, AnswerInv, BooksInv
      <3>2. /\ log' \in Seq(Request) /\ Len(log') = Len(log) + 1 /\ log'[Len(log) + 1] = r
            /\ \A i \in 1 .. Len(log) : log'[i] = log[i]
        BY <3>1, AppendProperties
      <3>3. ASSUME NEW i \in 1 .. Len(log'), NEW j \in 1 .. Len(log'), log'[i] = log'[j] PROVE i = j
        <4>1. /\ i \in 1 .. Len(log) \/ i = Len(log) + 1
              /\ j \in 1 .. Len(log) \/ j = Len(log) + 1
          BY <3>1, <3>2
        <4> QED BY <3>1, <3>2, <3>3, <4>1 DEF AnswerInv, BooksInv
      <3> QED BY <3>2, <3>3
    <2> QED BY <2>1, <2>2 DEF Settle, LoseRow, Join, Leave, books
  <1>5. BooksInv'
    <2>1. charged \in 0 .. Len(Cost) /\ pooled \subseteq 1 .. charged
      BY DEF AnswerInv, BooksInv
    <2>2. charged' \in 0 .. Len(Cost)
      BY <1>2, <1>3, <2>1
    <2>3. pooled' \subseteq 1 .. charged'
      <3>1. charged \in Nat /\ charged' \in Nat /\ charged <= charged'
        BY <1>2, <1>3, <2>1
      <3>2. 1 .. charged \subseteq 1 .. charged'
        BY <3>1
      <3>3. CASE pooled' = pooled \cup {charged + 1} /\ charged' = charged + 1
        BY <2>1, <3>1, <3>2, <3>3
      <3> QED BY <1>3, <2>1, <3>2, <3>3
    <2> QED BY <1>3, <1>4, <2>2, <2>3 DEF BooksInv
  <1>6. DeskType' /\ OwnRows' /\ Named'
    BY <1>1 DEF AnswerInv, DeskType, OwnRows, Named, CostOf, Has
  <1>7. charged \in Nat /\ desk.owed \subseteq 1 .. charged /\ charged + 1 \notin desk.owed
    BY <1>2 DEF AnswerInv, BooksInv, Placed
  <1>8. Ledgered'
    BY <1>1, <1>3, <1>7 DEF AnswerInv, Ledgered, CostOf
  <1>9. desk.known \in 0 .. Len(log) /\ Len(log) \in Nat
    BY AtType DEF AnswerInv, DeskType, Placed
  <1>10. Placed'
    <2>1. desk.known <= Len(log)' /\ desk.owed \subseteq 1 .. charged'
      BY <1>1, <1>3, <1>5, <1>7, <1>9, PlacesKept DEF AnswerInv
    <2> QED BY <1>1, <2>1 DEF AnswerInv, Placed
  <1>11. PagedBy(desk)'
    BY <1>1, <1>5, <1>9, PagedNow DEF AnswerInv
  <1> QED BY <1>5, <1>6, <1>8, <1>10, <1>11 DEF AnswerInv

-----------------------------------------------------------------------------
(***************************************************************************)
(* The rows of a token.                                                    *)
(***************************************************************************)
\* A token with a mask of its own is not confused with another.
LEMMA RowsOfToken ==
  ASSUME BooksInv, NEW n \in 0 .. Len(log), NEW t \in Token \ Short, NEW mask \in {t, Mask(t)}
  PROVE  Bucket(n, mask) \subseteq CostOf({t}) /\ Bucket(n, mask) \subseteq LogRows
  <1>1. mask = t /\ t # Opaque
    BY StatementAssumption DEF Mask
  <1>2. Bucket(n, mask) \subseteq LogRows
    BY AtType DEF Bucket, Rows, LogRows
  <1>3. ASSUME NEW r \in Request, Mask(Cost[r]) = mask PROVE Cost[r] = t
    BY <1>1, <1>3 DEF Mask
  <1> QED BY <1>2, <1>3, AtType DEF Bucket, CostOf

\* Nor is a member in the totals of the team.
LEMMA TotalsAreOurs ==
  ASSUME AnswerInv, NEW a \in Answers(Fleet, "client")
  PROVE  Totals(a) \subseteq CostOf(desk.of) /\ Totals(a) \subseteq Request
  <1>1. a.seen \in 0 .. Len(log)
    BY DEF Answers
  <1>2. desk.of \subseteq Token
    BY DEF AnswerInv, DeskType
  <1>3. ASSUME NEW t \in Measurable PROVE ByClient(a, Mask(t)) \subseteq CostOf({t})
    BY <1>1, <1>2, RowsOfToken DEF ByClient, Measurable, AnswerInv
  <1> QED BY <1>3 DEF Totals, Measurable, CostOf

LEMMA SpentIsHas ==
  ASSUME NEW rows \in SUBSET Request, NEW t
  PROVE  SpentBy(rows, t) > 0 <=> Has(rows, t)
  <1> DEFINE theirs == {r \in rows : Cost[r] = t}
  <1>1. IsFiniteSet(theirs)
    BY CostType, FS_Subset
  <1>2. Cardinality(theirs) \in Nat /\ (Cardinality(theirs) = 0 <=> theirs = {})
    BY <1>1, FS_CardinalityType, FS_EmptySet
  <1> QED BY <1>2 DEF SpentBy, Has

\* The rest of the invariant is about the answer alone.
LEMMA DeskKeeps ==
  ASSUME AnswerInv, UNCHANGED <<books, roster>>,
         DeskType', Placed', OwnRows', Ledgered', Named', PagedBy(desk')
  PROVE  AnswerInv'
  <1>1. log' = log /\ UNCHANGED <<charged, pooled>>
    BY DEF books
  <1>2. BooksInv'
    BY <1>1 DEF AnswerInv, BooksInv
  <1>3. desk'.known \in 0 .. Len(log)
    BY <1>1, AtType DEF AnswerInv, DeskType, Placed
  <1> QED BY <1>1, <1>2, <1>3, PagedNow DEF AnswerInv, LogGrows

\* An answer begun or put away.
LEMMA OpenKeeps ==
  ASSUME AnswerInv, UNCHANGED <<books, roster>>,
         \/ desk' = Idle
         \/ \E kind \in {"team", "page"} : desk' = Asked(kind, "roster")
         \/ \E t \in Token : desk' = [Asked("token", "sum") EXCEPT !.of = {t}]
  PROVE  AnswerInv'
  <1>1. Len(log) \in Nat /\ 1 .. charged \subseteq Request /\ UNCHANGED <<charged, pooled, log>>
    BY AtType, CostType DEF AnswerInv, BooksInv, Request, books
  <1>2. CASE desk' = Idle
    <2>1. DeskType'
      BY <1>2 DEF DeskType, Steps, Kinds, Idle
    <2>2. Placed'
      BY <1>1, <1>2 DEF Placed, Idle
    <2>3. OwnRows' /\ Ledgered' /\ Named'
      BY <1>2 DEF OwnRows, Ledgered, Named, Idle
    <2>4. PagedBy(desk')
      BY <1>2 DEF PagedBy, Idle
    <2> QED BY <2>1, <2>2, <2>3, <2>4, DeskKeeps
  <1>3. ASSUME NEW kind \in {"team", "page"}, desk' = Asked(kind, "roster") PROVE AnswerInv'
    <2>1. DeskType'
      BY <1>1, <1>3 DEF DeskType, Steps, Kinds, Idle, Asked
    <2>2. Placed'
      <3>1. /\ desk'.step = "roster" /\ desk'.kind = kind /\ desk'.of = {} /\ desk'.waiting = {}
            /\ desk'.total = {} /\ desk'.models = {} /\ desk'.lines = {} /\ ~desk'.ledger
            /\ desk'.owed = 1 .. charged /\ desk'.known = Len(log)
        BY <1>3 DEF Idle, Asked
      <3>2. charged' = charged /\ Len(log') = Len(log)
        BY <1>1
      <3> QED BY <1>1, <3>1, <3>2 DEF Placed
    <2>3. OwnRows' /\ Ledgered' /\ Named'
      BY <1>3 DEF OwnRows, Ledgered, Named, Idle, Asked
    <2>4. PagedBy(desk')
      BY <1>3 DEF PagedBy, Idle, Asked
    <2> QED BY <2>1, <2>2, <2>3, <2>4, DeskKeeps
  <1>4. ASSUME NEW t \in Token, desk' = [Asked("token", "sum") EXCEPT !.of = {t}] PROVE AnswerInv'
    <2>1. DeskType'
      BY <1>1, <1>4 DEF DeskType, Steps, Kinds, Idle, Asked
    <2>2. Placed'
      <3>1. /\ desk'.step = "sum" /\ desk'.kind = "token" /\ desk'.of = {t} /\ desk'.waiting = {}
            /\ desk'.total = {} /\ desk'.models = {} /\ desk'.lines = {} /\ ~desk'.ledger
            /\ desk'.owed = 1 .. charged /\ desk'.known = Len(log)
        BY <1>4 DEF Idle, Asked
      <3>2. charged' = charged /\ Len(log') = Len(log)
        BY <1>1
      <3> QED BY <1>1, <3>1, <3>2 DEF Placed
    <2>3. OwnRows' /\ Ledgered' /\ Named'
      BY <1>4 DEF OwnRows, Ledgered, Named, Idle, Asked
    <2>4. PagedBy(desk')
      BY <1>4 DEF PagedBy, Idle, Asked
    <2> QED BY <2>1, <2>2, <2>3, <2>4, DeskKeeps
  <1> QED BY <1>2, <1>3, <1>4

-----------------------------------------------------------------------------
(***************************************************************************)
(* The answer for a team.                                                  *)
(***************************************************************************)
\* The members, and the two halves of the ledger.
LEMMA LedgerKeeps ==
  ASSUME AnswerInv, ListMembers \/ ReadPool \/ ReadPersonal \/ LedgerFails
  PROVE  AnswerInv'
  <1>1. UNCHANGED <<books, roster>> /\ charged' = charged /\ pooled' = pooled /\ log' = log
    BY DEF ListMembers, ReadPool, ReadPersonal, LedgerFails, Step, books
  <1>2. DeskType /\ Placed /\ OwnRows /\ Ledgered /\ Named /\ roster \subseteq Token
        /\ 1 .. charged \subseteq Request /\ pooled \subseteq Request /\ charged \in Nat
    BY CostType DEF AnswerInv, BooksInv, Request
  <1>3. CASE ListMembers
    <2>1. /\ desk' = [desk EXCEPT !.of = roster, !.step = "pool"]
          /\ desk.step = "roster" /\ desk.kind = "team"
      BY <1>3 DEF ListMembers, Step
    <2>2. DeskType'
      BY <1>2, <2>1 DEF DeskType, Steps
    <2>3. desk.total = {} /\ desk.models = {} /\ desk.lines = {} /\ ~desk.ledger
      BY <1>2, <2>1 DEF Placed
    <2>4. Placed'
      BY <1>1, <1>2, <2>1, <2>3 DEF DeskType, Placed
    <2>5. OwnRows' /\ Ledgered' /\ Named'
      BY <1>1, <1>2, <2>1, <2>3 DEF DeskType, OwnRows, Ledgered, Named
    <2>6. PagedBy(desk')
      BY <1>2, <2>1 DEF DeskType, PagedBy
    <2> QED BY <1>1, <2>2, <2>4, <2>5, <2>6, DeskKeeps
  <1>4. CASE ReadPool
    <2>1. desk' = [desk EXCEPT !.pool = PooledBy(desk.of), !.step = "own"] /\ desk.step = "pool"
      BY <1>4 DEF ReadPool, Step
    <2>2. DeskType'
      BY <1>2, <2>1 DEF DeskType, Steps, PooledBy
    <2>3. Placed' /\ OwnRows' /\ Named'
      BY <1>1, <1>2, <2>1 DEF DeskType, Placed, OwnRows, Named, CostOf
    <2>4. Ledgered'
      BY <1>1, <1>2, <2>1 DEF DeskType, Placed, Ledgered, PooledBy, CostOf
    <2>5. PagedBy(desk')
      BY <1>2, <2>1 DEF DeskType, Placed, PagedBy
    <2> QED BY <1>1, <2>2, <2>3, <2>4, <2>5, DeskKeeps
  <1>5. CASE ReadPersonal
    <2>1. /\ desk' = [desk EXCEPT !.own = PaidBy(desk.of \cap roster), !.step = "fleet",
                                  !.held = desk.of \subseteq roster, !.ledger = TRUE]
          /\ desk.step = "own"
      BY <1>5 DEF ReadPersonal, Step
    <2>2. DeskType'
      BY <1>2, <2>1 DEF DeskType, Steps, PaidBy
    <2>3. Placed' /\ OwnRows' /\ Named'
      BY <1>1, <1>2, <2>1 DEF DeskType, Placed, OwnRows, Named, CostOf
    <2>4. /\ desk'.of = desk.of /\ desk'.owed = desk.owed /\ desk'.pool = desk.pool
          /\ desk'.own = PaidBy(desk.of \cap roster) /\ desk'.held = (desk.of \subseteq roster)
          /\ desk'.step = "fleet"
      BY <1>2, <2>1 DEF DeskType
    <2>5. ASSUME desk.of \subseteq roster, NEW r \in desk.owed, r \in CostOf(desk.of)
          PROVE  r \in desk'.pool \cup desk'.own
      BY <1>2, <2>1, <2>4, <2>5 DEF Ledgered, PaidBy, CostOf, Placed
    <2>6. Ledgered'
      BY <1>1, <2>4, <2>5 DEF Ledgered, CostOf
    <2>7. PagedBy(desk')
      BY <1>2, <2>1 DEF DeskType, Placed, PagedBy
    <2> QED BY <1>1, <2>2, <2>3, <2>6, <2>7, DeskKeeps
  <1>6. CASE LedgerFails
    <2>1. desk' = [desk EXCEPT !.step = "fleet", !.partial = TRUE] /\ desk.step \in {"pool", "own"}
      BY <1>6 DEF LedgerFails, Step
    <2>2. DeskType'
      BY <1>2, <2>1 DEF DeskType, Steps
    <2>3. Placed' /\ OwnRows' /\ Ledgered' /\ Named'
      BY <1>1, <1>2, <2>1 DEF DeskType, Placed, OwnRows, Ledgered, Named, CostOf
    <2>4. PagedBy(desk')
      BY <1>2, <2>1 DEF DeskType, Placed, PagedBy
    <2> QED BY <1>1, <2>2, <2>3, <2>4, DeskKeeps
  <1> QED BY <1>3, <1>4, <1>5, <1>6

\* The members with rows, of which the biggest are asked one by one.
LEMMA BiggestAreOurs ==
  ASSUME NEW tokens, NEW rows, NEW s \in Biggest(tokens, rows)
  PROVE  s \subseteq tokens
  BY DEF Biggest

\* The totals, of rows of the members; an answer that is not partial has a
\* query for each of those with any.
LEMMA TotalsKeep ==
  ASSUME AnswerInv, TakeTotals \/ TotalsFail
  PROVE  AnswerInv'
  <1>1. UNCHANGED <<books, roster>> /\ charged' = charged /\ pooled' = pooled /\ log' = log
    BY DEF TakeTotals, TotalsFail, Step, books
  <1>2. DeskType /\ Placed /\ OwnRows /\ Ledgered /\ Named /\ desk.step = "fleet"
    BY DEF AnswerInv, TakeTotals, TotalsFail
  <1>3. CASE TotalsFail
    <2>1. desk' = [desk EXCEPT !.partial = TRUE, !.step = "cuts"]
      BY <1>3 DEF TotalsFail, Step
    <2>2. DeskType' /\ Placed' /\ OwnRows' /\ Ledgered' /\ Named'
      BY <1>1, <1>2, <2>1 DEF DeskType, Steps, Placed, OwnRows, Ledgered, Named, CostOf
    <2>3. PagedBy(desk')
      BY <1>2, <2>1 DEF DeskType, Placed, PagedBy
    <2> QED BY <1>1, <2>2, <2>3, DeskKeeps
  <1>4. CASE TakeTotals
    <2>1. PICK a \in Answers(Fleet, "client") : \E s \in Biggest(Active(Totals(a)), Totals(a)) :
            desk' = [desk EXCEPT
                     !.total = Totals(a), !.waiting = s, !.step = "cuts",
                     !.partial = \/ desk.partial \/ desk.of \cap Short # {}
                                 \/ PoolOutweighs(Totals(a)) \/ s # Active(Totals(a))]
      BY <1>4 DEF TakeTotals, Step
    <2> DEFINE rows == Totals(a)
    <2>2. rows \subseteq CostOf(desk.of) /\ rows \subseteq Request
      BY TotalsAreOurs
    <2>3. \A t \in Measurable : t \in Active(rows) <=> Has(rows, t)
      BY <2>2, SpentIsHas DEF Active
    <2>4. Active(rows) \subseteq desk.of \ Short /\ desk.of \subseteq Token
          /\ (desk.of \cap Short = {} => Measurable = desk.of)
      BY <1>2 DEF Active, Measurable, DeskType
    <2> HIDE DEF rows
    <2>5. PICK s \in SUBSET Active(rows) :
            desk' = [desk EXCEPT
                     !.total = rows, !.waiting = s, !.step = "cuts",
                     !.partial = \/ desk.partial \/ desk.of \cap Short # {}
                                 \/ PoolOutweighs(rows) \/ s # Active(rows)]
      BY <2>1, BiggestAreOurs DEF rows
    <2>6. /\ desk'.step = "cuts" /\ desk'.total = rows /\ desk'.waiting = s
          /\ desk'.kind = desk.kind /\ desk'.of = desk.of /\ desk'.models = desk.models
          /\ desk'.lines = desk.lines /\ desk'.ledger = desk.ledger /\ desk'.held = desk.held
          /\ desk'.pool = desk.pool /\ desk'.own = desk.own /\ desk'.owed = desk.owed
          /\ desk'.known = desk.known
          /\ ~desk'.partial => s = Active(rows) /\ desk.of \cap Short = {}
      BY <1>2, <2>5 DEF DeskType
    <2>7. DeskType'
      BY <1>2, <2>2, <2>4, <2>5 DEF DeskType, Steps
    <2>8. Placed' /\ OwnRows' /\ Ledgered'
      BY <1>1, <1>2, <2>2, <2>4, <2>6 DEF Placed, OwnRows, Ledgered, CostOf
    <2>9. Named'
      BY <2>3, <2>4, <2>6 DEF Named, Has
    <2>10. PagedBy(desk')
      BY <1>2, <2>6 DEF PagedBy
    <2> QED BY <1>1, <2>7, <2>8, <2>9, <2>10, DeskKeeps
  <1> QED BY <1>3, <1>4

\* The cuts by model, of tokens that have rows.
LEMMA CutKeeps ==
  ASSUME AnswerInv, NEW t \in Token, TakeCut(t) \/ CutFails(t)
  PROVE  AnswerInv'
  <1>1. UNCHANGED <<books, roster>> /\ charged' = charged /\ pooled' = pooled /\ log' = log
    BY DEF TakeCut, CutFails, Step, books
  <1>2. DeskType /\ Placed /\ OwnRows /\ Ledgered /\ Named /\ desk.step = "cuts" /\ t \in desk.waiting
    BY DEF AnswerInv, TakeCut, CutFails
  <1>3. CASE CutFails(t)
    <2>1. desk' = [desk EXCEPT !.partial = TRUE, !.waiting = @ \ {t}]
      BY <1>3 DEF CutFails, Step
    <2>2. DeskType' /\ Placed' /\ OwnRows' /\ Ledgered' /\ Named'
      <3>1. DeskType'
        BY <1>1, <1>2, <2>1 DEF DeskType, Steps
      <3>2. Placed'
        BY <1>1, <1>2, <2>1 DEF DeskType, Placed
      <3>3. OwnRows' /\ Ledgered' /\ Named'
        BY <1>1, <1>2, <2>1 DEF DeskType, Placed, OwnRows, Ledgered, Named, CostOf
      <3> QED BY <3>1, <3>2, <3>3
    <2>3. PagedBy(desk')
      BY <1>2, <2>1 DEF DeskType, Placed, PagedBy
    <2> QED BY <1>1, <2>2, <2>3, DeskKeeps
  <1>4. CASE TakeCut(t)
    <2>1. PICK a \in Answers(t, "cut") :
            desk' = [desk EXCEPT !.models = @ \cup ByModel(a, t), !.waiting = @ \ {t}]
      BY <1>4 DEF TakeCut, Step
    <2>2. a.seen \in 0 .. Len(log) /\ a.dims = "cut" /\ Bucket(a.seen, t) # {}
      BY DEF Answers, KeyOf
    <2> DEFINE rows == ByModel(a, t)
    <2>3. rows = Bucket(a.seen, t) /\ rows # {}
      BY <2>2 DEF ByModel
    <2>4. t \in desk.of \ Short
      BY <1>2 DEF Placed
    <2>5. rows \subseteq CostOf({t}) /\ rows \subseteq Request
      BY <2>2, <2>3, <2>4, RowsOfToken DEF AnswerInv, CostOf
    <2> HIDE DEF rows
    <2>6. desk' = [desk EXCEPT !.models = @ \cup rows, !.waiting = @ \ {t}]
      BY <2>1 DEF rows
    <2>7. /\ desk'.step = "cuts" /\ desk'.total = desk.total /\ desk'.waiting = desk.waiting \ {t}
          /\ desk'.kind = desk.kind /\ desk'.of = desk.of /\ desk'.models = desk.models \cup rows
          /\ desk'.lines = desk.lines /\ desk'.ledger = desk.ledger /\ desk'.held = desk.held
          /\ desk'.pool = desk.pool /\ desk'.own = desk.own /\ desk'.owed = desk.owed
          /\ desk'.known = desk.known /\ desk'.partial = desk.partial
      BY <1>2, <2>6 DEF DeskType
    <2>8. DeskType'
      BY <1>2, <2>5, <2>6 DEF DeskType
    <2>9. Placed' /\ OwnRows' /\ Ledgered'
      BY <1>1, <1>2, <2>4, <2>5, <2>7 DEF Placed, OwnRows, Ledgered, CostOf
    <2>10. Has(rows, t)
      BY <2>3, <2>5 DEF Has, CostOf
    <2>11. Named'
      BY <1>2, <2>7, <2>10 DEF Named, Has
    <2>12. PagedBy(desk')
      BY <1>2, <2>7 DEF PagedBy
    <2> QED BY <1>1, <2>8, <2>9, <2>11, <2>12, DeskKeeps
  <1> QED BY <1>3, <1>4

\* From the cuts to the rows, or to the end.
LEMMA CutsDoneKeeps == ASSUME AnswerInv, CutsDone PROVE AnswerInv'
  <1>1. UNCHANGED <<books, roster>> /\ charged' = charged /\ pooled' = pooled /\ log' = log
    BY DEF CutsDone, Step, books
  <1>2. DeskType /\ Placed /\ OwnRows /\ Ledgered /\ Named /\ desk.step = "cuts" /\ desk.waiting = {}
    BY DEF AnswerInv, CutsDone
  <1>3. CASE desk' = [desk EXCEPT !.step = "served"]
    <2>1. DeskType' /\ Placed' /\ OwnRows' /\ Ledgered' /\ Named'
      BY <1>1, <1>2, <1>3 DEF DeskType, Steps, Placed, OwnRows, Ledgered, Named, CostOf
    <2>2. PagedBy(desk')
      BY <1>2, <1>3 DEF DeskType, Placed, PagedBy
    <2> QED BY <1>1, <2>1, <2>2, DeskKeeps
  <1>4. ASSUME NEW s \in Biggest(Active(desk.total), desk.total),
               desk' = [desk EXCEPT !.step = "lines", !.waiting = s]
        PROVE  AnswerInv'
    <2>1. s \subseteq desk.of \ Short /\ desk.of \subseteq Token
      BY <1>2, BiggestAreOurs DEF Active, Measurable, DeskType
    <2>2. DeskType' /\ Placed' /\ OwnRows' /\ Ledgered' /\ Named'
      <3>1. DeskType'
        BY <1>1, <1>2, <1>4, <2>1 DEF DeskType, Steps
      <3>2. Placed'
        BY <1>1, <1>2, <1>4, <2>1 DEF DeskType, Placed
      <3>3. OwnRows' /\ Ledgered' /\ Named'
        BY <1>1, <1>2, <1>4, <2>1 DEF DeskType, Placed, OwnRows, Ledgered, Named, CostOf
      <3> QED BY <3>1, <3>2, <3>3
    <2>3. PagedBy(desk')
      BY <1>2, <1>4 DEF DeskType, Placed, PagedBy
    <2> QED BY <1>1, <2>2, <2>3, DeskKeeps
  <1> QED BY <1>3, <1>4 DEF CutsDone, Step

\* The rows of a full statement.
LEMMA LinesKeep ==
  ASSUME AnswerInv, (\E t \in Token : ReadLines(t)) \/ LinesFail \/ LinesDone
  PROVE  AnswerInv'
  <1>1. UNCHANGED <<books, roster>> /\ charged' = charged /\ pooled' = pooled /\ log' = log
    BY DEF ReadLines, LinesFail, LinesDone, Step, books
  <1>2. DeskType /\ Placed /\ OwnRows /\ Ledgered /\ Named /\ desk.step = "lines"
    BY DEF AnswerInv, ReadLines, LinesFail, LinesDone
  <1>3. ASSUME NEW t \in Token, ReadLines(t) PROVE AnswerInv'
    <2> DEFINE page == Newest(Bucket(Len(log), t), LeastOf(SpentBy(desk.total, t), MaxLines))
               shown == Newest(desk.lines \cup page, MaxLines)
    <2>1. t \in desk.of \ Short /\ t \in desk.waiting
      BY <1>2, <1>3 DEF ReadLines, Placed
    <2>2. page \subseteq CostOf({t})
      <3>1. BooksInv /\ Len(log) \in 0 .. Len(log) /\ t \in Token \ Short /\ t \in {t, Mask(t)}
        BY <1>3, <2>1, AtType DEF AnswerInv
      <3>2. Bucket(Len(log), t) \subseteq CostOf({t})
        BY <3>1, RowsOfToken
      <3> QED BY <3>2 DEF Newest
    <2>3. desk' = [desk EXCEPT !.lines = shown, !.waiting = @ \ {t}]
      BY <1>3 DEF ReadLines, Step
    <2>4. shown \subseteq desk.lines \cup page
      BY DEF Newest
    <2> HIDE DEF page, shown
    <2>5. DeskType' /\ Placed' /\ OwnRows' /\ Ledgered' /\ Named'
      <3>1. DeskType'
        BY <1>1, <1>2, <2>1, <2>2, <2>3, <2>4 DEF DeskType, Steps, CostOf
      <3>2. Placed'
        BY <1>1, <1>2, <2>1, <2>2, <2>3, <2>4 DEF DeskType, Placed
      <3>3. OwnRows' /\ Ledgered' /\ Named'
        BY <1>1, <1>2, <2>1, <2>2, <2>3, <2>4 DEF DeskType, Placed, OwnRows, Ledgered, Named, CostOf
      <3> QED BY <3>1, <3>2, <3>3
    <2>6. PagedBy(desk')
      BY <1>2, <2>3 DEF DeskType, Placed, PagedBy
    <2> QED BY <1>1, <2>5, <2>6, DeskKeeps
  <1>4. CASE LinesFail
    <2>1. desk' = [desk EXCEPT !.lines = {}, !.partial = TRUE, !.waiting = {}, !.step = "served"]
      BY <1>4 DEF LinesFail, Step
    <2>2. DeskType'
      BY <1>2, <2>1 DEF DeskType, Steps
    <2>3. Placed'
      BY <1>1, <1>2, <2>1 DEF DeskType, Placed
    <2>4. OwnRows' /\ Ledgered' /\ Named'
      BY <1>1, <1>2, <2>1 DEF DeskType, Placed, OwnRows, Ledgered, Named, CostOf
    <2>5. PagedBy(desk')
      BY <1>2, <2>1 DEF DeskType, Placed, PagedBy
    <2> QED BY <1>1, <2>2, <2>3, <2>4, <2>5, DeskKeeps
  <1>5. CASE LinesDone
    <2> DEFINE more == Cardinality(desk.total) > Cardinality(desk.lines)
    <2>1. desk' = [desk EXCEPT !.step = "served", !.truncated = more]
      BY <1>5 DEF LinesDone, Step
    <2>2. more \in BOOLEAN
      OBVIOUS
    <2> HIDE DEF more
    <2>3. DeskType'
      BY <1>2, <2>1, <2>2 DEF DeskType, Steps
    <2>4. Placed' /\ OwnRows' /\ Ledgered' /\ Named'
      BY <1>1, <1>2, <2>1 DEF DeskType, Placed, OwnRows, Ledgered, Named, CostOf
    <2>5. PagedBy(desk')
      BY <1>2, <2>1 DEF DeskType, Placed, PagedBy
    <2> QED BY <1>1, <2>3, <2>4, <2>5, DeskKeeps
  <1> QED BY <1>3, <1>4, <1>5

-----------------------------------------------------------------------------
(***************************************************************************)
(* A page.                                                                 *)
(***************************************************************************)
\* The members of a page, before any of them has been asked.
LEMMA PageBegins ==
  ASSUME AnswerInv, desk.kind = "page", desk.lines = {}, NEW s \in SUBSET (Token \ Short),
         NEW more \in BOOLEAN, NEW where \in {"rank", "page"}, UNCHANGED <<books, roster>>,
         desk' = [desk EXCEPT !.of = s, !.waiting = s, !.truncated = more, !.step = where]
  PROVE  AnswerInv'
  <1>1. UNCHANGED <<charged, pooled, log>> /\ DeskType /\ Placed /\ OwnRows /\ Ledgered
    BY DEF books, AnswerInv
  <1>2. DeskType'
    BY <1>1 DEF DeskType, Steps
  <1>3. /\ desk'.of = s /\ desk'.waiting = s /\ desk'.step = where /\ desk'.lines = {}
        /\ desk'.kind = "page" /\ desk'.total = {} /\ desk'.models = {} /\ ~desk'.ledger
        /\ desk'.owed = desk.owed /\ desk'.known = desk.known
    BY <1>1 DEF DeskType, Placed
  <1>4. Placed'
    BY <1>1, <1>3 DEF Placed
  <1>5. OwnRows' /\ Ledgered' /\ Named'
    BY <1>3 DEF OwnRows, Ledgered, Named
  <1>6. There(desk') = {}
    BY <1>1, <1>3, CostType DEF There, CostOf
  <1>7. PagedBy(desk')
    BY <1>3, <1>6 DEF PagedBy
  <1> QED BY <1>2, <1>4, <1>5, <1>7, DeskKeeps

\* All members, or the one that was named, or the biggest.
LEMMA ListKeeps ==
  ASSUME AnswerInv, (\E masks : ListForPage(masks)) \/ TopSpenders
  PROVE  AnswerInv'
  <1>1. UNCHANGED <<books, roster>> /\ DeskType /\ Placed /\ roster \subseteq Token
    BY DEF ListForPage, TopSpenders, Step, AnswerInv, BooksInv
  <1>2. ASSUME NEW masks, ListForPage(masks) PROVE AnswerInv'
    <2> DEFINE named == {t \in roster \ Short : Mask(t) \in masks}
               where == IF Cardinality(named) > MaxFanout THEN "rank" ELSE "page"
    <2>1. desk' = [desk EXCEPT !.of = named, !.waiting = named, !.step = where]
          /\ desk.step = "roster" /\ desk.kind = "page"
      BY <1>2 DEF ListForPage, Step
    <2>2. named \in SUBSET (Token \ Short) /\ where \in {"rank", "page"}
      BY <1>1
    <2> HIDE DEF named, where
    <2>3. desk' = [desk EXCEPT !.of = named, !.waiting = named, !.truncated = desk.truncated,
                               !.step = where]
          /\ desk.truncated \in BOOLEAN /\ desk.lines = {}
      BY <1>1, <2>1 DEF DeskType, Placed
    <2> QED BY <1>1, <2>1, <2>2, <2>3, PageBegins
  <1>3. CASE TopSpenders
    <2>1. PICK s \in SUBSET desk.of :
            desk' = [desk EXCEPT !.of = s, !.waiting = s, !.truncated = TRUE, !.step = "page"]
      BY <1>3 DEF TopSpenders, Step
    <2>2. s \subseteq desk.of
      BY <2>1
    <2>3. desk.step = "rank" /\ desk.kind = "page" /\ desk.lines = {}
      BY <1>1, <1>3 DEF TopSpenders, Placed
    <2>4. s \in SUBSET (Token \ Short)
      BY <1>1, <2>2, <2>3 DEF Placed, DeskType
    <2> QED BY <1>1, <2>1, <2>3, <2>4, PageBegins
  <1> QED BY <1>2, <1>3

\* A member's page is merged: what the page has shown stays shown, and so are
\* the rows of this member.
LEMMA MergeKeeps ==
  ASSUME AnswerInv, NEW t \in Token, ReadPage(t)
  PROVE  LET page   == PageOf(t)
             merged == desk.lines \cup Newest(page, MaxLines)
             shown  == Newest(merged, MaxLines)
             past   == Rows(desk.known) \cap CostOf(desk.of \ (desk.waiting \ {t}))
         IN  /\ merged \subseteq LogRows /\ shown \subseteq merged
             /\ shown \subseteq CostOf(desk.of \ (desk.waiting \ {t}))
             /\ \A r \in shown : Cardinality(Newer(shown, r)) < MaxLines
             /\ \A q \in past : Shown(q, shown, MaxLines)
             /\ \/ desk.truncated \/ Cardinality(page) > MaxLines \/ Cardinality(merged) > MaxLines
                \/ past \subseteq shown
  <1> DEFINE page   == PageOf(t)
             all    == Bucket(Len(log), Mask(t))
             top    == Newest(page, MaxLines)
             merged == desk.lines \cup top
             shown  == Newest(merged, MaxLines)
             past   == Rows(desk.known) \cap CostOf(desk.of \ (desk.waiting \ {t}))
  <1>1. /\ BooksInv /\ DeskType /\ Placed /\ OwnRows /\ PagedBy(desk)
        /\ desk.step = "page" /\ desk.kind = "page" /\ t \in desk.waiting
        /\ t \in desk.of /\ t \in Token \ Short
    BY DEF AnswerInv, ReadPage, Placed, DeskType
  <1>2. MaxLines \in Nat /\ MaxLines + 1 \in Nat /\ Len(log) \in 0 .. Len(log) /\ Len(log) \in Nat
        /\ desk.known \in 0 .. Len(log)
    BY <1>1, AtType, StatementAssumption DEF DeskType, Placed
  <1>3. all \subseteq CostOf({t}) /\ all \subseteq LogRows
    BY <1>1, <1>2, RowsOfToken
  <1>4. page = Newest(all, MaxLines + 1) /\ page \subseteq all /\ top \subseteq page
    BY DEF PageOf, Newest
  <1>5. /\ desk.lines \subseteq LogRows
        /\ \A q \in There(desk) : Shown(q, desk.lines, MaxLines)
        /\ desk.truncated \/ There(desk) \subseteq desk.lines
    BY <1>1 DEF PagedBy
  <1>6. merged \subseteq LogRows /\ shown \subseteq merged
    BY <1>3, <1>4, <1>5 DEF Newest
  <1>7. shown \subseteq CostOf(desk.of \ (desk.waiting \ {t}))
    BY <1>1, <1>3, <1>4, <1>6 DEF OwnRows, CostOf
  <1>8. past \subseteq There(desk) \cup all /\ past \subseteq LogRows
    <2>1. Rows(desk.known) \subseteq LogRows
      BY <1>2 DEF Rows, LogRows
    <2>2. ASSUME NEW r \in LogRows, Cost[r] = t PROVE r \in all
      BY <2>2 DEF Bucket, LogRows
    <2> QED BY <1>1, <2>1, <2>2 DEF There, CostOf
  <1> HIDE DEF page, all, top, merged, shown, past
  <1>9. ASSUME NEW q \in past PROVE Shown(q, shown, MaxLines)
    <2>1. CASE q \in There(desk)
      <3>1. Shown(q, desk.lines, MaxLines)
        BY <1>5, <2>1
      <3>2. Shown(q, merged, MaxLines)
        BY <1>1, <1>2, <1>6, <3>1, MergeShows DEF merged
      <3> QED BY <1>1, <1>2, <1>6, <1>8, <3>2, CutShows DEF shown
    <2>2. CASE q \in all
      <3>1. Shown(q, all, MaxLines + 1) /\ q \in LogRows
        BY <1>8, <2>2 DEF Shown
      <3>2. Shown(q, page, MaxLines + 1)
        BY <1>1, <1>2, <1>3, <1>4, <3>1, CutShows
      <3>3. Shown(q, page, MaxLines)
        <4>1. page \in SUBSET LogRows
          BY <1>3, <1>4
        <4>2. Cardinality(Newer(page, q)) \in Nat
          BY <1>1, <4>1, RowsFinite
        <4> QED BY <1>2, <3>2, <4>2 DEF Shown
      <3>4. Shown(q, top, MaxLines)
        BY <1>1, <1>2, <1>3, <1>4, <3>1, <3>3, CutShows DEF top
      <3>5. Shown(q, merged, MaxLines)
        BY <1>1, <1>2, <1>6, <3>4, MergeShows DEF merged
      <3> QED BY <1>1, <1>2, <1>6, <1>8, <3>5, CutShows DEF shown
    <2> QED BY <1>8, <2>1, <2>2
  <1>10. \A r \in shown : Cardinality(Newer(shown, r)) < MaxLines
    <2> SUFFICES ASSUME NEW r \in shown PROVE Cardinality(Newer(shown, r)) < MaxLines
      OBVIOUS
    <2>1. Cardinality(Newer(merged, r)) < MaxLines
      BY DEF shown, Newest, Newer
    <2>2. Newer(shown, r) \in SUBSET Newer(merged, r)
      BY <1>6 DEF Newer
    <2>3. Cardinality(Newer(shown, r)) <= Cardinality(Newer(merged, r))
      BY <1>1, <1>6, <2>2, RowsFinite, FS_Subset
    <2>4. Cardinality(Newer(shown, r)) \in Nat /\ Cardinality(Newer(merged, r)) \in Nat
      BY <1>1, <1>6, RowsFinite
    <2> QED BY <1>2, <2>1, <2>3, <2>4
  <1>11. ASSUME ~desk.truncated, ~(Cardinality(page) > MaxLines), ~(Cardinality(merged) > MaxLines)
         PROVE  past \subseteq shown
    <2>1. page \in SUBSET LogRows /\ Cardinality(page) \in Nat /\ Cardinality(merged) \in Nat
      BY <1>1, <1>3, <1>4, <1>6, RowsFinite
    <2>2. Cardinality(page) <= MaxLines /\ Cardinality(merged) <= MaxLines
      BY <1>2, <1>11, <2>1
    <2>3. page = all
      <3>1. page = all \/ Cardinality(page) >= MaxLines + 1
        BY <1>1, <1>2, <1>3, <1>4, NewestFills
      <3> QED BY <1>2, <2>1, <2>2, <3>1
    <2>4. top = page
      BY <1>1, <1>2, <2>1, <2>2, ShortPageWhole DEF top
    <2>5. shown = merged
      BY <1>1, <1>2, <1>6, <2>2, ShortPageWhole DEF shown
    <2> QED BY <1>5, <1>8, <1>11, <2>3, <2>4, <2>5 DEF merged
  <1> QED BY <1>6, <1>7, <1>9, <1>10, <1>11 DEF page, top, merged, shown, past

\* One more member has been asked.
LEMMA PageKeeps ==
  ASSUME AnswerInv, (\E t \in Token : ReadPage(t) \/ PageFails(t)) \/ PageDone
  PROVE  AnswerInv'
  <1>1. UNCHANGED <<books, roster>> /\ UNCHANGED <<charged, pooled, log>>
    BY DEF ReadPage, PageFails, PageDone, Step, books
  <1>2. DeskType /\ Placed /\ OwnRows /\ Ledgered /\ PagedBy(desk) /\ desk.step = "page"
        /\ desk.kind = "page" /\ ~desk.ledger /\ desk.total = {} /\ desk.models = {}
    BY DEF ReadPage, PageFails, PageDone, AnswerInv, Placed
  <1>3. ASSUME NEW t \in Token, ReadPage(t) PROVE AnswerInv'
    <2> DEFINE page   == PageOf(t)
               merged == desk.lines \cup Newest(page, MaxLines)
               shown  == Newest(merged, MaxLines)
               more   == desk.truncated \/ Cardinality(page) > MaxLines \/ Cardinality(merged) > MaxLines
               past   == Rows(desk.known) \cap CostOf(desk.of \ (desk.waiting \ {t}))
    <2>1. desk' = [desk EXCEPT !.lines = shown, !.waiting = @ \ {t}, !.truncated = more]
      BY <1>3 DEF ReadPage, Step
    <2>2. /\ merged \subseteq LogRows /\ shown \subseteq merged
          /\ shown \subseteq CostOf(desk.of \ (desk.waiting \ {t}))
          /\ \A r \in shown : Cardinality(Newer(shown, r)) < MaxLines
          /\ \A q \in past : Shown(q, shown, MaxLines)
          /\ more \/ past \subseteq shown
      BY <1>3, MergeKeeps
    <2>3. shown \subseteq Request /\ shown \subseteq LogRows
      BY <2>2 DEF CostOf
    <2>4. more \in BOOLEAN
      BY <1>2 DEF DeskType
    <2> HIDE DEF page, merged, shown, more
    <2>5. DeskType'
      BY <1>2, <2>1, <2>3, <2>4 DEF DeskType
    <2>6. /\ desk'.of = desk.of /\ desk'.waiting = desk.waiting \ {t} /\ desk'.step = "page"
          /\ desk'.kind = "page" /\ desk'.lines = shown /\ desk'.truncated = more
          /\ desk'.total = {} /\ desk'.models = {} /\ ~desk'.ledger
          /\ desk'.owed = desk.owed /\ desk'.known = desk.known
      BY <1>2, <2>1 DEF DeskType
    <2>7. Placed' /\ OwnRows' /\ Ledgered' /\ Named'
      BY <1>1, <1>2, <2>2, <2>6 DEF Placed, OwnRows, Ledgered, Named, CostOf
    <2>8. There(desk') = past
      BY <2>6 DEF There
    <2> HIDE DEF past
    <2>9. PagedBy(desk')
      BY <2>2, <2>3, <2>6, <2>8 DEF PagedBy
    <2> QED BY <1>1, <2>5, <2>7, <2>9, DeskKeeps
  <1>4. ASSUME NEW t \in Token, PageFails(t) PROVE AnswerInv'
    <2>1. desk' = [desk EXCEPT !.waiting = @ \ {t}, !.of = @ \ {t}] /\ t \in desk.waiting
      BY <1>4 DEF PageFails, Step
    <2>2. DeskType'
      BY <1>2, <2>1 DEF DeskType
    <2>3. /\ desk'.of = desk.of \ {t} /\ desk'.waiting = desk.waiting \ {t} /\ desk'.step = "page"
          /\ desk'.kind = "page" /\ desk'.lines = desk.lines /\ desk'.truncated = desk.truncated
          /\ desk'.total = {} /\ desk'.models = {} /\ ~desk'.ledger
          /\ desk'.owed = desk.owed /\ desk'.known = desk.known
      BY <1>2, <2>1 DEF DeskType
    <2>4. desk'.of \ desk'.waiting = desk.of \ desk.waiting
      BY <2>1, <2>3
    <2>5. Placed' /\ OwnRows' /\ Ledgered' /\ Named'
      BY <1>1, <1>2, <2>3, <2>4 DEF Placed, OwnRows, Ledgered, Named, CostOf
    <2>6. There(desk') = There(desk)
      BY <2>3, <2>4 DEF There
    <2>7. PagedBy(desk')
      BY <1>2, <2>3, <2>6 DEF PagedBy
    <2> QED BY <1>1, <2>2, <2>5, <2>7, DeskKeeps
  <1>5. CASE PageDone
    <2>1. desk' = [desk EXCEPT !.step = "served"]
      BY <1>5 DEF PageDone, Step
    <2> desk.waiting = {} /\ desk'.waiting = {}
      BY <1>2, <1>5, <2>1 DEF PageDone, DeskType
    <2>2. DeskType' /\ Placed' /\ OwnRows' /\ Ledgered' /\ Named'
      <3>1. DeskType'
        BY <1>2, <2>1 DEF DeskType, Steps
      <3>2. Placed'
        BY <1>1, <1>2, <2>1 DEF DeskType, Placed
      <3>3. OwnRows' /\ Ledgered' /\ Named'
        BY <1>1, <1>2, <2>1 DEF DeskType, OwnRows, Ledgered, Named, CostOf
      <3> QED BY <3>1, <3>2, <3>3
    <2>3. There(desk') = There(desk) /\ desk'.lines = desk.lines /\ desk'.truncated = desk.truncated
      BY <1>2, <2>1 DEF DeskType, There
    <2>4. PagedBy(desk')
      BY <1>2, <2>3 DEF PagedBy
    <2> QED BY <1>1, <2>2, <2>4, DeskKeeps
  <1> QED BY <1>3, <1>4, <1>5

-----------------------------------------------------------------------------
(***************************************************************************)
(* The statement of one token.                                             *)
(***************************************************************************)
\* The total, the rows and the closing lines; only these look at the ledger,
\* both sides of it at once.
LEMMA TokenKeeps ==
  ASSUME AnswerInv, TakeSum \/ TakeRows \/ Reconcile
  PROVE  AnswerInv'
  <1>1. UNCHANGED <<books, roster>> /\ UNCHANGED <<charged, pooled, log>>
    BY DEF TakeSum, TakeRows, Reconcile, Step, books
  <1>2. DeskType /\ Placed /\ BooksInv /\ desk.kind = "token"
    BY DEF TakeSum, TakeRows, Reconcile, AnswerInv, Placed
  <1>3. \A mask : \A n \in 0 .. Len(log) : Bucket(n, mask) \subseteq Request
    BY <1>2, AtType DEF Bucket, Rows, LogRows
  <1>4. CASE TakeSum \/ TakeRows
    <2>1. PICK rows \in SUBSET Request :
            \/ desk' = [desk EXCEPT !.total = rows, !.step = "rows"]
            \/ desk' = [desk EXCEPT !.lines = rows, !.step = "reconcile"]
      BY <1>3, <1>4 DEF TakeSum, TakeRows, Step, Newest
    <2>2. ~desk.ledger /\ desk.step \in {"sum", "rows"}
      BY <1>2, <1>4 DEF TakeSum, TakeRows, Placed
    <2>3. DeskType'
      BY <1>2, <2>1 DEF DeskType, Steps
    <2>4. /\ desk'.step \in {"rows", "reconcile"} /\ desk'.kind = "token" /\ ~desk'.ledger
          /\ desk'.waiting = desk.waiting /\ desk'.of = desk.of
          /\ desk'.owed = desk.owed /\ desk'.known = desk.known
      BY <1>2, <2>1, <2>2 DEF DeskType
    <2>5. Placed' /\ OwnRows' /\ Ledgered' /\ Named' /\ PagedBy(desk')
      BY <1>1, <1>2, <2>4 DEF Placed, OwnRows, Ledgered, Named, PagedBy
    <2> QED BY <1>1, <2>3, <2>5, DeskKeeps
  <1>5. CASE Reconcile
    <2> DEFINE more == Cardinality(desk.total) > Cardinality(desk.lines)
    <2>1. PICK read \in BOOLEAN :
            desk' = [desk EXCEPT
                     !.ledger = read, !.held = TRUE, !.step = "served",
                     !.pool = IF read THEN PooledBy(desk.of) ELSE {},
                     !.own = IF read THEN PaidBy(desk.of) ELSE {},
                     !.truncated = more]
      BY <1>5 DEF Reconcile, Step
    <2>2. more \in BOOLEAN
      OBVIOUS
    <2> HIDE DEF more
    <2>3. /\ PooledBy(desk.of) \subseteq Request /\ PaidBy(desk.of) \subseteq Request
          /\ desk.owed \cap CostOf(desk.of) \subseteq PooledBy(desk.of) \cup PaidBy(desk.of)
      <3>1. 1 .. charged \subseteq Request
        BY <1>2, CostType DEF BooksInv, Request
      <3> QED BY <1>2, <3>1 DEF PooledBy, PaidBy, CostOf, BooksInv, Placed
    <2>4. DeskType'
      BY <1>2, <2>1, <2>2, <2>3 DEF DeskType, Steps
    <2>5. /\ desk'.step = "served" /\ desk'.kind = "token" /\ desk'.ledger = read
          /\ desk'.waiting = desk.waiting /\ desk'.of = desk.of
          /\ desk'.owed = desk.owed /\ desk'.known = desk.known
          /\ read => desk'.pool = PooledBy(desk.of) /\ desk'.own = PaidBy(desk.of)
      BY <1>2, <2>1 DEF DeskType
    <2>6. Placed' /\ OwnRows' /\ Ledgered' /\ Named' /\ PagedBy(desk')
      BY <1>1, <1>2, <2>3, <2>5 DEF Placed, OwnRows, Ledgered, Named, PagedBy, CostOf
    <2> QED BY <1>1, <2>4, <2>6, DeskKeeps
  <1> QED BY <1>4, <1>5

-----------------------------------------------------------------------------
\* Any step.
LEMMA AnswerKept == AnswerInv /\ [StatementsNext]_vars => AnswerInv'
  <1> SUFFICES ASSUME AnswerInv, [StatementsNext]_vars PROVE AnswerInv'
    OBVIOUS
  <1>1. CASE \/ Settle \/ \E r \in Request : EmitLog(r) \/ LoseRow(r)
             \/ \E t \in Token : Join(t) \/ Leave(t)
    BY <1>1, BooksKeep
  <1>2. CASE (\E kind \in {"team", "page"} : Open(kind)) \/ Close
    BY <1>2, OpenKeeps DEF Open, Close
  <1>3. CASE ForTeam
    BY <1>3, LedgerKeeps, TotalsKeep, CutKeeps, CutsDoneKeeps, LinesKeep DEF ForTeam
  <1>4. CASE ForPage
    BY <1>4, ListKeeps, PageKeeps DEF ForPage
  <1>5. CASE ForToken
    <2>1. ASSUME NEW t \in Holder, OpenToken(t) PROVE AnswerInv'
      BY <2>1, OpenKeeps, StatementAssumption DEF OpenToken
    <2>2. CASE QueryRefused
      BY <2>2, OpenKeeps DEF QueryRefused, Step
    <2> QED BY <1>5, <2>1, <2>2, TokenKeeps DEF ForToken
  <1>6. CASE UNCHANGED vars
    <2>1. UNCHANGED <<books, roster, desk>>
      BY <1>6 DEF vars, books
    <2>2. UNCHANGED <<charged, pooled, log>>
      BY <2>1 DEF books
    <2>3. DeskType' /\ Placed' /\ OwnRows' /\ Ledgered' /\ Named' /\ PagedBy(desk')
      BY <2>1, <2>2 DEF AnswerInv, DeskType, Placed, OwnRows, Ledgered, Named, CostOf, Has
    <2> QED BY <2>1, <2>3, DeskKeeps
  <1> QED BY <1>1, <1>2, <1>3, <1>4, <1>5, <1>6 DEF StatementsNext

\* What an answer shows, has seen and still has to ask, whatever settles and
\* whoever joins meanwhile: the inductive invariant of the theorems below.
THEOREM AnswerInvariant == StatementsSpec => []AnswerInv
  BY StatementsInitInv, AnswerKept, PTL DEF StatementsSpec

\* A team is shown nothing that was spent outside it, though all short tokens
\* share a mask in the log (GroupTotalsByClient, mergePages).
THEOREM RowsStayInTheTeam == StatementsSpec => []TeamRowsOnly
  <1>1. AnswerInv => TeamRowsOnly
    BY DEF AnswerInv, OwnRows, Placed, TeamRowsOnly, Served, CostOf
  <1> QED BY <1>1, AnswerInvariant, PTL

\* Spending that has no row yet, or lost it, or comes after the cached totals,
\* still counts in a statement: as its own line (reconcileAgainstLedger).
THEOREM NothingPaidIsLost == StatementsSpec => []NothingPaidIsMissing
  <1>1. ASSUME AnswerInv PROVE NothingPaidIsMissing
    <2> DEFINE owing == desk.owed \cap CostOf(desk.of)
    <2>1. SUFFICES ASSUME desk.ledger, desk.held
                   PROVE  Cardinality(desk.total) + Unitemised >= Cardinality(owing)
      BY DEF NothingPaidIsMissing
    <2>2. DeskType /\ owing \subseteq desk.pool \cup desk.own
      BY <1>1, <2>1 DEF AnswerInv, Ledgered
    <2>3. /\ desk.pool \in SUBSET Request /\ desk.own \in SUBSET Request
          /\ desk.total \in SUBSET Request
      BY <2>2 DEF DeskType
    <2>4. /\ IsFiniteSet(desk.pool) /\ IsFiniteSet(desk.own) /\ IsFiniteSet(desk.total)
      BY <2>3, CostType, FS_Subset
    <2>5. /\ Cardinality(desk.pool) \in Nat /\ Cardinality(desk.own) \in Nat
          /\ Cardinality(desk.total) \in Nat
          /\ Cardinality(desk.pool \cap desk.own) \in Nat
      BY <2>4, FS_CardinalityType, FS_Intersection
    <2>6. /\ IsFiniteSet(desk.pool \cup desk.own)
          /\ Cardinality(desk.pool \cup desk.own) =
               Cardinality(desk.pool) + Cardinality(desk.own) - Cardinality(desk.pool \cap desk.own)
      BY <2>4, FS_Union
    <2>7. /\ Cardinality(owing) <= Cardinality(desk.pool \cup desk.own)
          /\ Cardinality(owing) \in Nat
      BY <2>2, <2>6, FS_Subset, FS_CardinalityType
    <2> HIDE DEF owing
    <2>8. Cardinality(owing) <= ChargedUSD /\ ChargedUSD \in Nat
      BY <2>5, <2>6, <2>7 DEF ChargedUSD
    <2> QED BY <2>5, <2>7, <2>8 DEF Unitemised
  <1> QED BY <1>1, AnswerInvariant, PTL

\* Whoever has a share in the totals of a complete answer is in its table of
\* models, whichever caches the two came from.
THEOREM SpendersAreNamed == StatementsSpec => []ModelTableNamesEverySpender
  <1>1. ASSUME AnswerInv PROVE ModelTableNamesEverySpender
    <2>1. DeskType /\ Named
      BY <1>1 DEF AnswerInv
    <2>2. desk.total \in SUBSET Request /\ desk.models \in SUBSET Request
      BY <2>1 DEF DeskType
    <2> QED BY <2>1, <2>2, SpentIsHas DEF ModelTableNamesEverySpender, Named, Served
  <1> QED BY <1>1, AnswerInvariant, PTL

\* A page leaves out no row newer than one it shows, and says when it leaves out
\* any, whichever order the members' rows came in while the log grew.
THEOREM PagesAreTheNewest == StatementsSpec => []PageIsTheNewest
  <1>1. ASSUME AnswerInv PROVE PageIsTheNewest
    <2> DEFINE there == Rows(desk.known) \cap CostOf(desk.of)
    <2>1. SUFFICES ASSUME desk.kind = "page", desk.step = "served"
                   PROVE  /\ \A r \in desk.lines, q \in there : At(q) > At(r) => q \in desk.lines
                          /\ desk.truncated \/ there \subseteq desk.lines
      BY DEF PageIsTheNewest, Served
    <2>2. BooksInv /\ Placed /\ PagedBy(desk) /\ desk.waiting = {}
      BY <1>1, <2>1 DEF AnswerInv, Placed
    <2>3. there = There(desk) /\ there \subseteq LogRows
      <3>1. desk.known \in Nat /\ desk.known <= Len(log) /\ Len(log) \in Nat
        BY <1>1, <2>2, AtType DEF AnswerInv, DeskType, Placed
      <3> QED BY <2>2, <3>1 DEF There, Rows, LogRows
    <2> HIDE DEF there
    <2>4. /\ desk.lines \in SUBSET LogRows
          /\ \A r \in desk.lines : Cardinality(Newer(desk.lines, r)) < MaxLines
          /\ \A q \in there : Shown(q, desk.lines, MaxLines)
          /\ desk.truncated \/ there \subseteq desk.lines
      BY <2>1, <2>2, <2>3 DEF PagedBy
    <2>5. ASSUME NEW r \in desk.lines, NEW q \in there, At(q) > At(r), q \notin desk.lines
          PROVE  FALSE
      <3>1. At(q) \in Nat /\ \A x \in desk.lines : At(x) \in Nat
        BY <2>2, <2>3, <2>4, AtType
      <3>2. Newer(desk.lines, q) \in SUBSET Newer(desk.lines, r)
        BY <2>5, <3>1 DEF Newer
      <3>3. /\ Cardinality(Newer(desk.lines, q)) <= Cardinality(Newer(desk.lines, r))
            /\ Cardinality(Newer(desk.lines, q)) \in Nat /\ Cardinality(Newer(desk.lines, r)) \in Nat
        BY <2>2, <2>4, <3>2, RowsFinite, FS_Subset
      <3>4. Cardinality(Newer(desk.lines, q)) >= MaxLines
        BY <2>4, <2>5 DEF Shown
      <3>5. Cardinality(Newer(desk.lines, r)) < MaxLines /\ MaxLines \in Nat
        BY <2>4, StatementAssumption
      <3> QED BY <3>3, <3>4, <3>5
    <2> QED BY <2>4, <2>5
  <1> QED BY <1>1, AnswerInvariant, PTL
=============================================================================
