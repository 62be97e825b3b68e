----------------------------- MODULE CodexSocket -----------------------------
(***************************************************************************)
(* Codex over WebSocket (server/codex_ws.go, codex_session.go): a client's *)
(* socket from its admission to the settlement of its last turn.           *)
(*                                                                         *)
(* A socket passes the gates, waits for the client's first frame, takes a  *)
(* seat in the pool, dials a credential, and then runs as three            *)
(* goroutines: the reader (upstream to client, which also bills), the      *)
(* writer (client to upstream) and the biller behind a bounded queue.      *)
(* Sockets share the pool's seats, the in-flight counters and the table    *)
(* that says which response ids a group may continue.                      *)
(*                                                                         *)
(* Outside: the pool picks any untried credential at any time, and the     *)
(* marks on its health are its own business.  Frames are reduced to        *)
(* "output", "status" (dropped before the client) and "final" (terminal),  *)
(* each with the tokens it reports; response ids to <<socket, turn>>.      *)
(***************************************************************************)
EXTENDS Integers, FiniteSets

CONSTANTS
  Socket,      \* sockets, one per call of handleCodexResponsesWS
  Elsewhere,   \* those of which only the response ids are seen
  Token,       \* client tokens
  TokenOf,     \* the token every socket comes with
  Slot,        \* session slots a client names in its headers
  Group,       \* credential groups
  GroupOf,     \* the group of every token
  Oauth, Relay, Plain,  \* subscriptions, relay peers, plain vendor keys
  MaxConc,     \* sockets and requests a token may have in flight
  MaxSess,     \* seats a token may hold (client_max_sessions)
  MaxAcquire,  \* credentials a socket may try (codexWSMaxAcquire)
  BillQueue,   \* bills the queue holds (codexWSBillQueue)
  MaxTurns,    \* bound: turns of any socket,
  TurnsOf,     \* and of each
  MaxUsage     \* bound: tokens reported in one turn

Cred == Oauth \cup Relay \cup Plain

ASSUME SocketAssumption ==
  /\ IsFiniteSet(Socket) /\ Elsewhere \subseteq Socket
  /\ TokenOf \in [Socket -> Token] /\ GroupOf \in [Token -> Group]
  /\ MaxConc \in Nat \ {0} /\ MaxSess \in Nat \ {0} /\ MaxAcquire \in Nat \ {0}
  /\ BillQueue \in Nat /\ MaxUsage \in Nat
  /\ MaxTurns \in Nat /\ TurnsOf \in [Socket -> 1 .. MaxTurns]

VARIABLES
  stage,    \* where the handler is
  slot,     \* the session slot a socket names
  allow,    \* whether its token may fall back to API keys
  tried,    \* credentials it tried
  cred,     \* the credential it is pinned to, or 0
  reader, writer,  \* the relay goroutines
  code,     \* "open", or why stop was called first
  midTurn,  \* the reader's: upstream has sent something of an unfinished turn
  half,     \* the client has been written something of an unfinished turn
  sent, served,    \* turns that reached upstream, turns that ended there
  used,     \* tokens reported in each turn
  counts, billed,  \* the reader's running totals: reported, handed to billing
  amount,   \* what each turn was billed with
  queued,   \* turns in the queue; its order is their order
  inhand, inline,  \* the turn the biller, and the reader itself, settles now, or 0
  paid,     \* tokens settled for each turn
  folded,   \* tokens folded into the credential's own ledger
  seats,    \* sockets on every seat of the pool
  inflight, \* the in-flight counter of every token
  chain,    \* response ids a group may continue
  continued \* response ids left in a frame to be continued, by whom

handlerVars == <<stage, slot, allow, tried, cred, seats, inflight>>
pumpVars    == <<reader, writer, code, midTurn, half, sent, served>>
billVars    == <<used, counts, billed, amount, queued, inhand, inline, paid, folded>>
chainVars   == <<chain, continued>>
socketVars  == <<handlerVars, pumpVars, billVars, chainVars>>

Turn == 1 .. MaxTurns
Seat == Token \X Slot
SeatOf(s) == <<TokenOf[s], slot[s]>>
MyGroup(s) == GroupOf[TokenOf[s]]
Rid == {r \in Socket \X Turn : r[2] <= TurnsOf[r[1]]}
Followed == Socket \ Elsewhere
Codes == {"open", "upstream", "retry", "left", "policy", "restart"}

SocketTypeOK ==
  /\ stage \in [Socket -> {"new", "overlimit", "counted", "waiting", "choosing",
                           "dialing", "opening", "pumping", "draining", "gone"}]
  /\ slot \in [Socket -> Slot]
  /\ allow \in [Socket -> BOOLEAN]
  /\ tried \in [Socket -> SUBSET Cred]
  /\ cred \in [Socket -> Cred \cup {0}]
  /\ reader \in [Socket -> {"reading", "output", "settling", "final", "done"}]
  /\ writer \in [Socket -> {"reading", "done"}]
  /\ code \in [Socket -> Codes]
  /\ midTurn \in [Socket -> BOOLEAN] /\ half \in [Socket -> BOOLEAN]
  /\ sent \in [Socket -> Nat] /\ served \in [Socket -> Nat]
  /\ counts \in [Socket -> Nat] /\ billed \in [Socket -> Nat]
  /\ \A f \in {used, amount, paid} : f \in [Socket -> [Turn -> Nat]]
  /\ queued \in [Socket -> SUBSET Turn]
  /\ inhand \in [Socket -> 0 .. MaxTurns] /\ inline \in [Socket -> 0 .. MaxTurns]
  /\ folded \in [Socket -> Nat]
  /\ seats \in [Seat -> Nat] /\ inflight \in [Token -> Nat]
  /\ chain \subseteq Group \X Rid
  /\ continued \subseteq Socket \X Rid

SocketInit ==
  /\ stage = [s \in Socket |-> "new"]
  /\ slot \in [Socket -> Slot]
  /\ allow = [s \in Socket |-> FALSE]
  /\ tried = [s \in Socket |-> {}] /\ cred = [s \in Socket |-> 0]
  /\ reader = [s \in Socket |-> "reading"] /\ writer = [s \in Socket |-> "reading"]
  /\ code = [s \in Socket |-> "open"]
  /\ midTurn = [s \in Socket |-> FALSE] /\ half = [s \in Socket |-> FALSE]
  /\ sent = [s \in Socket |-> 0] /\ served = [s \in Socket |-> 0]
  /\ counts = [s \in Socket |-> 0] /\ billed = [s \in Socket |-> 0]
  /\ used = [s \in Socket |-> [k \in Turn |-> 0]]
  /\ amount = used /\ paid = used
  /\ queued = [s \in Socket |-> {}]
  /\ inhand = [s \in Socket |-> 0] /\ inline = [s \in Socket |-> 0]
  /\ folded = [s \in Socket |-> 0]
  /\ seats = [x \in Seat |-> 0] /\ inflight = [t \in Token |-> 0]
  /\ chain = {} /\ continued = {}

-----------------------------------------------------------------------------
(***************************************************************************)
(* The handler, up to the relay.                                           *)
(***************************************************************************)
Held(t) == {sl \in Slot : seats[<<t, sl>>] > 0}

\* Only a seat the token does not hold is refused.
AtSessionCap(t, sl) == sl \notin Held(t) /\ Cardinality(Held(t)) >= MaxSess

Goto(s, where) == stage' = [stage EXCEPT ![s] = where]

\* The deferred release of the in-flight slot, as the handler returns.
Return(s) ==
  /\ Goto(s, "gone")
  /\ inflight' = [inflight EXCEPT ![TokenOf[s]] = @ - 1]

Sit(s)  == seats' = [seats EXCEPT ![SeatOf(s)] = @ + 1]
Rise(s) == seats' = [seats EXCEPT ![SeatOf(s)] = @ - 1]

\* Refused for provider, balance or rate, before it is counted.
Refuse(s) ==
  /\ stage[s] = "new"
  /\ Goto(s, "gone")
  /\ UNCHANGED <<slot, allow, tried, cred, seats, inflight, pumpVars, billVars, chainVars>>

\* inflight.Begin: the counter is raised first, and says what it then was.
Admit(s) ==
  LET t == TokenOf[s] IN
  /\ stage[s] = "new"
  /\ Goto(s, IF inflight[t] + 1 > MaxConc THEN "overlimit" ELSE "counted")
  /\ inflight' = [inflight EXCEPT ![t] = @ + 1]
  /\ UNCHANGED <<slot, allow, tried, cred, seats, pumpVars, billVars, chainVars>>

\* The handler returns: too many in flight, the session cap, or an upgrade that
\* fails.
TurnAway(s) ==
  /\ stage[s] \in {"overlimit", "counted"}
  /\ Return(s)
  /\ UNCHANGED <<slot, allow, tried, cred, seats, pumpVars, billVars, chainVars>>

Upgrade(s) ==
  /\ stage[s] = "counted"
  /\ ~AtSessionCap(TokenOf[s], slot[s])
  /\ Goto(s, "waiting")
  /\ UNCHANGED <<slot, allow, tried, cred, seats, inflight, pumpVars, billVars, chainVars>>

\* The deadline, or something else than a JSON frame.
NoFirstFrame(s) ==
  /\ stage[s] = "waiting"
  /\ Return(s)
  /\ UNCHANGED <<slot, allow, tried, cred, seats, pumpVars, billVars, chainVars>>

\* Mutant: the table is not kept apart by group.
KnownAnywhere(g, r) == \E h \in Group : <<h, r>> \in chain

\* codexRespAccountStore.Get: whether a response id is known in this group.
Known(g, r) == <<g, r>> \in chain

\* A frame names no response to continue, or one that is left in the frame
\* when it is known in the group and cut out when not.
Continues(s) ==
  \/ UNCHANGED continued
  \/ \E r \in Rid : Known(MyGroup(s), r) /\ continued' = continued \cup {<<s, r>>}

FirstFrame(s) ==
  /\ stage[s] = "waiting"
  /\ Goto(s, "choosing")
  /\ \E b \in BOOLEAN : allow' = [allow EXCEPT ![s] = b]
  /\ Continues(s)
  /\ UNCHANGED <<slot, tried, cred, seats, inflight, pumpVars, billVars, chain>>

\* pool.AcquireWithOptions: any credential not tried yet, keys if allowed.
Acquire(s, a) ==
  /\ stage[s] = "choosing"
  /\ a \notin tried[s] /\ Cardinality(tried[s]) < MaxAcquire
  /\ a \in Oauth \/ allow[s]
  /\ Goto(s, "dialing")
  /\ tried' = [tried EXCEPT ![s] = @ \cup {a}]
  /\ cred' = [cred EXCEPT ![s] = a]
  /\ Sit(s)
  /\ UNCHANGED <<slot, allow, inflight, pumpVars, billVars, chainVars>>

\* codexWSDialTarget: a plain vendor key has no socket to offer.
CanDial(a) == a \in Oauth \cup Relay

Dials(s) ==
  /\ stage[s] = "dialing" /\ CanDial(cred[s])
  /\ Goto(s, "opening")
  /\ UNCHANGED <<slot, allow, tried, cred, seats, inflight, pumpVars, billVars, chainVars>>

\* Mutant: the seat is kept when the credential has nothing to dial.
DialFailsSeated(s) ==
  /\ stage[s] = "dialing"
  /\ Goto(s, "choosing")
  /\ cred' = [cred EXCEPT ![s] = 0]
  /\ IF CanDial(cred[s]) THEN Rise(s) ELSE UNCHANGED seats
  /\ UNCHANGED <<slot, allow, tried, inflight, pumpVars, billVars, chainVars>>

\* Nothing to dial, or the handshake fails; the seat is given back.
DialFails(s) ==
  /\ stage[s] = "dialing"
  /\ Goto(s, "choosing")
  /\ cred' = [cred EXCEPT ![s] = 0]
  /\ Rise(s)
  /\ UNCHANGED <<slot, allow, tried, inflight, pumpVars, billVars, chainVars>>

\* The pool has nothing, or the attempts are used up.
NoUpstream(s) ==
  /\ stage[s] = "choosing"
  /\ Return(s)
  /\ UNCHANGED <<slot, allow, tried, cred, seats, pumpVars, billVars, chainVars>>

\* The first frame reaches upstream and the relay starts.
OpenTurn(s) ==
  /\ stage[s] = "opening"
  /\ Goto(s, "pumping")
  /\ sent' = [sent EXCEPT ![s] = 1]
  /\ UNCHANGED <<slot, allow, tried, cred, seats, inflight, reader, writer, code,
                 midTurn, half, served, billVars, chainVars>>

\* A service tier that is none, bad metadata, or the write fails.
OpenFails(s) ==
  /\ stage[s] = "opening"
  /\ Return(s) /\ Rise(s)
  /\ UNCHANGED <<slot, allow, tried, cred, pumpVars, billVars, chainVars>>
-----------------------------------------------------------------------------
(***************************************************************************)
(* The relay (pumpCodexWS).                                                *)
(***************************************************************************)
Reader(s, what) == reader' = [reader EXCEPT ![s] = what]
WriterEnds(s)   == writer' = [writer EXCEPT ![s] = "done"]
Open(s) == stage[s] = "pumping" /\ code[s] = "open"

\* Only the first caller of stop says why; it closes both connections.
Stop(s, why) == code' = [code EXCEPT ![s] = IF @ = "open" THEN why ELSE @]

\* codexRespAccountStore.Bind.  The credential stored with the id is read by
\* nobody.
Bind(s, k) == chain' = chain \cup {<<MyGroup(s), <<s, k>>>>}

\* A frame of an unfinished turn reports n tokens and may name the response,
\* whose id is then bound to the group.
Report(s, n) ==
  LET k == served[s] + 1 IN
  /\ served[s] < sent[s]
  /\ used[s][k] + n <= MaxUsage
  /\ used' = [used EXCEPT ![s][k] = @ + n]
  /\ counts' = [counts EXCEPT ![s] = @ + n]
  /\ UNCHANGED chain \/ Bind(s, k)
  /\ UNCHANGED continued

ReadOutput(s, n) ==
  /\ Open(s) /\ reader[s] = "reading"
  /\ Report(s, n)
  /\ Reader(s, "output")
  /\ midTurn' = [midTurn EXCEPT ![s] = TRUE]
  /\ UNCHANGED <<handlerVars, writer, code, half, sent, served,
                 billed, amount, queued, inhand, inline, paid, folded>>

\* Dropped by ScrubCodexEvent, and mid-turn all the same.
ReadStatus(s) ==
  /\ Open(s) /\ reader[s] = "reading"
  /\ midTurn' = [midTurn EXCEPT ![s] = TRUE]
  /\ UNCHANGED <<handlerVars, reader, writer, code, half, sent, served, billVars, chainVars>>

\* Mutants: the running total; the difference the wrong way round.
RunningTotal(s) == counts'[s]
DeltaBackwards(s) == billed[s] - counts'[s]

\* codexTurnDelta: what was reported since the last bill.
TurnDelta(s) == counts'[s] - billed[s]

\* The terminal frame.  The turn is billed before the frame is relayed: put
\* into the queue, or settled here when the queue is full.
ReadFinal(s, n) ==
  LET k == served[s] + 1
      full == Cardinality(queued[s]) >= BillQueue IN
  /\ Open(s) /\ reader[s] = "reading"
  /\ Report(s, n)
  /\ midTurn' = [midTurn EXCEPT ![s] = FALSE]
  /\ served' = [served EXCEPT ![s] = k]
  /\ amount' = [amount EXCEPT ![s][k] = TurnDelta(s)]
  /\ billed' = [billed EXCEPT ![s] = counts'[s]]
  /\ IF full THEN /\ Reader(s, "settling")
                  /\ inline' = [inline EXCEPT ![s] = k]
                  /\ UNCHANGED queued
             ELSE /\ Reader(s, "final")
                  /\ queued' = [queued EXCEPT ![s] = @ \cup {k}]
                  /\ UNCHANGED inline
  /\ UNCHANGED <<handlerVars, writer, code, half, sent, inhand, paid, folded>>

\* billCodexWSTurn.
Settle(s, k) == paid' = [paid EXCEPT ![s][k] = @ + amount[s][k]]

SettleInline(s) ==
  /\ reader[s] = "settling"
  /\ Settle(s, inline[s])
  /\ inline' = [inline EXCEPT ![s] = 0]
  /\ Reader(s, "final")
  /\ UNCHANGED <<handlerVars, writer, code, midTurn, half, sent, served, used, counts,
                 billed, amount, queued, inhand, folded, chainVars>>

Deliver(s) ==
  /\ Open(s) /\ reader[s] \in {"output", "final"}
  /\ half' = [half EXCEPT ![s] = (reader[s] = "output")]
  /\ Reader(s, "reading")
  /\ UNCHANGED <<handlerVars, writer, code, midTurn, sent, served, billVars, chainVars>>

\* The client is gone, or its connection has been closed by stop.
DeliverFails(s) ==
  /\ reader[s] \in {"output", "final"}
  /\ Stop(s, "left")
  /\ Reader(s, "done")
  /\ UNCHANGED <<handlerVars, writer, midTurn, half, sent, served, billVars, chainVars>>

\* Mutant: an orderly close is normal, whatever it interrupts.
EndOfStreamAnyTime(s, orderly) == IF orderly THEN "upstream" ELSE "retry"

\* An upstream that closes in order and owes nothing, or a connection lost.
EndOfStream(s, orderly) == IF orderly /\ ~midTurn[s] THEN "upstream" ELSE "retry"

UpstreamEnds(s) ==
  /\ Open(s) /\ reader[s] = "reading"
  /\ \E orderly \in BOOLEAN : Stop(s, EndOfStream(s, orderly))
  /\ Reader(s, "done")
  /\ UNCHANGED <<handlerVars, writer, midTurn, half, sent, served, billVars, chainVars>>

ReaderNotices(s) ==
  /\ reader[s] = "reading" /\ code[s] # "open"
  /\ Reader(s, "done")
  /\ UNCHANGED <<handlerVars, writer, code, midTurn, half, sent, served, billVars, chainVars>>

ClientSends(s) ==
  /\ Open(s) /\ writer[s] = "reading"
  /\ sent[s] < TurnsOf[s]
  /\ Continues(s)
  /\ sent' = [sent EXCEPT ![s] = @ + 1]
  /\ UNCHANGED <<handlerVars, reader, writer, code, midTurn, half, served, billVars, chain>>

\* The client hangs up, sends a frame that is refused, or upstream takes no
\* more frames.
WriterStops(s) ==
  /\ Open(s) /\ writer[s] = "reading"
  /\ \E why \in {"left", "policy", "retry"} : Stop(s, why)
  /\ WriterEnds(s)
  /\ UNCHANGED <<handlerVars, reader, midTurn, half, sent, served, billVars, chainVars>>

\* Mutant: stop does not close the client's connection.
WriterUnaware(s) ==
  /\ writer[s] = "reading" /\ code[s] = "left"
  /\ WriterEnds(s)
  /\ UNCHANGED <<handlerVars, reader, code, midTurn, half, sent, served, billVars, chainVars>>

WriterNotices(s) ==
  /\ writer[s] = "reading" /\ code[s] # "open"
  /\ WriterEnds(s)
  /\ UNCHANGED <<handlerVars, reader, code, midTurn, half, sent, served, billVars, chainVars>>

\* The keepalive goroutine sees the request's context cancelled.
ShutDown(s) ==
  /\ Open(s)
  /\ Stop(s, "restart")
  /\ UNCHANGED <<handlerVars, reader, writer, midTurn, half, sent, served, billVars, chainVars>>
-----------------------------------------------------------------------------
(***************************************************************************)
(* The biller, and the end.                                                *)
(***************************************************************************)
\* Bills leave the queue in the order in which turns end.
TakeBill(s) ==
  /\ stage[s] \in {"pumping", "draining"} /\ inhand[s] = 0
  /\ \E k \in queued[s] :
       /\ \A j \in queued[s] : k <= j
       /\ inhand' = [inhand EXCEPT ![s] = k]
       /\ queued' = [queued EXCEPT ![s] = @ \ {k}]
  /\ UNCHANGED <<handlerVars, pumpVars, used, counts, billed, amount, inline, paid,
                 folded, chainVars>>

SettleBill(s) ==
  /\ inhand[s] # 0
  /\ Settle(s, inhand[s])
  /\ inhand' = [inhand EXCEPT ![s] = 0]
  /\ UNCHANGED <<handlerVars, pumpVars, used, counts, billed, amount, queued, inline,
                 folded, chainVars>>

\* Both relay goroutines are joined, and the queue is closed.
Join(s) ==
  /\ stage[s] = "pumping" /\ reader[s] = "done" /\ writer[s] = "done"
  /\ Goto(s, "draining")
  /\ UNCHANGED <<slot, allow, tried, cred, seats, inflight, pumpVars, billVars, chainVars>>

Drained(s) == queued[s] = {} /\ inhand[s] = 0

\* The biller has emptied the queue; the totals are folded into the
\* credential's ledger, the seat and the in-flight slot are given back.
Finish(s) ==
  /\ stage[s] = "draining" /\ Drained(s)
  /\ folded' = [folded EXCEPT ![s] = counts[s]]
  /\ Return(s) /\ Rise(s)
  /\ UNCHANGED <<slot, allow, tried, cred, pumpVars, used, counts, billed, amount,
                 queued, inhand, inline, paid, chainVars>>

\* codexRespAccountTTL, by the janitor or by the clock at the next Get.
Expire ==
  /\ \E e \in chain : chain' = chain \ {e}
  /\ UNCHANGED <<handlerVars, pumpVars, billVars, continued>>

\* Another socket is told the id of its response.
MintElsewhere ==
  /\ \E r \in Rid : r[1] \in Elsewhere /\ Bind(r[1], r[2])
  /\ UNCHANGED <<handlerVars, pumpVars, billVars, continued>>

\* What the socket's goroutines do by themselves.
OwnStep(s) ==
  \/ SettleInline(s) \/ DeliverFails(s) \/ ReaderNotices(s) \/ WriterNotices(s)
  \/ TakeBill(s) \/ SettleBill(s) \/ Join(s) \/ Finish(s)

SocketNext ==
  \/ \E s \in Followed :
       \/ Refuse(s) \/ Admit(s) \/ TurnAway(s) \/ Upgrade(s)
       \/ NoFirstFrame(s) \/ FirstFrame(s)
       \/ \E a \in Cred : Acquire(s, a)
       \/ Dials(s) \/ DialFails(s) \/ NoUpstream(s) \/ OpenTurn(s) \/ OpenFails(s)
       \/ \E n \in 0 .. MaxUsage : ReadOutput(s, n) \/ ReadFinal(s, n)
       \/ ReadStatus(s) \/ Deliver(s) \/ UpstreamEnds(s)
       \/ ClientSends(s) \/ WriterStops(s) \/ ShutDown(s)
       \/ OwnStep(s)
  \/ MintElsewhere \/ Expire

SocketSpec == SocketInit /\ [][SocketNext]_socketVars

FairSocketSpec == SocketSpec /\ \A s \in Followed : WF_socketVars(OwnStep(s))
-----------------------------------------------------------------------------
(***************************************************************************)
(* Properties.                                                             *)
(***************************************************************************)
Outstanding(s, k) == k \in queued[s] \/ inhand[s] = k \/ inline[s] = k
Due(s, k) == IF k <= served[s] THEN used[s][k] ELSE 0

\* Every turn that upstream ended is settled once, with the tokens reported in
\* that turn and no others, whichever goroutine settles it and however the
\* socket ends; and nothing is left to settle when the handler returns
\* (pumpCodexWS, billTurn, close(billCh) and billWG.Wait).
BilledTurnByTurn ==
  \A s \in Socket, k \in Turn :
    /\ paid[s][k] + (IF Outstanding(s, k) THEN amount[s][k] ELSE 0) = Due(s, k)
    /\ stage[s] = "gone" => paid[s][k] = Due(s, k)

\* A client whose answer was cut off is not told that the socket closed
\* normally, unless it was the client that went (stop in pumpCodexWS).
HalfIsNeverNormal == \A s \in Socket : half[s] => code[s] # "upstream"

\* A response is continued only from a socket of the group it was minted in
\* (codexRespAccountStore), on the first frame and on every later one.
ChainStaysInGroup ==
  \A c \in continued : MyGroup(c[1]) = MyGroup(c[2][1])

Seated(s) == stage[s] \in {"dialing", "opening", "pumping", "draining"}

\* The pool and the in-flight counter know exactly the sockets that are there,
\* those about to be refused included, through every way out of
\* handleCodexResponsesWS.
SeatsExact ==
  /\ \A x \in Seat : seats[x] = Cardinality({s \in Socket : Seated(s) /\ SeatOf(s) = x})
  /\ \A t \in Token : inflight[t] =
       Cardinality({s \in Socket : stage[s] \notin {"new", "gone"} /\ TokenOf[s] = t})

\* Once somebody has called stop, the handler settles what it has and returns.
TearsDown == \A s \in Socket : code[s] # "open" ~> stage[s] = "gone"

\* ClientMaxSessions: "Maximum pool slots one client token may hold at once for
\* a single provider" (config.go).
SessionsCapped == \A t \in Token : Cardinality(Held(t)) <= MaxSess
=============================================================================
