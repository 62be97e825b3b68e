-------------------------- MODULE CodexSocketProofs --------------------------
(***************************************************************************)
(* Codex sockets, for any number of sockets, tokens, groups, credentials   *)
(* and turns, and a queue of bills of any length.                          *)
(***************************************************************************)
EXTENDS CodexSocket, FiniteSetTheorems, TLAPS

-----------------------------------------------------------------------------
(***************************************************************************)
(* How a socket is closed.                                                 *)
(***************************************************************************)
Readers == {"reading", "output", "settling", "final", "done"}

\* What the client has of an unfinished turn, the reader knows to be
\* unfinished, until it has read the end of it.
HalfInv ==
  /\ reader \in [Socket -> Readers] /\ code \in [Socket -> Codes]
  /\ midTurn \in [Socket -> BOOLEAN] /\ half \in [Socket -> BOOLEAN]
  /\ \A s \in Socket :
       /\ reader[s] = "output" => midTurn[s]
       /\ half[s] /\ reader[s] \in {"reading", "output"} => midTurn[s]
       /\ half[s] => code[s] # "upstream"

LEMMA HalfInit == SocketInit => HalfInv
  BY DEF SocketInit, HalfInv, Readers, Codes

LEMMA HandlerLeavesHalf ==
  ASSUME NEW s \in Socket,
         \/ Refuse(s) \/ Admit(s) \/ TurnAway(s) \/ Upgrade(s) \/ NoFirstFrame(s) \/ FirstFrame(s)
         \/ \E a \in Cred : Acquire(s, a)
         \/ Dials(s) \/ DialFails(s) \/ NoUpstream(s) \/ OpenTurn(s) \/ OpenFails(s)
         \/ ClientSends(s) \/ TakeBill(s) \/ SettleBill(s) \/ Join(s) \/ Finish(s)
         \/ WriterNotices(s)
  PROVE  UNCHANGED <<reader, code, midTurn, half>>
  BY DEF Refuse, Admit, TurnAway, Upgrade,
     NoFirstFrame, FirstFrame, Acquire, Dials, DialFails, NoUpstream, OpenTurn,
     OpenFails, ClientSends, TakeBill, SettleBill, Join, Finish, WriterNotices, pumpVars

LEMMA HalfKept ==
  ASSUME HalfInv, [SocketNext]_socketVars
  PROVE  HalfInv'
  <1>1. ASSUME UNCHANGED <<reader, code, midTurn, half>> PROVE HalfInv'
    BY <1>1 DEF HalfInv
  <1>2. CASE UNCHANGED socketVars \/ MintElsewhere \/ Expire
    BY <1>1, <1>2 DEF socketVars, MintElsewhere, Expire, pumpVars
  <1>3. ASSUME NEW s \in Socket, NEW n, ReadOutput(s, n) PROVE HalfInv'
    BY <1>3 DEF HalfInv, ReadOutput, Reader, Readers
  <1>4. ASSUME NEW s \in Socket, NEW n, ReadFinal(s, n) PROVE HalfInv'
    BY <1>4 DEF HalfInv, ReadFinal, Reader, Readers
  <1>5. ASSUME NEW s \in Socket, ReadStatus(s) PROVE HalfInv'
    BY <1>5 DEF HalfInv, ReadStatus
  <1>6. ASSUME NEW s \in Socket, SettleInline(s) PROVE HalfInv'
    BY <1>6 DEF HalfInv, SettleInline, Reader, Readers
  <1>7. ASSUME NEW s \in Socket, Deliver(s) PROVE HalfInv'
    BY <1>7 DEF HalfInv, Deliver, Reader, Readers, Open
  <1>8. ASSUME NEW s \in Socket, DeliverFails(s) PROVE HalfInv'
    BY <1>8 DEF HalfInv, DeliverFails, Reader, Readers, Stop, Codes
  <1>9. ASSUME NEW s \in Socket, UpstreamEnds(s) PROVE HalfInv'
    BY <1>9 DEF HalfInv, UpstreamEnds, Reader, Readers, Stop, Codes, EndOfStream
  <1>10. ASSUME NEW s \in Socket, ReaderNotices(s) PROVE HalfInv'
    BY <1>10 DEF HalfInv, ReaderNotices, Reader, Readers
  <1>11. ASSUME NEW s \in Socket, WriterStops(s) \/ ShutDown(s) PROVE HalfInv'
    BY <1>11 DEF HalfInv, WriterStops, ShutDown, Stop, Codes
  <1> QED BY <1>1, <1>2, <1>3, <1>4, <1>5, <1>6, <1>7, <1>8, <1>9, <1>10, <1>11, HandlerLeavesHalf
          DEF SocketNext, OwnStep, Followed

\* A client whose answer stops in the middle is never told that the socket
\* closed normally, whichever goroutine was first to call stop (pumpCodexWS).
THEOREM HalfAnswersAreTold == SocketSpec => []HalfIsNeverNormal
  <1>1. HalfInv => HalfIsNeverNormal
    BY DEF HalfInv, HalfIsNeverNormal
  <1> QED BY <1>1, HalfInit, HalfKept, PTL DEF SocketSpec

-----------------------------------------------------------------------------
(***************************************************************************)
(* Who continues whose responses.                                          *)
(***************************************************************************)
ChainInv ==
  /\ \A e \in chain : e[1] = MyGroup(e[2][1])
  /\ ChainStaysInGroup

LEMMA ContinuesKeeps ==
  ASSUME ChainInv, NEW s \in Socket, Continues(s), UNCHANGED chain
  PROVE  ChainInv'
  <1>1. CASE UNCHANGED continued
    BY <1>1 DEF ChainInv, ChainStaysInGroup
  <1>2. ASSUME NEW r \in Rid, Known(MyGroup(s), r), continued' = continued \cup {<<s, r>>}
        PROVE  ChainInv'
    <2>1. MyGroup(s) = MyGroup(r[1])
      BY <1>2 DEF ChainInv, Known
    <2> QED BY <1>2, <2>1 DEF ChainInv, ChainStaysInGroup
  <1> QED BY <1>1, <1>2 DEF Continues

LEMMA BindKeeps ==
  ASSUME ChainInv, NEW s, NEW k, Bind(s, k), UNCHANGED continued
  PROVE  ChainInv'
  BY DEF ChainInv, Bind, ChainStaysInGroup, MyGroup

LEMMA ChainKept ==
  ASSUME ChainInv, [SocketNext]_socketVars
  PROVE  ChainInv'
  <1>1. ASSUME UNCHANGED <<chain, continued>> PROVE ChainInv'
    BY <1>1 DEF ChainInv, ChainStaysInGroup
  <1>2. ASSUME NEW s \in Socket, FirstFrame(s) \/ ClientSends(s) PROVE ChainInv'
    BY <1>2, ContinuesKeeps DEF FirstFrame, ClientSends
  <1>3. ASSUME NEW s \in Socket, NEW n, ReadOutput(s, n) \/ ReadFinal(s, n) PROVE ChainInv'
    BY <1>1, <1>3, BindKeeps DEF ReadOutput, ReadFinal, Report
  <1>4. CASE MintElsewhere
    BY <1>4, BindKeeps DEF MintElsewhere
  <1>5. CASE Expire
    BY <1>5 DEF Expire, ChainInv, ChainStaysInGroup
  <1>6. CASE UNCHANGED socketVars
    BY <1>1, <1>6 DEF socketVars, chainVars
  <1>7. ASSUME NEW s \in Socket,
               \/ Refuse(s) \/ Admit(s) \/ TurnAway(s) \/ Upgrade(s)
               \/ NoFirstFrame(s) \/ \E a \in Cred : Acquire(s, a)
               \/ Dials(s) \/ DialFails(s) \/ NoUpstream(s) \/ OpenTurn(s) \/ OpenFails(s)
               \/ ReadStatus(s) \/ Deliver(s) \/ UpstreamEnds(s) \/ WriterStops(s) \/ ShutDown(s)
               \/ OwnStep(s)
        PROVE  ChainInv'
    <2>1. UNCHANGED <<chain, continued>>
      BY <1>7 DEF Refuse, Admit, TurnAway, Upgrade,
         NoFirstFrame, Acquire, Dials, DialFails, NoUpstream, OpenTurn,
         OpenFails, ReadStatus, Deliver, UpstreamEnds, WriterStops, ShutDown, OwnStep, SettleInline,
         DeliverFails, ReaderNotices, WriterNotices, TakeBill, SettleBill, Join, Finish, chainVars
    <2> QED BY <1>1, <2>1
  <1> QED BY <1>2, <1>3, <1>4, <1>5, <1>6, <1>7 DEF SocketNext, Followed

\* A response id is continued in the group it was minted in and in no other,
\* however long the socket lives and whatever the table forgets
\* (codexRespAccountStore).
THEOREM ResponsesStayInTheirGroup == SocketSpec => []ChainStaysInGroup
  <1>1. SocketInit => ChainInv
    BY DEF SocketInit, ChainInv, ChainStaysInGroup
  <1>2. ChainInv => ChainStaysInGroup
    BY DEF ChainInv
  <1> QED BY <1>1, <1>2, ChainKept, PTL DEF SocketSpec

-----------------------------------------------------------------------------
(***************************************************************************)
(* Seats and the in-flight counter.                                        *)
(***************************************************************************)
SeatedStages == {"dialing", "opening", "pumping", "draining"}
Stages == {"new", "overlimit", "counted", "waiting", "choosing", "gone"} \cup SeatedStages

Sitting(x) == {s \in Socket : stage[s] \in SeatedStages /\ SeatOf(s) = x}
Flying(t) == {s \in Socket : stage[s] \notin {"new", "gone"} /\ TokenOf[s] = t}

SeatsInv ==
  /\ stage \in [Socket -> Stages] /\ slot \in [Socket -> Slot]
  /\ seats \in [Seat -> Int] /\ inflight \in [Token -> Int]
  /\ \A x \in Seat : seats[x] = Cardinality(Sitting(x))
  /\ \A t \in Token : inflight[t] = Cardinality(Flying(t))

LEMMA OneMore ==
  ASSUME NEW S \in SUBSET Socket, NEW s \in Socket \ S
  PROVE  Cardinality(S \cup {s}) = Cardinality(S) + 1
  <1>1. IsFiniteSet(S)
    BY SocketAssumption, FS_Subset
  <1> QED BY <1>1, FS_AddElement

LEMMA OneLess ==
  ASSUME NEW S \in SUBSET Socket, NEW s \in S
  PROVE  Cardinality(S \ {s}) = Cardinality(S) - 1
  <1>1. IsFiniteSet(S)
    BY SocketAssumption, FS_Subset
  <1> QED BY <1>1, FS_RemoveElement

LEMMA SeatsInit == SocketInit => SeatsInv
  <1> SUFFICES ASSUME SocketInit PROVE SeatsInv
    OBVIOUS
  <1>1. \A x : Sitting(x) = {} /\ Flying(x) = {}
    BY DEF SocketInit, Sitting, Flying, SeatedStages
  <1>2. \A x : Cardinality(Sitting(x)) = 0 /\ Cardinality(Flying(x)) = 0
    BY <1>1, FS_EmptySet
  <1>3. /\ stage \in [Socket -> Stages] /\ slot \in [Socket -> Slot]
        /\ seats = [x \in Seat |-> 0] /\ inflight = [t \in Token |-> 0]
    BY DEF SocketInit, Stages
  <1> QED BY <1>2, <1>3 DEF SeatsInv

LEMMA SeatIsSeat ==
  ASSUME slot \in [Socket -> Slot], NEW s \in Socket
  PROVE  SeatOf(s) \in Seat /\ TokenOf[s] \in Token
  BY SocketAssumption DEF SeatOf, Seat

\* The socket is or is not on its seat as before.
LEMMA SeatStays ==
  ASSUME SeatsInv, NEW s \in Socket, NEW w \in Stages, Goto(s, w), UNCHANGED <<slot, seats>>,
         stage[s] \in SeatedStages <=> w \in SeatedStages
  PROVE  seats' \in [Seat -> Int] /\ \A x \in Seat : seats'[x] = Cardinality(Sitting(x)')
  <1>1. \A x \in Seat : Sitting(x)' = Sitting(x)
    BY DEF SeatsInv, Goto, Sitting, SeatOf
  <1> QED BY <1>1 DEF SeatsInv

\* The pool gives it a seat (AcquireWithOptions).
LEMMA SeatTaken ==
  ASSUME SeatsInv, NEW s \in Socket, NEW w \in SeatedStages, Goto(s, w), UNCHANGED slot, Sit(s),
         stage[s] \notin SeatedStages
  PROVE  seats' \in [Seat -> Int] /\ \A x \in Seat : seats'[x] = Cardinality(Sitting(x)')
  <1>1. SeatOf(s) \in Seat /\ seats' = [seats EXCEPT ![SeatOf(s)] = @ + 1]
    BY SeatIsSeat DEF SeatsInv, Sit
  <1>2. ASSUME NEW x \in Seat, x # SeatOf(s) PROVE Sitting(x)' = Sitting(x)
    BY <1>2 DEF SeatsInv, Goto, Sitting, SeatOf
  <1>3. Sitting(SeatOf(s))' = Sitting(SeatOf(s)) \cup {s} /\ s \notin Sitting(SeatOf(s))
    BY DEF SeatsInv, Goto, Sitting, SeatOf
  <1>4. Sitting(SeatOf(s)) \in SUBSET Socket
    BY DEF Sitting
  <1>5. Cardinality(Sitting(SeatOf(s))') = Cardinality(Sitting(SeatOf(s))) + 1
    BY <1>3, <1>4, OneMore
  <1>6. SeatOf(s)' = SeatOf(s)
    BY DEF SeatOf
  <1> QED BY <1>1, <1>2, <1>5, <1>6 DEF SeatsInv

\* It is given back (ReleaseTokenSession).
LEMMA SeatLeft ==
  ASSUME SeatsInv, NEW s \in Socket, NEW w \in Stages \ SeatedStages, Goto(s, w), UNCHANGED slot,
         Rise(s), stage[s] \in SeatedStages
  PROVE  seats' \in [Seat -> Int] /\ \A x \in Seat : seats'[x] = Cardinality(Sitting(x)')
  <1>1. SeatOf(s) \in Seat /\ seats' = [seats EXCEPT ![SeatOf(s)] = @ - 1]
    BY SeatIsSeat DEF SeatsInv, Rise
  <1>2. ASSUME NEW x \in Seat, x # SeatOf(s) PROVE Sitting(x)' = Sitting(x)
    BY <1>2 DEF SeatsInv, Goto, Sitting, SeatOf
  <1>3. Sitting(SeatOf(s))' = Sitting(SeatOf(s)) \ {s} /\ s \in Sitting(SeatOf(s))
    BY DEF SeatsInv, Goto, Sitting, SeatOf
  <1>4. Sitting(SeatOf(s)) \in SUBSET Socket
    BY DEF Sitting
  <1>5. Cardinality(Sitting(SeatOf(s))') = Cardinality(Sitting(SeatOf(s))) - 1
    BY <1>3, <1>4, OneLess
  <1>6. SeatOf(s)' = SeatOf(s)
    BY DEF SeatOf
  <1> QED BY <1>1, <1>2, <1>5, <1>6 DEF SeatsInv

Flies(w) == w \notin {"new", "gone"}

LEMMA FlightStays ==
  ASSUME SeatsInv, NEW s \in Socket, NEW w \in Stages, Goto(s, w), UNCHANGED inflight,
         Flies(stage[s]) <=> Flies(w)
  PROVE  inflight' \in [Token -> Int] /\ \A t \in Token : inflight'[t] = Cardinality(Flying(t)')
  <1>1. \A t \in Token : Flying(t)' = Flying(t)
    BY DEF SeatsInv, Goto, Flying, Flies
  <1> QED BY <1>1 DEF SeatsInv

LEMMA FlightStarts ==
  ASSUME SeatsInv, NEW s \in Socket, NEW w \in {"overlimit", "counted"}, Goto(s, w),
         stage[s] = "new",
         inflight' = [inflight EXCEPT ![TokenOf[s]] = @ + 1]
  PROVE  inflight' \in [Token -> Int] /\ \A t \in Token : inflight'[t] = Cardinality(Flying(t)')
  <1>1. TokenOf[s] \in Token
    BY SocketAssumption
  <1>2. ASSUME NEW t \in Token, t # TokenOf[s] PROVE Flying(t)' = Flying(t)
    BY <1>2 DEF SeatsInv, Goto, Flying
  <1>3. Flying(TokenOf[s])' = Flying(TokenOf[s]) \cup {s} /\ s \notin Flying(TokenOf[s])
    BY DEF SeatsInv, Goto, Flying
  <1>4. Flying(TokenOf[s]) \in SUBSET Socket
    BY DEF Flying
  <1>5. Cardinality(Flying(TokenOf[s])') = Cardinality(Flying(TokenOf[s])) + 1
    BY <1>3, <1>4, OneMore
  <1> QED BY <1>1, <1>2, <1>5 DEF SeatsInv

\* The deferred release.
LEMMA FlightEnds ==
  ASSUME SeatsInv, NEW s \in Socket, Return(s), stage[s] \in Stages, Flies(stage[s])
  PROVE  inflight' \in [Token -> Int] /\ \A t \in Token : inflight'[t] = Cardinality(Flying(t)')
  <1>1. TokenOf[s] \in Token /\ inflight' = [inflight EXCEPT ![TokenOf[s]] = @ - 1]
    BY SocketAssumption DEF Return
  <1>2. ASSUME NEW t \in Token, t # TokenOf[s] PROVE Flying(t)' = Flying(t)
    BY <1>2 DEF SeatsInv, Return, Goto, Flying
  <1>3. Flying(TokenOf[s])' = Flying(TokenOf[s]) \ {s} /\ s \in Flying(TokenOf[s])
    BY DEF SeatsInv, Return, Goto, Flying, Flies
  <1>4. Flying(TokenOf[s]) \in SUBSET Socket
    BY DEF Flying
  <1>5. Cardinality(Flying(TokenOf[s])') = Cardinality(Flying(TokenOf[s])) - 1
    BY <1>3, <1>4, OneLess
  <1> QED BY <1>1, <1>2, <1>5 DEF SeatsInv

SeatsHold == seats' \in [Seat -> Int] /\ \A x \in Seat : seats'[x] = Cardinality(Sitting(x)')
FlightsHold ==
  inflight' \in [Token -> Int] /\ \A t \in Token : inflight'[t] = Cardinality(Flying(t)')

LEMMA SeatsCount ==
  ASSUME SeatsInv, NEW s \in Socket, NEW w \in Stages, Goto(s, w), UNCHANGED slot,
         SeatsHold, FlightsHold
  PROVE  SeatsInv'
  BY DEF SeatsInv, Goto, SeatsHold, FlightsHold

\* The gates, the first frame and the ways out before the relay.
LEMMA SeatsByHandler ==
  ASSUME SeatsInv, NEW s \in Socket,
         \/ Refuse(s) \/ Admit(s) \/ TurnAway(s) \/ Upgrade(s) \/ NoFirstFrame(s) \/ FirstFrame(s)
         \/ \E a \in Cred : Acquire(s, a)
         \/ Dials(s) \/ DialFails(s) \/ NoUpstream(s) \/ OpenTurn(s) \/ OpenFails(s)
         \/ Join(s) \/ Finish(s)
  PROVE  SeatsInv'
  <1>0. \A w \in Stages : Goto(s, w) /\ UNCHANGED slot /\ SeatsHold /\ FlightsHold => SeatsInv'
    BY SeatsCount
  <1>1. ASSUME NEW w \in Stages, Goto(s, w), UNCHANGED <<slot, seats>>,
               stage[s] \in SeatedStages <=> w \in SeatedStages
        PROVE  SeatsHold
    BY <1>1, SeatStays DEF SeatsHold
  <1>2. ASSUME NEW w \in Stages, Goto(s, w), UNCHANGED inflight, Flies(stage[s]) <=> Flies(w)
        PROVE  FlightsHold
    BY <1>2, FlightStays DEF FlightsHold
  <1>3. ASSUME NEW w \in SeatedStages, Goto(s, w), UNCHANGED slot, Sit(s),
               stage[s] \notin SeatedStages
        PROVE  SeatsHold
    BY <1>3, SeatTaken DEF SeatsHold
  <1>4. ASSUME NEW w \in Stages \ SeatedStages, Goto(s, w), UNCHANGED slot, Rise(s),
               stage[s] \in SeatedStages
        PROVE  SeatsHold
    BY <1>4, SeatLeft DEF SeatsHold
  <1>5. ASSUME Return(s), Flies(stage[s]) PROVE FlightsHold /\ Goto(s, "gone")
    BY <1>5, FlightEnds DEF FlightsHold, SeatsInv, Return
  <1> USE DEF Stages, SeatedStages, Flies
  <1>6. CASE Admit(s)
    <2>1. PICK w \in {"overlimit", "counted"} :
            Goto(s, w) /\ inflight' = [inflight EXCEPT ![TokenOf[s]] = @ + 1]
      BY <1>6 DEF Admit
    <2>2. SeatsHold /\ UNCHANGED slot
      BY <1>1, <1>6, <2>1 DEF Admit
    <2>3. FlightsHold
      BY <1>6, <2>1, FlightStarts DEF Admit, FlightsHold
    <2> QED BY <1>0, <2>1, <2>2, <2>3
  <1>7. CASE Refuse(s)
    BY <1>0, <1>1, <1>2, <1>7 DEF Refuse
  <1>8. CASE TurnAway(s) \/ NoFirstFrame(s)
    BY <1>0, <1>1, <1>5, <1>8 DEF TurnAway, NoFirstFrame
  <1>9. CASE Upgrade(s) \/ FirstFrame(s)
    BY <1>0, <1>1, <1>2, <1>9 DEF Upgrade, FirstFrame
  <1>10. ASSUME NEW a \in Cred, Acquire(s, a) PROVE SeatsInv'
    BY <1>0, <1>2, <1>3, <1>10 DEF Acquire
  <1>11. CASE Dials(s)
    BY <1>0, <1>1, <1>2, <1>11 DEF Dials
  <1>12. CASE DialFails(s)
    BY <1>0, <1>2, <1>4, <1>12 DEF DialFails
  <1>13. CASE NoUpstream(s)
    BY <1>0, <1>1, <1>5, <1>13 DEF NoUpstream
  <1>14. CASE OpenTurn(s)
    BY <1>0, <1>1, <1>2, <1>14 DEF OpenTurn
  <1>15. CASE OpenFails(s)
    BY <1>0, <1>4, <1>5, <1>15 DEF OpenFails
  <1>16. CASE Join(s)
    BY <1>0, <1>1, <1>2, <1>16 DEF Join
  <1>17. CASE Finish(s)
    BY <1>0, <1>4, <1>5, <1>17 DEF Finish
  <1> QED BY <1>6, <1>7, <1>8, <1>9, <1>10, <1>11, <1>12, <1>13, <1>14, <1>15, <1>16, <1>17

LEMMA SeatsKept ==
  ASSUME SeatsInv, [SocketNext]_socketVars
  PROVE  SeatsInv'
  <1>1. ASSUME UNCHANGED <<stage, slot, seats, inflight>> PROVE SeatsInv'
    <2>1. \A x : Sitting(x)' = Sitting(x) /\ Flying(x)' = Flying(x)
      BY <1>1 DEF Sitting, Flying, SeatOf
    <2> QED BY <1>1, <2>1 DEF SeatsInv
  <1>2. ASSUME NEW s \in Socket,
               \/ \E n \in 0 .. MaxUsage : ReadOutput(s, n) \/ ReadFinal(s, n)
               \/ ReadStatus(s) \/ Deliver(s) \/ UpstreamEnds(s) \/ ClientSends(s)
               \/ WriterStops(s) \/ ShutDown(s) \/ SettleInline(s) \/ DeliverFails(s)
               \/ ReaderNotices(s) \/ WriterNotices(s) \/ TakeBill(s) \/ SettleBill(s)
        PROVE  SeatsInv'
    <2>1. UNCHANGED handlerVars
      BY <1>2 DEF ReadOutput, ReadFinal, ReadStatus, Deliver, UpstreamEnds, ClientSends,
         WriterStops, ShutDown, SettleInline, DeliverFails, ReaderNotices, WriterNotices,
         TakeBill, SettleBill
    <2> QED BY <1>1, <2>1 DEF handlerVars
  <1>3. CASE MintElsewhere \/ Expire \/ UNCHANGED socketVars
    BY <1>1, <1>3 DEF MintElsewhere, Expire, socketVars, handlerVars
  <1> QED BY <1>2, <1>3, SeatsByHandler DEF SocketNext, OwnStep, Followed

\* No way through the handler leaves a seat or an in-flight slot behind, or
\* gives one back twice (handleCodexResponsesWS).
THEOREM SeatsAreExact == SocketSpec => []SeatsExact
  <1>1. SeatsInv => SeatsExact
    BY DEF SeatsInv, SeatsExact, Sitting, Flying, Seated, SeatedStages
  <1> QED BY <1>1, SeatsInit, SeatsKept, PTL DEF SocketSpec

-----------------------------------------------------------------------------
(***************************************************************************)
(* The bills.                                                              *)
(***************************************************************************)
Amounts == [Turn -> Nat]

BillTypes ==
  /\ stage \in [Socket -> Stages] /\ reader \in [Socket -> Readers]
  /\ sent \in [Socket -> 0 .. MaxTurns] /\ served \in [Socket -> 0 .. MaxTurns]
  /\ counts \in [Socket -> Nat] /\ billed \in [Socket -> Nat]
  /\ used \in [Socket -> Amounts] /\ amount \in [Socket -> Amounts] /\ paid \in [Socket -> Amounts]
  /\ queued \in [Socket -> SUBSET Turn]
  /\ inhand \in [Socket -> 0 .. MaxTurns] /\ inline \in [Socket -> 0 .. MaxTurns]

\* A turn that has ended is waiting with what it reported, or paid that; of the
\* others the current one alone has reported anything, and it is what the
\* running totals are ahead by.
TurnBooks(s, k) ==
  /\ k > served[s] => paid[s][k] = 0
  /\ k = served[s] + 1 => counts[s] = billed[s] + used[s][k]
  /\ k > served[s] + 1 => used[s][k] = 0
  /\ Outstanding(s, k) => k <= served[s] /\ paid[s][k] = 0 /\ amount[s][k] = used[s][k]
  /\ k <= served[s] /\ ~Outstanding(s, k) => paid[s][k] = used[s][k]

Early == {"new", "overlimit", "counted", "waiting", "choosing", "dialing", "opening"}

SocketBooks(s) ==
  /\ served[s] <= sent[s]
  /\ \A k \in Turn : TurnBooks(s, k)
  /\ \A k \in Turn : k \in queued[s] => inhand[s] # k /\ inline[s] # k
  /\ inhand[s] # 0 => inhand[s] # inline[s]
  /\ inline[s] # 0 <=> reader[s] = "settling"
  /\ stage[s] \notin {"pumping", "draining"} => queued[s] = {} /\ inhand[s] = 0
  /\ stage[s] # "pumping" => reader[s] \in {"reading", "done"}
  /\ stage[s] \in Early => sent[s] = 0

BillInv == BillTypes /\ \A s \in Socket : SocketBooks(s)

LEMMA BillInit == SocketInit => BillInv
  <1> SUFFICES ASSUME SocketInit PROVE BillInv
    OBVIOUS
  <1>1. MaxTurns \in Nat
    BY SocketAssumption
  <1>2. BillTypes
    BY <1>1 DEF SocketInit, BillTypes, Amounts, Stages, Readers
  <1>3. ASSUME NEW s \in Socket, NEW k \in Turn PROVE TurnBooks(s, k)
    BY <1>1 DEF SocketInit, TurnBooks, Outstanding, Turn
  <1>4. ASSUME NEW s \in Socket PROVE SocketBooks(s)
    BY <1>1, <1>3 DEF SocketInit, SocketBooks
  <1> QED BY <1>2, <1>4 DEF BillInv

\* What a socket does is in its own books only.
SameBooks(s) ==
  /\ stage'[s] = stage[s] /\ reader'[s] = reader[s] /\ sent'[s] = sent[s]
  /\ served'[s] = served[s] /\ counts'[s] = counts[s] /\ billed'[s] = billed[s]
  /\ used'[s] = used[s] /\ amount'[s] = amount[s] /\ paid'[s] = paid[s]
  /\ queued'[s] = queued[s] /\ inhand'[s] = inhand[s] /\ inline'[s] = inline[s]

LEMMA SameBooksKeep ==
  ASSUME NEW s, SocketBooks(s), SameBooks(s)
  PROVE  SocketBooks(s)'
  BY DEF SameBooks, SocketBooks, TurnBooks, Outstanding

\* A step of one socket that turns none of its pages.
Quiet(s) ==
  /\ UNCHANGED <<served, used, counts, billed, amount, queued, inhand, inline, paid>>
  /\ stage' \in [Socket -> Stages] /\ reader' \in [Socket -> Readers]
  /\ sent' \in [Socket -> 0 .. MaxTurns]
  /\ \A t \in Socket \ {s} : stage'[t] = stage[t] /\ reader'[t] = reader[t] /\ sent'[t] = sent[t]
  /\ sent'[s] >= sent[s]
  /\ reader'[s] = "settling" <=> reader[s] = "settling"
  /\ stage'[s] \notin {"pumping", "draining"} => queued[s] = {} /\ inhand[s] = 0
  /\ stage'[s] # "pumping" => reader'[s] \in {"reading", "done"}
  /\ stage'[s] \in Early => sent'[s] = 0

LEMMA QuietKeeps ==
  ASSUME BillInv, NEW s \in Socket, Quiet(s)
  PROVE  BillInv'
  <1>1. BillTypes'
    BY DEF BillInv, BillTypes, Quiet
  <1>2. ASSUME NEW t \in Socket, t # s PROVE SocketBooks(t)'
    <2>1. SameBooks(t)
      BY <1>2 DEF Quiet, SameBooks
    <2> QED BY <2>1, SameBooksKeep DEF BillInv
  <1>3. SocketBooks(s)'
    <2>1. \A k \in Turn : TurnBooks(s, k)'
      BY DEF BillInv, SocketBooks, TurnBooks, Outstanding, Quiet
    <2>2. served'[s] <= sent'[s]
      BY DEF BillInv, BillTypes, SocketBooks, Quiet
    <2> QED BY <2>1, <2>2 DEF BillInv, SocketBooks, Quiet
  <1> QED BY <1>1, <1>2, <1>3 DEF BillInv

LEMMA HandlerIsQuiet ==
  ASSUME BillInv, NEW s \in Socket,
         \/ Refuse(s) \/ Admit(s) \/ TurnAway(s) \/ Upgrade(s) \/ NoFirstFrame(s) \/ FirstFrame(s)
         \/ \E a \in Cred : Acquire(s, a)
         \/ Dials(s) \/ DialFails(s) \/ NoUpstream(s) \/ OpenFails(s) \/ Join(s) \/ Finish(s)
  PROVE  Quiet(s)
  <1>1. UNCHANGED <<served, used, counts, billed, amount, queued, inhand, inline, paid, reader, sent>>
    BY DEF Refuse, Admit, TurnAway, Upgrade,
       NoFirstFrame, FirstFrame, Acquire, Dials, DialFails, NoUpstream,
       OpenFails, Join, Finish, pumpVars, billVars
  <1>2. PICK w \in Stages \ {"pumping"} :
          /\ stage' = [stage EXCEPT ![s] = w]
          /\ w = "draining" => reader[s] = "done"
          /\ w \in Early => stage[s] \in Early
          /\ w # "draining" => stage[s] # "pumping"
          /\ stage[s] = "draining" => queued[s] = {} /\ inhand[s] = 0
    BY DEF Refuse, Admit, TurnAway, Upgrade,
       NoFirstFrame, FirstFrame, Acquire, Dials, DialFails, NoUpstream,
       OpenFails, Join, Finish, Goto, Return, Drained, Stages, SeatedStages, Early
  <1>3. SocketBooks(s) /\ BillTypes
    BY DEF BillInv
  <1>4. stage'[s] = w /\ \A t \in Socket \ {s} : stage'[t] = stage[t]
    BY <1>2, <1>3 DEF BillTypes
  <1>5. BillTypes' \/ stage' \in [Socket -> Stages]
    BY <1>2, <1>3 DEF BillTypes
  <1>6. reader'[s] \in {"reading", "done"}
    BY <1>1, <1>2, <1>3 DEF SocketBooks
  <1>7. w \notin {"pumping", "draining"} => queued[s] = {} /\ inhand[s] = 0
    BY <1>2, <1>3 DEF SocketBooks
  <1>8. w \in Early => sent[s] = 0
    BY <1>2, <1>3 DEF SocketBooks
  <1> QED BY <1>1, <1>2, <1>3, <1>4, <1>5, <1>6, <1>7, <1>8 DEF Quiet, BillTypes

LEMMA RelayIsQuiet ==
  ASSUME BillInv, NEW s \in Socket,
         \/ ReadStatus(s) \/ Deliver(s) \/ DeliverFails(s) \/ UpstreamEnds(s) \/ ReaderNotices(s)
         \/ WriterStops(s) \/ WriterNotices(s) \/ ShutDown(s)
  PROVE  Quiet(s)
  <1>1. UNCHANGED <<served, used, counts, billed, amount, queued, inhand, inline, paid, stage, sent>>
    BY DEF ReadStatus, Deliver, DeliverFails, UpstreamEnds, ReaderNotices, WriterStops,
       WriterNotices, ShutDown, handlerVars, billVars
  <1>2. \/ UNCHANGED reader
        \/ /\ reader[s] # "settling"
           /\ reader' = [reader EXCEPT ![s] = "reading"] \/ reader' = [reader EXCEPT ![s] = "done"]
    BY DEF ReadStatus, Deliver, DeliverFails, UpstreamEnds, ReaderNotices, WriterStops,
       WriterNotices, ShutDown, Reader
  <1>3. SocketBooks(s) /\ BillTypes
    BY DEF BillInv
  <1>4. /\ reader' \in [Socket -> Readers]
        /\ \A t \in Socket \ {s} : reader'[t] = reader[t]
        /\ reader'[s] = "settling" <=> reader[s] = "settling"
        /\ reader[s] \in {"reading", "done"} => reader'[s] \in {"reading", "done"}
    BY <1>2, <1>3 DEF BillTypes, Readers
  <1> QED BY <1>1, <1>3, <1>4 DEF Quiet, BillTypes, SocketBooks

LEMMA SendingIsQuiet ==
  ASSUME BillInv, NEW s \in Socket, OpenTurn(s) \/ ClientSends(s)
  PROVE  Quiet(s)
  <1>1. UNCHANGED <<served, used, counts, billed, amount, queued, inhand, inline, paid, reader>>
    BY DEF OpenTurn, ClientSends, billVars
  <1>2. SocketBooks(s) /\ BillTypes /\ TurnsOf[s] \in 1 .. MaxTurns /\ MaxTurns \in Nat
    BY SocketAssumption DEF BillInv
  <1>3. CASE OpenTurn(s)
    <2>1. /\ stage[s] = "opening" /\ stage' = [stage EXCEPT ![s] = "pumping"]
          /\ sent' = [sent EXCEPT ![s] = 1]
      BY <1>3 DEF OpenTurn, Goto
    <2>2. sent[s] = 0
      BY <1>2, <2>1 DEF SocketBooks, Early
    <2> QED BY <1>1, <1>2, <2>1, <2>2
            DEF Quiet, BillTypes, SocketBooks, Stages, SeatedStages, Early
  <1>4. CASE ClientSends(s)
    <2>1. /\ stage[s] = "pumping" /\ stage' = stage
          /\ sent' = [sent EXCEPT ![s] = @ + 1] /\ sent[s] < TurnsOf[s]
      BY <1>4 DEF ClientSends, Open, handlerVars
    <2> QED BY <1>1, <1>2, <2>1 DEF Quiet, BillTypes, SocketBooks, Early
  <1> QED BY <1>3, <1>4

-----------------------------------------------------------------------------
(***************************************************************************)
(* The steps that write in the books.                                      *)
(***************************************************************************)
\* It is enough to look at the books of the socket that steps.
LEMMA BooksKeep ==
  ASSUME BillInv, BillTypes', NEW s \in Socket, SocketBooks(s)',
         \A t \in Socket \ {s} : SameBooks(t)
  PROVE  BillInv'
  BY SameBooksKeep DEF BillInv

\* What a frame of the current turn reports.
LEMMA ReportKeeps ==
  ASSUME BillInv, NEW s \in Socket, NEW n \in 0 .. MaxUsage, Report(s, n)
  PROVE  LET k == served[s] + 1 IN
         /\ k \in Turn /\ served[s] < sent[s]
         /\ used' \in [Socket -> Amounts] /\ counts' \in [Socket -> Nat]
         /\ used'[s][k] = used[s][k] + n /\ counts'[s] = counts[s] + n
         /\ \A j \in Turn : j # k => used'[s][j] = used[s][j]
         /\ \A t \in Socket \ {s} : used'[t] = used[t] /\ counts'[t] = counts[t]
  <1> DEFINE k == served[s] + 1
  <1>1. MaxTurns \in Nat /\ MaxUsage \in Nat
    BY SocketAssumption
  <1>2. BillTypes
    BY DEF BillInv
  <1>3. k \in Turn /\ served[s] < sent[s]
    BY <1>1, <1>2 DEF BillTypes, Report, Turn
  <1>4. used' = [used EXCEPT ![s][k] = @ + n] /\ counts' = [counts EXCEPT ![s] = @ + n]
    BY DEF Report
  <1>5. used[s] \in Amounts /\ used[s][k] \in Nat /\ counts[s] \in Nat /\ n \in Nat
    BY <1>1, <1>2, <1>3 DEF BillTypes, Amounts
  <1>6. /\ counts' \in [Socket -> Nat] /\ counts'[s] = counts[s] + n
        /\ \A t \in Socket \ {s} : counts'[t] = counts[t]
    BY <1>2, <1>4, <1>5 DEF BillTypes
  <1>7. used' = [used EXCEPT ![s] = [used[s] EXCEPT ![k] = @ + n]]
    BY <1>4
  <1>8. [used[s] EXCEPT ![k] = @ + n] \in Amounts
    <2>1. used[s][k] + n \in Nat
      BY <1>5
    <2> QED BY <1>5, <2>1 DEF Amounts
  <1>9. /\ used' \in [Socket -> Amounts] /\ used'[s] = [used[s] EXCEPT ![k] = @ + n]
        /\ \A t \in Socket \ {s} : used'[t] = used[t]
    BY <1>2, <1>7, <1>8 DEF BillTypes
  <1>10. used'[s][k] = used[s][k] + n /\ \A j \in Turn : j # k => used'[s][j] = used[s][j]
    BY <1>3, <1>5, <1>9 DEF Amounts
  <1> QED BY <1>3, <1>6, <1>9, <1>10

LEMMA OutputKeeps ==
  ASSUME BillInv, NEW s \in Socket, NEW n \in 0 .. MaxUsage, ReadOutput(s, n)
  PROVE  BillInv'
  <1> DEFINE k == served[s] + 1
  <1>1. /\ k \in Turn /\ served[s] < sent[s]
        /\ used' \in [Socket -> Amounts] /\ counts' \in [Socket -> Nat]
        /\ used'[s][k] = used[s][k] + n /\ counts'[s] = counts[s] + n
        /\ \A j \in Turn : j # k => used'[s][j] = used[s][j]
        /\ \A t \in Socket \ {s} : used'[t] = used[t] /\ counts'[t] = counts[t]
    BY ReportKeeps DEF ReadOutput
  <1>2. /\ UNCHANGED <<stage, sent, served, billed, amount, queued, inhand, inline, paid>>
        /\ reader' = [reader EXCEPT ![s] = "output"] /\ reader[s] = "reading" /\ stage[s] = "pumping"
    BY DEF ReadOutput, handlerVars, Reader, Open
  <1>3. BillTypes /\ SocketBooks(s)
    BY DEF BillInv
  <1>4. reader' \in [Socket -> Readers] /\ reader'[s] = "output"
        /\ \A t \in Socket \ {s} : reader'[t] = reader[t]
    BY <1>2, <1>3 DEF BillTypes, Readers
  <1>5. BillTypes'
    BY <1>1, <1>2, <1>3, <1>4 DEF BillTypes
  <1>6. \A t \in Socket \ {s} : SameBooks(t)
    BY <1>1, <1>2, <1>4 DEF SameBooks
  <1>7. MaxTurns \in Nat /\ MaxUsage \in Nat /\ served[s] \in Nat /\ counts[s] \in Nat
        /\ billed[s] \in Nat /\ n \in Nat /\ \A j \in Turn : j \in Nat /\ used[s][j] \in Nat
    BY <1>3, SocketAssumption DEF BillTypes, Amounts, Turn
  <1>8. ASSUME NEW j \in Turn PROVE TurnBooks(s, j)'
    <2>1. TurnBooks(s, j)
      BY <1>3 DEF SocketBooks
    <2>2. CASE j = k
      BY <1>1, <1>2, <1>7, <2>1, <2>2 DEF TurnBooks, Outstanding
    <2>3. CASE j # k
      BY <1>1, <1>2, <1>7, <2>1, <2>3 DEF TurnBooks, Outstanding
    <2> QED BY <2>2, <2>3
  <1>9. SocketBooks(s)'
    BY <1>2, <1>3, <1>4, <1>8 DEF SocketBooks, Early
  <1> QED BY <1>5, <1>6, <1>9, BooksKeep

\* The end of a turn: what the totals are ahead by is what it reported.
LEMMA FinalKeeps ==
  ASSUME BillInv, NEW s \in Socket, NEW n \in 0 .. MaxUsage, ReadFinal(s, n)
  PROVE  BillInv'
  <1>0. served[s] + 1 \in Turn
    BY ReportKeeps DEF ReadFinal
  <1> PICK k \in Turn : k = served[s] + 1
    BY <1>0
  <1>1. /\ k \in Turn /\ served[s] < sent[s]
        /\ used' \in [Socket -> Amounts] /\ counts' \in [Socket -> Nat]
        /\ used'[s][k] = used[s][k] + n /\ counts'[s] = counts[s] + n
        /\ \A j \in Turn : j # k => used'[s][j] = used[s][j]
        /\ \A t \in Socket \ {s} : used'[t] = used[t] /\ counts'[t] = counts[t]
    BY ReportKeeps DEF ReadFinal
  <1>2. /\ UNCHANGED <<stage, sent, inhand, paid>>
        /\ reader[s] = "reading" /\ stage[s] = "pumping"
        /\ served' = [served EXCEPT ![s] = k]
        /\ amount' = [amount EXCEPT ![s][k] = counts'[s] - billed[s]]
        /\ billed' = [billed EXCEPT ![s] = counts'[s]]
    BY DEF ReadFinal, handlerVars, Open, TurnDelta
  <1>3. \/ /\ reader' = [reader EXCEPT ![s] = "settling"] /\ inline' = [inline EXCEPT ![s] = k]
           /\ queued' = queued
        \/ /\ reader' = [reader EXCEPT ![s] = "final"] /\ inline' = inline
           /\ queued' = [queued EXCEPT ![s] = @ \cup {k}]
    BY DEF ReadFinal, Reader
  <1>4. BillTypes /\ SocketBooks(s) /\ MaxTurns \in Nat /\ MaxUsage \in Nat
    BY SocketAssumption DEF BillInv
  <1>5. /\ served[s] \in Nat /\ counts[s] \in Nat /\ billed[s] \in Nat /\ n \in Nat
        /\ \A j \in Turn : /\ j \in Nat /\ j # 0 /\ used[s][j] \in Nat
    <2>1. served[s] \in Nat /\ counts[s] \in Nat /\ billed[s] \in Nat
      BY <1>4 DEF BillTypes
    <2>2. n \in Nat
      BY <1>4
    <2>3. \A j \in Turn : j \in Nat /\ j # 0
      BY <1>4 DEF Turn
    <2>4. \A j \in Turn : used[s][j] \in Nat
      BY <1>4 DEF BillTypes, Amounts
    <2> QED BY <2>1, <2>2, <2>3, <2>4
  <1>6. TurnBooks(s, k) /\ ~Outstanding(s, k)
    BY <1>1, <1>4, <1>5 DEF SocketBooks, TurnBooks
  <1>7. counts'[s] - billed[s] = used'[s][k] /\ used'[s][k] \in Nat
    BY <1>1, <1>5, <1>6 DEF TurnBooks
  <1>8. /\ amount' \in [Socket -> Amounts] /\ amount'[s][k] = used'[s][k]
        /\ \A j \in Turn : j # k => amount'[s][j] = amount[s][j]
        /\ \A t \in Socket \ {s} : amount'[t] = amount[t]
    <2>1. amount' = [amount EXCEPT ![s] = [amount[s] EXCEPT ![k] = used'[s][k]]]
      BY <1>2, <1>7
    <2>2. amount[s] \in Amounts /\ [amount[s] EXCEPT ![k] = used'[s][k]] \in Amounts
      BY <1>4, <1>7 DEF BillTypes, Amounts
    <2>3. /\ amount' \in [Socket -> Amounts]
          /\ amount'[s] = [amount[s] EXCEPT ![k] = used'[s][k]]
          /\ \A t \in Socket \ {s} : amount'[t] = amount[t]
      BY <1>4, <2>1, <2>2 DEF BillTypes
    <2> QED BY <1>1, <2>2, <2>3 DEF Amounts
  <1>9. /\ served' \in [Socket -> 0 .. MaxTurns] /\ served'[s] = k
        /\ \A t \in Socket \ {s} : served'[t] = served[t]
    BY <1>1, <1>2, <1>4 DEF BillTypes, Turn
  <1>10. /\ billed' \in [Socket -> Nat] /\ billed'[s] = counts'[s]
         /\ \A t \in Socket \ {s} : billed'[t] = billed[t]
    BY <1>1, <1>2, <1>4 DEF BillTypes
  <1>11. /\ reader' \in [Socket -> Readers] /\ inline' \in [Socket -> 0 .. MaxTurns]
         /\ queued' \in [Socket -> SUBSET Turn]
         /\ \A t \in Socket \ {s} :
              reader'[t] = reader[t] /\ inline'[t] = inline[t] /\ queued'[t] = queued[t]
         /\ \/ reader'[s] = "settling" /\ inline'[s] = k /\ queued'[s] = queued[s]
            \/ reader'[s] = "final" /\ inline'[s] = inline[s] /\ queued'[s] = queued[s] \cup {k}
    <2>1. k \in 0 .. MaxTurns /\ queued[s] \cup {k} \in SUBSET Turn
      BY <1>1, <1>4 DEF BillTypes, Turn
    <2>2. CASE inline' = inline
      BY <1>3, <1>4, <2>1, <2>2 DEF BillTypes, Readers
    <2>3. CASE queued' = queued
      BY <1>3, <1>4, <2>1, <2>3 DEF BillTypes, Readers
    <2> QED BY <1>3, <2>2, <2>3
  <1>12. BillTypes'
    BY <1>1, <1>2, <1>4, <1>8, <1>9, <1>10, <1>11 DEF BillTypes
  <1>13. \A t \in Socket \ {s} : SameBooks(t)
    BY <1>1, <1>2, <1>8, <1>9, <1>10, <1>11 DEF SameBooks
  <1>14. inline[s] = 0
    BY <1>2, <1>4 DEF SocketBooks
  <1>15. /\ Outstanding(s, k)'
         /\ \A j \in Turn : j # k => (Outstanding(s, j)' <=> Outstanding(s, j))
    BY <1>2, <1>5, <1>11, <1>14 DEF Outstanding
  <1>16. ASSUME NEW j \in Turn PROVE TurnBooks(s, j)'
    <2>1. TurnBooks(s, j)
      BY <1>4 DEF SocketBooks
    <2>2. CASE j = k
      BY <1>2, <1>5, <1>6, <1>8, <1>9, <1>15, <2>2 DEF TurnBooks
    <2>3. CASE j < k
      BY <1>1, <1>2, <1>5, <1>8, <1>9, <1>15, <2>1, <2>3 DEF TurnBooks
    <2>4. CASE j > k
      <3>1. counts'[s] = billed'[s] /\ used[s][j] = 0
        BY <1>5, <1>10, <2>1, <2>4 DEF TurnBooks
      <3> QED BY <1>1, <1>2, <1>5, <1>8, <1>9, <1>10, <1>15, <2>1, <2>4, <3>1 DEF TurnBooks
    <2> QED BY <1>5, <2>2, <2>3, <2>4
  <1>17. served'[s] <= sent'[s]
    BY <1>1, <1>2, <1>4, <1>9 DEF BillTypes
  <1>18. \A j \in Turn : j \in queued'[s] => inhand'[s] # j /\ inline'[s] # j
    BY <1>1, <1>2, <1>4, <1>5, <1>6, <1>11, <1>14 DEF SocketBooks, Outstanding
  <1>19. inhand'[s] # 0 => inhand'[s] # inline'[s]
    BY <1>1, <1>2, <1>4, <1>6, <1>11, <1>14 DEF SocketBooks, Outstanding
  <1>20. inline'[s] # 0 <=> reader'[s] = "settling"
    BY <1>1, <1>5, <1>11, <1>14
  <1> QED BY <1>2, <1>12, <1>13, <1>16, <1>17, <1>18, <1>19, <1>20, BooksKeep
          DEF SocketBooks, Early

\* Somebody settles a turn that is waiting with him: it is paid what it reported.
LEMMA SettleKeeps ==
  ASSUME BillInv, NEW s \in Socket, NEW k \in Turn, Outstanding(s, k), Settle(s, k)
  PROVE  /\ paid' \in [Socket -> Amounts] /\ paid'[s][k] = used[s][k]
         /\ \A j \in Turn : j # k => paid'[s][j] = paid[s][j]
         /\ \A t \in Socket \ {s} : paid'[t] = paid[t]
  <1>1. BillTypes /\ TurnBooks(s, k)
    BY DEF BillInv, SocketBooks
  <1>2. paid[s] \in Amounts /\ used[s][k] \in Nat /\ paid[s][k] + amount[s][k] = used[s][k]
    BY <1>1 DEF BillTypes, Amounts, TurnBooks
  <1>3. paid' = [paid EXCEPT ![s] = [paid[s] EXCEPT ![k] = used[s][k]]]
    BY <1>2 DEF Settle
  <1>4. [paid[s] EXCEPT ![k] = used[s][k]] \in Amounts
    BY <1>2 DEF Amounts
  <1>5. /\ paid' \in [Socket -> Amounts] /\ paid'[s] = [paid[s] EXCEPT ![k] = used[s][k]]
        /\ \A t \in Socket \ {s} : paid'[t] = paid[t]
    BY <1>1, <1>3, <1>4 DEF BillTypes
  <1> QED BY <1>2, <1>5 DEF Amounts

\* The turn k is settled, and nothing else in the books changes.
LEMMA SettledKeeps ==
  ASSUME BillInv, NEW s \in Socket, NEW k \in Turn, Outstanding(s, k), Settle(s, k), BillTypes',
         UNCHANGED <<stage, sent, served, used, counts, billed, amount, queued>>,
         inhand'[s] \in {0, inhand[s]}, inline'[s] \in {0, inline[s]},
         \A j \in Turn : Outstanding(s, j)' <=> Outstanding(s, j) /\ j # k,
         inline'[s] # 0 <=> reader'[s] = "settling",
         stage[s] # "pumping" => reader'[s] \in {"reading", "done"},
         \A t \in Socket \ {s} : /\ inhand'[t] = inhand[t] /\ inline'[t] = inline[t]
                                 /\ reader'[t] = reader[t]
  PROVE  BillInv'
  <1>1. /\ paid'[s][k] = used[s][k]
        /\ \A j \in Turn : j # k => paid'[s][j] = paid[s][j]
        /\ \A t \in Socket \ {s} : paid'[t] = paid[t]
    BY SettleKeeps
  <1>2. \A t \in Socket \ {s} : SameBooks(t)
    BY <1>1 DEF SameBooks
  <1>3. ASSUME NEW j \in Turn PROVE TurnBooks(s, j)'
    <2>1. TurnBooks(s, j) /\ TurnBooks(s, k)
      BY DEF BillInv, SocketBooks
    <2>2. served[s] \in Nat /\ j \in Nat
      BY DEF BillInv, BillTypes, Turn
    <2> QED BY <1>1, <2>1, <2>2 DEF TurnBooks
  <1>4. SocketBooks(s)'
    <2>1. SocketBooks(s) /\ \A j \in Turn : j # 0
      BY DEF BillInv, Turn
    <2> QED BY <1>3, <2>1 DEF SocketBooks
  <1> QED BY <1>2, <1>4, BooksKeep

LEMMA SettleInlineKeeps ==
  ASSUME BillInv, NEW s \in Socket, SettleInline(s)
  PROVE  BillInv'
  <1>1. BillTypes /\ SocketBooks(s)
    BY DEF BillInv
  <1>2. /\ reader[s] = "settling" /\ Settle(s, inline[s])
        /\ UNCHANGED <<stage, sent, served, used, counts, billed, amount, queued, inhand>>
        /\ inline' = [inline EXCEPT ![s] = 0] /\ reader' = [reader EXCEPT ![s] = "final"]
    BY DEF SettleInline, Reader, handlerVars
  <1>3. inline[s] \in Turn /\ stage[s] = "pumping"
    BY <1>1, <1>2, SocketAssumption DEF SocketBooks, BillTypes, Turn
  <1> PICK k \in Turn : k = inline[s]
    BY <1>3
  <1>4. Outstanding(s, k) /\ Settle(s, k)
    BY <1>2 DEF Outstanding
  <1>5. /\ inline' \in [Socket -> 0 .. MaxTurns] /\ inline'[s] = 0
        /\ reader' \in [Socket -> Readers] /\ reader'[s] = "final"
        /\ \A t \in Socket \ {s} : inline'[t] = inline[t] /\ reader'[t] = reader[t]
    BY <1>1, <1>2, SocketAssumption DEF BillTypes, Readers
  <1>6. BillTypes'
    BY <1>1, <1>2, <1>4, <1>5, SettleKeeps DEF BillTypes
  <1>7. \A j \in Turn : Outstanding(s, j)' <=> Outstanding(s, j) /\ j # k
    <2>1. k \notin queued[s] /\ inhand[s] # k /\ k # 0
      BY <1>1, <1>3 DEF SocketBooks, Turn
    <2>2. \A j \in Turn : j # 0
      BY DEF Turn
    <2> QED BY <1>2, <1>5, <2>1, <2>2 DEF Outstanding
  <1> QED BY <1>2, <1>3, <1>4, <1>5, <1>6, <1>7, SettledKeeps

LEMMA SettleBillKeeps ==
  ASSUME BillInv, NEW s \in Socket, SettleBill(s)
  PROVE  BillInv'
  <1>1. BillTypes /\ SocketBooks(s)
    BY DEF BillInv
  <1>2. /\ inhand[s] # 0 /\ Settle(s, inhand[s])
        /\ UNCHANGED <<stage, reader, sent, served, used, counts, billed, amount, queued, inline>>
        /\ inhand' = [inhand EXCEPT ![s] = 0]
    BY DEF SettleBill, handlerVars, pumpVars
  <1>3. inhand[s] \in Turn
    BY <1>1, <1>2, SocketAssumption DEF BillTypes, Turn
  <1> PICK k \in Turn : k = inhand[s]
    BY <1>3
  <1>4. Outstanding(s, k) /\ Settle(s, k)
    BY <1>2 DEF Outstanding
  <1>5. /\ inhand' \in [Socket -> 0 .. MaxTurns] /\ inhand'[s] = 0
        /\ \A t \in Socket \ {s} : inhand'[t] = inhand[t]
    BY <1>1, <1>2, SocketAssumption DEF BillTypes
  <1>6. BillTypes'
    BY <1>1, <1>2, <1>4, <1>5, SettleKeeps DEF BillTypes
  <1>7. \A j \in Turn : Outstanding(s, j)' <=> Outstanding(s, j) /\ j # k
    <2>1. k \notin queued[s] /\ inline[s] # k /\ k # 0
      BY <1>1, <1>2, <1>3 DEF SocketBooks, Turn
    <2>2. \A j \in Turn : j # 0
      BY DEF Turn
    <2> QED BY <1>2, <1>5, <2>1, <2>2 DEF Outstanding
  <1> QED BY <1>1, <1>2, <1>4, <1>5, <1>6, <1>7, SettledKeeps DEF SocketBooks

\* From the queue into the biller's hand.
LEMMA TakeBillKeeps ==
  ASSUME BillInv, NEW s \in Socket, TakeBill(s)
  PROVE  BillInv'
  <1>1. BillTypes /\ SocketBooks(s)
    BY DEF BillInv
  <1>2. PICK k \in queued[s] :
          inhand' = [inhand EXCEPT ![s] = k] /\ queued' = [queued EXCEPT ![s] = @ \ {k}]
    BY DEF TakeBill
  <1>3. /\ inhand[s] = 0 /\ stage[s] \in {"pumping", "draining"}
        /\ UNCHANGED <<stage, reader, sent, served, used, counts, billed, amount, inline, paid>>
    BY DEF TakeBill, handlerVars, pumpVars
  <1>4. k \in Turn /\ k \in 0 .. MaxTurns /\ \A j \in Turn : j # 0
    BY <1>1 DEF BillTypes, Turn
  <1>5. /\ inhand' \in [Socket -> 0 .. MaxTurns] /\ inhand'[s] = k
        /\ queued' \in [Socket -> SUBSET Turn] /\ queued'[s] = queued[s] \ {k}
        /\ \A t \in Socket \ {s} : inhand'[t] = inhand[t] /\ queued'[t] = queued[t]
    BY <1>1, <1>2, <1>4 DEF BillTypes
  <1>6. BillTypes'
    BY <1>1, <1>3, <1>5 DEF BillTypes
  <1>7. \A t \in Socket \ {s} : SameBooks(t)
    BY <1>3, <1>5 DEF SameBooks
  <1>8. \A j \in Turn : Outstanding(s, j)' <=> Outstanding(s, j)
    BY <1>2, <1>3, <1>4, <1>5 DEF Outstanding
  <1>9. \A j \in Turn : TurnBooks(s, j)'
    BY <1>1, <1>3, <1>8 DEF SocketBooks, TurnBooks
  <1>10. SocketBooks(s)'
    BY <1>1, <1>2, <1>3, <1>4, <1>5, <1>9 DEF SocketBooks, Early
  <1> QED BY <1>6, <1>7, <1>10, BooksKeep

LEMMA BillKept ==
  ASSUME BillInv, [SocketNext]_socketVars
  PROVE  BillInv'
  <1>1. CASE UNCHANGED socketVars \/ MintElsewhere \/ Expire
    <2>1. UNCHANGED <<handlerVars, pumpVars, billVars>>
      BY <1>1 DEF socketVars, MintElsewhere, Expire
    <2>2. BillTypes'
      BY <2>1 DEF BillInv, BillTypes, handlerVars, pumpVars, billVars
    <2>3. \A t \in Socket : SameBooks(t)
      BY <2>1 DEF SameBooks, handlerVars, pumpVars, billVars
    <2> QED BY <2>2, <2>3, SameBooksKeep DEF BillInv
  <1>2. ASSUME NEW s \in Socket, Quiet(s) PROVE BillInv'
    BY <1>2, QuietKeeps
  <1>3. ASSUME NEW s \in Socket, NEW n \in 0 .. MaxUsage, ReadOutput(s, n) \/ ReadFinal(s, n)
        PROVE  BillInv'
    BY <1>3, OutputKeeps, FinalKeeps
  <1>4. ASSUME NEW s \in Socket, OwnStep(s) PROVE BillInv'
    BY <1>2, <1>4, SettleInlineKeeps, SettleBillKeeps, TakeBillKeeps, RelayIsQuiet, HandlerIsQuiet
       DEF OwnStep
  <1> QED BY <1>1, <1>2, <1>3, <1>4, RelayIsQuiet, HandlerIsQuiet, SendingIsQuiet
          DEF SocketNext, Followed

\* Every turn that ended is settled once, by the biller or by the reader, with
\* what upstream reported in that turn; and a socket that is gone owes nothing
\* (billTurn, codexTurnDelta, billWG.Wait).
THEOREM TurnsAreBilled == SocketSpec => []BilledTurnByTurn
  <1>1. BillInv => BilledTurnByTurn
    <2> SUFFICES ASSUME BillInv, NEW s \in Socket, NEW k \in Turn
                 PROVE  /\ paid[s][k] + (IF Outstanding(s, k) THEN amount[s][k] ELSE 0) = Due(s, k)
                        /\ stage[s] = "gone" => paid[s][k] = Due(s, k)
      BY DEF BilledTurnByTurn
    <2>1. TurnBooks(s, k) /\ SocketBooks(s)
      BY DEF BillInv, SocketBooks
    <2>2. BillTypes
      BY DEF BillInv
    <2>3. paid[s] \in Amounts /\ used[s] \in Amounts /\ amount[s] \in Amounts
      BY <2>2 DEF BillTypes
    <2>4. served[s] \in 0 .. MaxTurns /\ MaxTurns \in Nat
      BY <2>2, SocketAssumption DEF BillTypes
    <2>5. /\ paid[s][k] \in Nat /\ used[s][k] \in Nat /\ amount[s][k] \in Nat
          /\ served[s] \in Nat /\ k \in Nat /\ k # 0
      BY <2>3, <2>4 DEF Amounts, Turn
    <2>6. paid[s][k] + (IF Outstanding(s, k) THEN amount[s][k] ELSE 0) = Due(s, k)
      BY <2>1, <2>5 DEF TurnBooks, Due
    <2>7. ASSUME stage[s] = "gone" PROVE ~Outstanding(s, k)
      BY <2>1, <2>5, <2>7 DEF SocketBooks, Outstanding
    <2> QED BY <2>5, <2>6, <2>7
  <1> QED BY <1>1, BillInit, BillKept, PTL DEF SocketSpec
=============================================================================
