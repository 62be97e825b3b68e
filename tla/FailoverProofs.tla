--------------------------- MODULE FailoverProofs ---------------------------
(***************************************************************************)
(* The safety of the failover loop, for any number of credentials, attempts*)
(* and retries; then the relay of a Codex answer, which implements the     *)
(* loop: what holds of the loop holds of the relay, for any number of      *)
(* lines.                                                                  *)
(***************************************************************************)
EXTENDS CodexRelay, FiniteSetTheorems, SequenceTheorems, TLAPS

\* An attempt has a credential and a number.
InFlight == pc \in {"sent", "relay", "backoff"} => cur \in Cred /\ attempts >= 1

\* The final answer is the last step.
Untold == pc # "over" => told = "nothing"

\* Only the current attempt has written, and none that is followed by another.
Voices ==
  /\ voices \subseteq {attempts}
  /\ pc \in {"loop", "backoff"} \/ (pc = "sent" /\ Claude) => voices = {}
  /\ told \in {"unavailable", "withheld"} => voices = {}

\* How often a credential may have been asked: once, and once more for each time
\* it was put back.
Rounds(c) ==
  (IF c \in tried THEN 1 ELSE 0) + (IF c \in stale THEN 1 ELSE 0) + sheds[c]

AskedCount ==
  \A c \in Cred :
    /\ asked[c] <= attempts /\ asked[c] <= Rounds(c)
    /\ c \in tried => asked[c] >= 1
    /\ Claude \/ c \in Key => c \notin stale /\ sheds[c] = 0

\* What is withheld was refused, and a refusal is not forgotten.
Withheld ==
  /\ deferred # NoCred => deferred \in refused
  /\ ~keyOnly /\ deferred = NoCred => refused = {}

FailoverInv ==
  /\ FailoverTypeOK /\ InFlight /\ Untold /\ Voices /\ ChargedExactly /\ AskedCount /\ Withheld
  /\ RefusalIsReplayed /\ NotGivenUpEarly /\ AnsweredOrLeft
-----------------------------------------------------------------------------
(***************************************************************************)
(* The actions of an attempt, by what they do to the loop.                 *)
(***************************************************************************)
\* Back to the loop, with nothing written.
Rotated ==
  /\ pc \in {"sent", "relay", "backoff"} /\ voices = {} /\ pc' = "loop"
  /\ \E withheld \in BOOLEAN : Withhold(withheld)
  /\ blame' \subseteq {"upstream", "departure"}
  /\ UNCHANGED <<req, loopVars, usage, told, envVars, voices, charged>>

\* The end, with an answer or without.
Finished ==
  /\ pc \in {"sent", "relay", "backoff"} /\ pc' = "over"
  /\ told' \in {"nothing", "reply", "fault"}
  /\ told' = "nothing" => departed \/ (Claude /\ ~OnKey)
  /\ voices' \in {voices, voices \cup {attempts}}
  /\ usage' \in BOOLEAN
  /\ charged' = IF told' = "reply" /\ usage' THEN charged \cup {attempts} ELSE charged
  /\ blame' \subseteq {"upstream", "departure"}
  /\ UNCHANGED <<req, loopVars, deferred, envVars, refused>>

\* The attempt goes on, and may have written.
Continued ==
  /\ \/ pc = "sent" /\ ~Claude /\ pc' = "sent"
     \/ pc \in {"sent", "relay"} /\ pc' = "relay"
  /\ voices' \in {voices, voices \cup {attempts}}
  /\ usage' \in BOOLEAN
  /\ UNCHANGED <<req, loopVars, deferred, told, envVars, charged, refused, blame>>

\* The credential may be asked again: for a stale socket, or for capacity.
PutBack ==
  /\ pc = "relay" /\ pc' \in {"loop", "backoff"} /\ CodexOAuth /\ voices = {}
  /\ \/ UntryStale /\ UNCHANGED sheds
     \/ /\ sheds[cur] < MaxSheds
        /\ sheds' = [sheds EXCEPT ![cur] = @ + 1]
        /\ tried' = tried \ {cur} /\ UNCHANGED stale
  /\ UNCHANGED <<req, cur, attempts, keyOnly, asked, deferred, usage, told, envVars, voices,
                 charged, refused, blame>>

\* Somebody else's step.
Outside ==
  /\ pc # "over"
  /\ late' \in BOOLEAN /\ departed' \in BOOLEAN
  /\ healthy' \subseteq Cred /\ steady' \subseteq healthy'
  /\ UNCHANGED <<req, pc, loopVars, deferred, usage, told, voices, charged, refused, blame>>

BlameOK == blame' \subseteq {"upstream", "departure"}

InAttempt == pc \in {"sent", "relay", "backoff"}

\* retry, from any forward function.
LEMMA RotateIsRotated ==
  ASSUME InAttempt, voices = {}, NEW withheld \in BOOLEAN, Rotate(withheld), BlameOK
  PROVE  Rotated
  BY DEF InAttempt, Rotate, Rotated, BlameOK

\* done with an error written (failCommitted, AbortWithStatusJSON).
LEMMA FailIsFinished ==
  ASSUME InAttempt, usage \in BOOLEAN, Fail, BlameOK
  PROVE  Finished
  BY DEF InAttempt, Fail, Finish, Speak, Finished, BlameOK

\* done with nothing written, since nobody listens.
LEMMA VanishIsFinished ==
  ASSUME InAttempt, usage \in BOOLEAN, blame \subseteq {"upstream", "departure"}, Vanish,
         departed \/ (Claude /\ ~OnKey)
  PROVE  Finished
  BY DEF InAttempt, Vanish, Finish, Finished

\* done with a reply, debited by its usage.
LEMMA ServeIsFinished ==
  ASSUME InAttempt, usage \in BOOLEAN, NEW u \in BOOLEAN, Serve(u), BlameOK
  PROVE  Finished
<1>1. usage' \in BOOLEAN
  BY DEF Serve
<1>2. QED
  BY <1>1 DEF InAttempt, Serve, Finish, Speak, Finished, BlameOK

\* Every action of an attempt and of its surroundings has one of these shapes
\* (the forward functions return retry or done, or go on).
LEMMA Shapes ==
  ASSUME FailoverInv, Attempt \/ Depart \/ PassDeadline \/ (\E c \in Cred : ChangeHealth(c))
  PROVE  Rotated \/ Finished \/ Continued \/ PutBack \/ PrepareFails \/ Outside
<1>0. voices = {} \/ voices = {attempts}
  BY DEF FailoverInv, Voices
<1>1. ASSUME ~Spoken PROVE voices = {}
  BY <1>0, <1>1 DEF Spoken
<1>2. /\ usage \in BOOLEAN /\ late \in BOOLEAN /\ departed \in BOOLEAN
      /\ blame \subseteq {"upstream", "departure"}
      /\ steady \subseteq healthy /\ healthy \subseteq Cred
      /\ Claude => ~Images
  BY DEF FailoverInv, FailoverTypeOK, Requests, Claude, Images
<1>3. ASSUME UNCHANGED blame \/ (\E fault \in BOOLEAN : BlameIf(fault)) \/ Blame("departure")
               \/ Blame("upstream")
      PROVE  BlameOK
  BY <1>2, <1>3 DEF BlameIf, Blame, BlameOK
<1> USE DEF InAttempt
<1>4. CASE RejectLocally
  BY <1>2, <1>3, <1>4, FailIsFinished DEF RejectLocally, Sent
<1>5. CASE SkipCredential
  BY <1>1, <1>3, <1>5, RotateIsRotated DEF SkipCredential
<1>6. CASE Heartbeat
  BY <1>2, <1>6 DEF Heartbeat, Sent, Speak, Continued
<1>7. CASE ClientGone
  BY <1>2, <1>7, VanishIsFinished DEF ClientGone, Sent
<1>8. CASE TransportCancelled
  BY <1>2, <1>8, VanishIsFinished DEF TransportCancelled, Sent
<1>9. ASSUME Sent, NEW withheld \in BOOLEAN, RotateOrFail(withheld), BlameOK
      PROVE  Rotated \/ Finished
  BY <1>1, <1>2, <1>9, RotateIsRotated, FailIsFinished DEF RotateOrFail, Sent
<1>10. CASE TransportFails
  BY <1>3, <1>9, <1>10 DEF TransportFails
<1>11. CASE Refuse
  BY <1>3, <1>9, <1>11 DEF Refuse, Claude
<1>12. CASE ForwardError
  BY <1>2, <1>3, <1>12, FailIsFinished DEF ForwardError, Sent
<1>13. CASE Respond
  BY <1>2, <1>13 DEF Respond, Sent, Speak, Continued
<1>14. CASE ServeImage
  BY <1>2, <1>3, <1>14, ServeIsFinished DEF ServeImage, Sent
<1>15. CASE Output
  BY <1>2, <1>15 DEF Output, Streaming, Speak, Continued
<1>16. CASE EndStream
  BY <1>2, <1>3, <1>16, ServeIsFinished DEF EndStream, Streaming
<1>17. CASE BreakStream
  BY <1>1, <1>2, <1>3, <1>17, ServeIsFinished, VanishIsFinished, RotateIsRotated
  DEF BreakStream, Streaming
<1>18. CASE BreakStaleSocket
  BY <1>1, <1>18 DEF BreakStaleSocket, Streaming, PutBack
<1>19. CASE ShedStream
  BY <1>1, <1>3, <1>19, RotateIsRotated DEF ShedStream, Streaming, PutBack
<1>20. CASE WakeUp
  <2>1. CASE Vanish /\ departed
    BY <1>2, <1>20, <2>1, VanishIsFinished DEF WakeUp
  <2>2. ASSUME UNCHANGED <<deferred, refused>> PROVE Withhold(FALSE)
    BY <2>2 DEF Withhold
  <2>3. CASE ~(Vanish /\ departed)
    BY <1>2, <1>20, <2>2, <2>3 DEF WakeUp, Rotated, FailoverInv, Voices
  <2>4. QED
    BY <2>1, <2>3
<1>21. CASE ServeBody
  BY <1>2, <1>3, <1>21, ServeIsFinished DEF ServeBody, Reading
<1>22. CASE ServeRelayBody
  BY <1>2, <1>3, <1>22, ServeIsFinished, FailIsFinished DEF ServeRelayBody, Reading
<1>23. CASE ServeCompact
  BY <1>2, <1>3, <1>23, ServeIsFinished, FailIsFinished DEF ServeCompact, Reading
<1>24. CASE StartGenerating
  BY <1>2, <1>24 DEF StartGenerating, Reading, Speak, Continued
<1>25. CASE Aggregate
  BY <1>2, <1>3, <1>25, ServeIsFinished, FailIsFinished DEF Aggregate, Reading
<1>26. CASE AggregateBreaks
  BY <1>1, <1>2, <1>3, <1>26, VanishIsFinished, RotateIsRotated DEF AggregateBreaks, Reading
<1>27. CASE Depart
  BY <1>2, <1>27 DEF Depart, Outside
<1>28. CASE PassDeadline
  BY <1>2, <1>28 DEF PassDeadline, Outside
<1>29. ASSUME NEW c \in Cred, ChangeHealth(c) PROVE Outside
  BY <1>2, <1>29 DEF ChangeHealth, Outside
<1>30. QED
  BY <1>4, <1>5, <1>6, <1>7, <1>8, <1>10, <1>11, <1>12, <1>13, <1>14, <1>15, <1>16, <1>17, <1>18,
     <1>19, <1>20, <1>21, <1>22, <1>23, <1>24, <1>25, <1>26, <1>27, <1>28, <1>29 DEF Attempt
-----------------------------------------------------------------------------
(***************************************************************************)
(* Each part of the invariant is kept by each shape of step.               *)
(***************************************************************************)
Asked == \E a \in Cred : Acquire(a)

Shaped ==
  Asked \/ Exhaust \/ Rotated \/ Finished \/ Continued \/ PutBack \/ PrepareFails \/ Outside

LEMMA NextIsShaped == ASSUME FailoverInv, FailoverNext PROVE Shaped
  BY Shapes DEF FailoverNext, Step, Shaped, Asked

\* Candidates: never an excluded credential (ExcludeIDs).
LEMMA CandidatesUntried == Candidates \subseteq Cred \ tried
  BY DEF Candidates, Cred

LEMMA AskedKept == ASSUME FailoverInv, Shaped PROVE AskedCount'
<1>1. /\ attempts \in Nat /\ sheds \in [Cred -> Nat] /\ asked \in [Cred -> Nat] /\ AskedCount
  BY FailoverAssumption DEF FailoverInv, FailoverTypeOK
<1>2. CASE UNCHANGED <<req, loopVars>>
  BY <1>1, <1>2 DEF AskedCount, Rounds, loopVars, Claude
<1>3. ASSUME NEW a \in Cred, Acquire(a) PROVE AskedCount'
  <2>1. a \notin tried
    BY <1>3, CandidatesUntried DEF Acquire
  <2>2. /\ tried' = tried \cup {a} /\ attempts' = attempts + 1
        /\ asked' = [asked EXCEPT ![a] = asked[a] + 1]
        /\ UNCHANGED <<req, stale, sheds>>
    BY <1>3 DEF Acquire
  <2>3. QED
    BY <1>1, <2>1, <2>2 DEF AskedCount, Rounds, Claude
<1>4. CASE PrepareFails
  BY <1>1, <1>4 DEF PrepareFails, AskedCount, Rounds, Claude
<1>5. CASE PutBack
  <2>1. cur \in Cred /\ ~Claude /\ cur \notin Key
    BY <1>5 DEF PutBack, CodexOAuth, OnKey, FailoverInv, InFlight
  <2>2. UNCHANGED <<req, attempts, asked>>
    BY <1>5 DEF PutBack
  <2>3. CASE UntryStale /\ UNCHANGED sheds
    BY <1>1, <2>1, <2>2, <2>3 DEF UntryStale, AskedCount, Rounds, Claude
  <2>4. CASE /\ sheds' = [sheds EXCEPT ![cur] = @ + 1]
             /\ tried' = tried \ {cur} /\ UNCHANGED stale
    BY <1>1, <2>1, <2>2, <2>4 DEF AskedCount, Rounds, Claude
  <2>5. QED
    BY <1>5, <2>3, <2>4 DEF PutBack
<1>6. QED
  BY <1>2, <1>3, <1>4, <1>5 DEF Shaped, Asked, Exhaust, Rotated, Finished, Continued, Outside

LEMMA FlightKept == ASSUME FailoverInv, Shaped PROVE InFlight' /\ Untold'
<1>1. attempts \in Nat /\ InFlight /\ Untold /\ pc \in {"loop", "sent", "relay", "backoff", "over"}
  BY FailoverAssumption DEF FailoverInv, FailoverTypeOK
<1>2. CASE Asked
  BY <1>1, <1>2 DEF Asked, Acquire, InFlight, Untold
<1>3. CASE Exhaust \/ Finished \/ PrepareFails
  BY <1>1, <1>3 DEF Exhaust, Finished, PrepareFails, InFlight, Untold
<1>4. CASE Rotated \/ Continued \/ PutBack \/ Outside
  BY <1>1, <1>4 DEF Rotated, Continued, PutBack, Outside, InFlight, Untold, loopVars
<1>5. QED
  BY <1>2, <1>3, <1>4 DEF Shaped

LEMMA VoicesKept == ASSUME FailoverInv, Shaped PROVE Voices'
<1>1. /\ attempts \in Nat /\ InFlight /\ Untold /\ Voices
      /\ pc \in {"loop", "sent", "relay", "backoff", "over"}
  BY FailoverAssumption DEF FailoverInv, FailoverTypeOK
<1>2. CASE Asked
  BY <1>1, <1>2 DEF Asked, Acquire, Voices, Untold, Claude
<1>3. CASE Exhaust
  BY <1>1, <1>3 DEF Exhaust, Voices, loopVars, Claude
<1>4. CASE PrepareFails
  BY <1>1, <1>4 DEF PrepareFails, Voices, Claude
<1>5. CASE Rotated
  BY <1>1, <1>5 DEF Rotated, Voices, loopVars, Claude
<1>6. CASE Finished
  BY <1>1, <1>6 DEF Finished, Voices, loopVars, Claude
<1>7. CASE Continued
  BY <1>1, <1>7 DEF Continued, Voices, Untold, loopVars, Claude
<1>8. CASE PutBack
  BY <1>1, <1>8 DEF PutBack, Voices, Claude
<1>9. CASE Outside
  BY <1>1, <1>9 DEF Outside, Voices, loopVars, Claude
<1>10. QED
  BY <1>2, <1>3, <1>4, <1>5, <1>6, <1>7, <1>8, <1>9 DEF Shaped

LEMMA ChargedKept == ASSUME FailoverInv, Shaped PROVE ChargedExactly'
<1>1. ChargedExactly /\ Untold /\ (pc # "over" => charged = {})
  BY DEF FailoverInv, Untold, ChargedExactly
<1>2. CASE Finished
  BY <1>1, <1>2 DEF Finished, ChargedExactly, loopVars
<1>3. CASE Exhaust
  BY <1>1, <1>3 DEF Exhaust, ChargedExactly
<1>4. CASE Asked \/ PrepareFails \/ Rotated \/ Continued \/ PutBack \/ Outside
  BY <1>1, <1>4 DEF Asked, Acquire, PrepareFails, Rotated, Continued, PutBack, Outside, ChargedExactly
<1>5. QED
  BY <1>2, <1>3, <1>4 DEF Shaped

LEMMA WithheldKept == ASSUME FailoverInv, Shaped PROVE Withheld' /\ RefusalIsReplayed'
<1>1. /\ Withheld /\ Untold /\ InFlight /\ NoCred \notin Cred
      /\ pc # "over" => told = "nothing"
  BY FailoverAssumption DEF FailoverInv, Untold, Cred
<1>2. CASE Exhaust
  BY <1>1, <1>2 DEF Exhaust, Withheld, RefusalIsReplayed, loopVars
<1>3. CASE PrepareFails
  BY <1>1, <1>3 DEF PrepareFails, Withheld, RefusalIsReplayed
<1>4. CASE Rotated
  BY <1>1, <1>4 DEF Rotated, Withhold, InFlight, Withheld, RefusalIsReplayed, loopVars
<1>5. CASE Finished
  BY <1>1, <1>5 DEF Finished, Withheld, RefusalIsReplayed, loopVars
<1>6. CASE Asked \/ Continued \/ PutBack \/ Outside
  BY <1>1, <1>6 DEF Asked, Acquire, Continued, PutBack, Outside, Withheld, RefusalIsReplayed, loopVars
<1>7. QED
  BY <1>2, <1>3, <1>4, <1>5, <1>6 DEF Shaped

\* Exhaust gives up for want of a candidate only when each one that has been
\* healthy throughout has been asked, or may not be.
LEMMA ExhaustedAll ==
  ASSUME FailoverInv, Candidates = {}, NEW c \in steady, asked[c] = 0
  PROVE  \/ c \in OAuth /\ keyOnly
         \/ c \in Key /\ ~req.fallback
<1>1. c \in healthy /\ c \in OAuth \cup Key /\ c \notin tried
  BY DEF FailoverInv, FailoverTypeOK, AskedCount, Cred
<1>2. CASE c \in OAuth
  BY <1>1, <1>2 DEF Candidates
<1>3. CASE c \in Key
  BY <1>1, <1>3 DEF Candidates
<1>4. QED
  BY <1>1, <1>2, <1>3

LEMMA EndKept == ASSUME FailoverInv, Shaped PROVE NotGivenUpEarly' /\ AnsweredOrLeft'
<1>1. pc # "over" => told = "nothing"
  BY DEF FailoverInv, Untold
<1>2. CASE Exhaust
  <2>1. /\ UNCHANGED <<req, attempts, late, steady, asked, keyOnly>>
        /\ told' \in {"unavailable", "withheld"}
        /\ attempts < MaxAttempts /\ (attempts > 0 => ~late) => Candidates = {}
    BY <1>2 DEF Exhaust, loopVars, envVars, MoreAttempts, TooLate
  <2>2. NotGivenUpEarly'
    BY <2>1, ExhaustedAll DEF NotGivenUpEarly
  <2>3. QED
    BY <2>1, <2>2 DEF AnsweredOrLeft
<1>3. CASE Finished
  BY <1>3 DEF Finished, NotGivenUpEarly, AnsweredOrLeft, loopVars, envVars, Claude, OnKey
<1>4. CASE Asked \/ PrepareFails \/ Rotated \/ Continued \/ PutBack \/ Outside
  BY <1>1, <1>4
  DEF Asked, Acquire, PrepareFails, Rotated, Continued, PutBack, Outside, NotGivenUpEarly,
      AnsweredOrLeft
<1>5. QED
  BY <1>2, <1>3, <1>4 DEF Shaped

LEMMA TypeKept == ASSUME FailoverInv, Shaped PROVE FailoverTypeOK'
<1> USE FailoverAssumption
<1>1. FailoverTypeOK /\ InFlight /\ AskedCount
  BY DEF FailoverInv
<1>2. ASSUME NEW a \in Cred, Acquire(a) PROVE FailoverTypeOK'
  <2>1. /\ attempts \in Nat /\ attempts < MaxAttempts /\ attempts + 1 \in 0 .. MaxAttempts
        /\ asked[a] \in Nat /\ asked[a] <= attempts /\ asked[a] + 1 \in 0 .. MaxAttempts
    BY <1>1, <1>2 DEF Acquire, MoreAttempts, FailoverTypeOK, AskedCount
  <2>2. asked' \in [Cred -> 0 .. MaxAttempts]
    BY <1>1, <1>2, <2>1 DEF Acquire, FailoverTypeOK
  <2>3. QED
    BY <1>1, <1>2, <2>1, <2>2 DEF Acquire, FailoverTypeOK, envVars
<1>3. CASE Exhaust
  BY <1>1, <1>3 DEF Exhaust, FailoverTypeOK, loopVars, envVars
<1>4. CASE PrepareFails
  BY <1>1, <1>4 DEF PrepareFails, FailoverTypeOK, envVars
<1>5. CASE Rotated
  BY <1>1, <1>5 DEF Rotated, Withhold, InFlight, FailoverTypeOK, loopVars, envVars
<1>6. CASE Finished
  <2>1. attempts \in 1 .. MaxAttempts
    BY <1>1, <1>6 DEF Finished, InFlight, FailoverTypeOK
  <2>2. QED
    BY <1>1, <1>6, <2>1 DEF Finished, FailoverTypeOK, loopVars, envVars
<1>7. CASE Continued
  <2>1. attempts \in 1 .. MaxAttempts
    BY <1>1, <1>7 DEF Continued, InFlight, FailoverTypeOK
  <2>2. QED
    BY <1>1, <1>7, <2>1 DEF Continued, FailoverTypeOK, loopVars, envVars
<1>8. CASE PutBack
  <2>1. cur \in Cred /\ sheds[cur] \in 0 .. MaxSheds
    BY <1>1, <1>8 DEF PutBack, InFlight, FailoverTypeOK
  <2>2. sheds' \in [Cred -> 0 .. MaxSheds]
    BY <1>1, <1>8, <2>1 DEF PutBack, FailoverTypeOK
  <2>3. tried' \subseteq Cred /\ stale' \subseteq Cred
    BY <1>1, <1>8, <2>1 DEF PutBack, UntryStale, FailoverTypeOK
  <2>4. QED
    BY <1>1, <1>8, <2>2, <2>3 DEF PutBack, FailoverTypeOK, envVars
<1>9. CASE Outside
  BY <1>1, <1>9 DEF Outside, FailoverTypeOK, loopVars
<1>10. QED
  BY <1>2, <1>3, <1>4, <1>5, <1>6, <1>7, <1>8, <1>9 DEF Shaped, Asked

LEMMA InitInv == FailoverInit => FailoverInv
<1> SUFFICES ASSUME FailoverInit PROVE FailoverInv
  OBVIOUS
<1> USE FailoverAssumption
<1>1. FailoverTypeOK
  <2>1. keyOnly \in BOOLEAN
    BY Zenon DEF FailoverInit
  <2>2. /\ sheds \in [Cred -> 0 .. MaxSheds] /\ asked \in [Cred -> 0 .. MaxAttempts]
        /\ attempts \in 0 .. MaxAttempts
    BY DEF FailoverInit
  <2>3. steady \subseteq healthy /\ healthy \subseteq Cred
    BY DEF FailoverInit
  <2>4. QED
    BY <2>1, <2>2, <2>3 DEF FailoverInit, FailoverTypeOK
<1>2. AskedCount
  BY DEF FailoverInit, AskedCount, Rounds
<1>3. InFlight /\ Untold /\ Voices /\ ChargedExactly /\ Withheld
  BY DEF FailoverInit, InFlight, Untold, Voices, ChargedExactly, Withheld
<1>4. RefusalIsReplayed /\ NotGivenUpEarly /\ AnsweredOrLeft
  BY DEF FailoverInit, RefusalIsReplayed, NotGivenUpEarly, AnsweredOrLeft
<1>5. QED
  BY <1>1, <1>2, <1>3, <1>4 DEF FailoverInv

LEMMA StutterKeeps == ASSUME FailoverInv, UNCHANGED vars PROVE FailoverInv'
<1> USE DEF vars, loopVars, envVars
<1>1. FailoverTypeOK' /\ InFlight' /\ Untold'
  BY DEF FailoverInv, FailoverTypeOK, InFlight, Untold
<1>2. Voices' /\ ChargedExactly' /\ Withheld'
  BY DEF FailoverInv, Voices, ChargedExactly, Withheld, Claude
<1>3. AskedCount'
  BY DEF FailoverInv, AskedCount, Rounds, Claude
<1>4. RefusalIsReplayed' /\ NotGivenUpEarly' /\ AnsweredOrLeft'
  BY DEF FailoverInv, RefusalIsReplayed, NotGivenUpEarly, AnsweredOrLeft, Claude, OnKey
<1>5. QED
  BY <1>1, <1>2, <1>3, <1>4 DEF FailoverInv
-----------------------------------------------------------------------------
(***************************************************************************)
(* The results.                                                            *)
(***************************************************************************)
\* No step of the loop, nor of its surroundings, breaks the invariant.
LEMMA LoopKeeps == ASSUME FailoverInv, [FailoverNext]_vars PROVE FailoverInv'
<1>1. CASE FailoverNext
  <2>1. Shaped
    BY <1>1, NextIsShaped
  <2>2. QED
    BY <2>1, TypeKept, FlightKept, VoicesKept, ChargedKept, AskedKept, WithheldKept, EndKept
    DEF FailoverInv
<1>2. CASE UNCHANGED vars
  BY <1>2, StutterKeeps
<1>3. QED
  BY <1>1, <1>2

\* The invariant of the failover loop, whatever the upstreams, the client, the
\* clock and the other requests do (forwardWithFailover).
THEOREM FailoverInvariant == FailoverSpec => []FailoverInv
<1>1. FailoverInit => FailoverInv
  BY InitInv
<1>2. FailoverInv /\ [FailoverNext]_vars => FailoverInv'
  BY LoopKeeps
<1>3. QED
  BY <1>1, <1>2, PTL DEF FailoverSpec

\* The variables of the loop are well typed: no thirteenth attempt, no third
\* retry for capacity (maxAttempts, codexSameCredShedRetries).
THEOREM FailoverIsTyped == FailoverSpec => []FailoverTypeOK
<1>1. FailoverInv => FailoverTypeOK
  BY DEF FailoverInv
<1>2. QED
  BY <1>1, FailoverInvariant, PTL

\* The client hears one attempt at most, or the answer of the loop (wroteAny,
\* Committed, the lazy commit of headers).
THEOREM ClientHearsOneVoice == FailoverSpec => []OneVoice
<1>1. FailoverInv => OneVoice
  <2> SUFFICES ASSUME FailoverInv PROVE OneVoice
    OBVIOUS
  <2>1. voices = {} \/ voices = {attempts}
    BY DEF FailoverInv, Voices
  <2>2. Cardinality({}) = 0 /\ Cardinality({attempts}) = 1
    BY FS_EmptySet, FS_Singleton
  <2>3. QED
    BY <2>1, <2>2 DEF FailoverInv, Voices, OneVoice
<1>2. QED
  BY <1>1, FailoverInvariant, PTL

\* One debit, for the attempt that was heard, if it reported usage
\* (counts.Requests, SettleCharge).
THEOREM OnlyTheHeardIsCharged == FailoverSpec => []ChargedExactly
<1>1. FailoverInv => ChargedExactly
  BY DEF FailoverInv
<1>2. QED
  BY <1>1, FailoverInvariant, PTL

\* A credential is asked once; a Codex subscription once more for a stale socket
\* and MaxSheds times for a lack of capacity (tried, staleRetried, shedRetried).
THEOREM NoCredentialHammered == FailoverSpec => []AskedWithinBounds
<1>1. FailoverInv => AskedWithinBounds
  <2> SUFFICES ASSUME FailoverInv, NEW c \in Cred
               PROVE  asked[c] <= IF Claude \/ c \in Key THEN 1 ELSE 2 + MaxSheds
    BY DEF AskedWithinBounds
  <2>1. /\ MaxSheds \in Nat /\ sheds[c] \in 0 .. MaxSheds /\ asked[c] \in Nat
        /\ asked[c] <= Rounds(c)
        /\ Claude \/ c \in Key => c \notin stale /\ sheds[c] = 0
    BY FailoverAssumption DEF FailoverInv, FailoverTypeOK, AskedCount
  <2>2. QED
    BY <2>1 DEF Rounds
<1>2. QED
  BY <1>1, FailoverInvariant, PTL

\* The loop does not give up with a usable credential, attempts and time left
\* (the break at failoverDeadline and the nil of AcquireWithOptions).
THEOREM GivesUpLast == FailoverSpec => []NotGivenUpEarly
<1>1. FailoverInv => NotGivenUpEarly
  BY DEF FailoverInv
<1>2. QED
  BY <1>1, FailoverInvariant, PTL

\* A refusal that was withheld is what the loop gives up with (lastDeferred,
\* surfaceDeferred).
THEOREM RefusalSurfaces == FailoverSpec => []RefusalIsReplayed
<1>1. FailoverInv => RefusalIsReplayed
  BY DEF FailoverInv
<1>2. QED
  BY <1>1, FailoverInvariant, PTL

\* A client that waits is told something, unless a transport cancelled itself
\* (isClientDisconnect, and doForward's own test).
THEOREM WaitingIsAnswered == FailoverSpec => []AnsweredOrLeft
<1>1. FailoverInv => AnsweredOrLeft
  BY DEF FailoverInv
<1>2. QED
  BY <1>1, FailoverInvariant, PTL

-----------------------------------------------------------------------------
(***************************************************************************)
(* The relay of a Codex answer (CodexRelay).                               *)
(***************************************************************************)
\* A Codex request of one of the two shapes that come as a stream of events.
CodexRequest == req.provider = "openai" /\ req.shape \in {"stream", "whole"}

LEMMA NoClaudeNoKey ==
  ASSUME CodexRequest
  PROVE  CodexOAuth /\ ~Images /\ ~Claude /\ ~OnKey
  BY RelayAssumption DEF CodexRequest, CodexOAuth, Images, Claude, OnKey

\* Nothing changes the request.
LEMMA RequestKept ==
  ASSUME CodexRequest, [FailoverNext]_vars
  PROVE  CodexRequest'
  <1>1. req' = req
    <2>1. CASE UNCHANGED vars
      BY <2>1 DEF vars
    <2>2. CASE FailoverNext
      BY <2>2 DEF FailoverNext, Step, Attempt, Acquire, Exhaust, PrepareFails, RejectLocally,
         SkipCredential, Heartbeat, ClientGone, TransportCancelled, TransportFails, Refuse,
         ForwardError, Respond, ServeImage, Output, EndStream, BreakStream, BreakStaleSocket,
         ShedStream, WakeUp, ServeBody, ServeRelayBody, ServeCompact, StartGenerating, Aggregate,
         AggregateBreaks, Depart, PassDeadline, ChangeHealth, RotateOrFail, Rotate, Fail, Vanish,
         Serve, Finish
    <2> QED BY <2>1, <2>2
  <1> QED BY <1>1 DEF CodexRequest
-----------------------------------------------------------------------------
(***************************************************************************)
(* Every step of the relay is a step of the loop, or none.                 *)
(***************************************************************************)
Simulated == FailoverNext \/ UNCHANGED vars

LEMMA AttemptSimulates == ASSUME Attempt PROVE Simulated
  BY DEF Simulated, FailoverNext, Step

LEMMA AroundSimulates == ASSUME Around PROVE Simulated
  BY DEF Around, Simulated, FailoverNext, Step, Attempt

LEMMA NoStreamSimulates == ASSUME NoStream PROVE Simulated
  BY DEF NoStream, Simulated, FailoverNext, Step, Attempt

\* The transport is chosen behind the loop's back; a response is its Respond.
LEMMA TransportSimulates == ASSUME Transport PROVE Simulated
  <1>1. ASSUME Respond PROVE Simulated
    BY <1>1, AttemptSimulates DEF Attempt
  <1> QED BY <1>1 DEF Transport, RelayOverWS, RelayOverHTTP, StartRelay, FallBackToHTTP,
             CoolDownOver, EvictIdle, Simulated

\* Nothing happened that the loop can see.
LEMMA SilentSimulates ==
  ASSUME LoopUnchanged, UNCHANGED <<voices, usage>>
  PROVE  Simulated
  BY DEF LoopUnchanged, Simulated, vars

\* Something was written.
LEMMA SpeakingSimulates ==
  ASSUME Streaming, LoopUnchanged, Speak, usage' \in {usage, TRUE}
  PROVE  Simulated
  <1>1. Output
    BY DEF Output, LoopUnchanged
  <1> QED BY <1>1, AttemptSimulates DEF Attempt

\* A line is relayed (streamSSECodexBackend, streamCodexAsChatCompletions).
LEMMA LinesSimulate ==
  ASSUME NEW l, ReadLine(l) \/ ReadChatLine(l)
  PROVE  Simulated
  <1>1. LoopUnchanged /\ Streaming
    BY DEF ReadLine, ReadChatLine, Native
  <1>2. ASSUME Silent PROVE Simulated
    BY <1>1, <1>2, SilentSimulates DEF Silent
  <1>3. ASSUME NEW lines, NEW last, Emit(lines), Account(last) PROVE Simulated
    BY <1>1, <1>3, SpeakingSimulates DEF Emit, Account
  <1>4. CASE ReadLine(l)
    BY <1>2, <1>3, <1>4 DEF ReadLine, ReadWithheld, HoldEventLine, WithholdRefusal, BufferOpener,
       PassEvent, PassTerminator
  <1>5. CASE ReadChatLine(l)
    BY <1>2, <1>3, <1>5 DEF ReadChatLine
  <1> QED BY <1>4, <1>5

LEMMA EndSimulates ==
  ASSUME NEW why, StreamEnds(why)
  PROVE  Simulated
  <1>1. CASE UNCHANGED voices
    BY <1>1, SilentSimulates DEF StreamEnds
  <1>2. CASE Speak
    BY <1>2, SpeakingSimulates DEF StreamEnds
  <1> QED BY <1>1, <1>2 DEF StreamEnds

\* What becomes of a stream (doForwardCodexOAuth, case stream).
LEMMA OutcomeSimulates ==
  ASSUME CodexRequest,
         RetryShed \/ LeftUnheard \/ RetryStaleSocket \/ RetryBroken \/ SettleStream
  PROVE  Simulated
  <1>1. CASE RetryShed
    <2>1. ShedStream
      BY <1>1, NoClaudeNoKey DEF RetryShed, Unheard, ShedStream
    <2> QED BY <2>1, AttemptSimulates DEF Attempt
  <1>2. CASE LeftUnheard \/ RetryBroken
    <2>1. BreakStream
      BY <1>2 DEF LeftUnheard, RetryBroken, Unheard, BreakStream
    <2> QED BY <2>1, AttemptSimulates DEF Attempt
  <1>3. CASE RetryStaleSocket
    <2>1. BreakStaleSocket
      BY <1>3, NoClaudeNoKey DEF RetryStaleSocket, Unheard, BreakStaleSocket
    <2> QED BY <2>1, AttemptSimulates DEF Attempt
  <1>4. CASE SettleStream
    <2>1. BlameIf(FALSE) /\ Serve(FALSE)
      BY <1>4 DEF SettleStream, BlameIf
    <2>2. EndStream
      BY <1>4, <2>1 DEF SettleStream, EndStream
    <2> QED BY <2>2, AttemptSimulates DEF Attempt
  <1> QED BY <1>1, <1>2, <1>3, <1>4

\* A body made of a stream (aggregateCodexResponseStream).
LEMMA CollectSimulates ==
  ASSUME CodexRequest, NEW l, CollectLine(l) \/ CollectLast(l) \/ CollectCut
  PROVE  Simulated
  <1>0. CodexOAuth /\ (Reading => req.shape = "whole")
    BY NoClaudeNoKey DEF Reading, CodexRequest
  <1>1. ASSUME Reading, UNCHANGED blame, (\E u \in BOOLEAN : Serve(u)) \/ Fail PROVE Simulated
    <2>1. Aggregate
      BY <1>0, <1>1 DEF Aggregate
    <2> QED BY <2>1, AttemptSimulates DEF Attempt
  <1>2. ASSUME Reading, ~Spoken, \/ departed /\ Vanish
                                 \/ Rotate(FALSE) /\ UNCHANGED blame
        PROVE  Simulated
    <2>1. AggregateBreaks
      BY <1>0, <1>2 DEF AggregateBreaks
    <2> QED BY <2>1, AttemptSimulates DEF Attempt
  <1>3. CASE CollectLine(l)
    <2>1. CASE UNCHANGED voices
      BY <1>3, <2>1, SilentSimulates DEF CollectLine
    <2>2. CASE Spoken /\ Speak
      BY <1>3, <2>2, SilentSimulates DEF CollectLine, Spoken, Speak
    <2>3. CASE ~Spoken /\ Speak
      <3>1. StartGenerating
        BY <1>0, <1>3, <2>3 DEF CollectLine, Collecting, StartGenerating, LoopUnchanged
      <3> QED BY <3>1, AttemptSimulates DEF Attempt
    <2> QED BY <1>3, <2>1, <2>2, <2>3 DEF CollectLine
  <1>4. CASE CollectLast(l)
    BY <1>1, <1>2, <1>4 DEF CollectLast, Collecting
  <1>5. CASE CollectCut
    BY <1>1, <1>2, <1>5 DEF CollectCut
  <1> QED BY <1>3, <1>4, <1>5

LEMMA RelaySimulates ==
  ASSUME CodexRequest, [RelayNext]_relayVars
  PROVE  [FailoverNext]_vars
  <1>1. CASE UNCHANGED relayVars
    BY <1>1 DEF relayVars
  <1>2. ASSUME NEW l, ReadLine(l) \/ ReadChatLine(l) PROVE Simulated
    BY <1>2, LinesSimulate
  <1>3. ASSUME NEW l, CollectLine(l) \/ CollectLast(l) PROVE Simulated
    BY <1>3, CollectSimulates
  <1>4. ASSUME Stream PROVE Simulated
    <2>1. ASSUME CollectCut PROVE Simulated
      BY <2>1, CollectSimulates
    <2>2. ASSUME WindowCloses PROVE Simulated
      BY <2>2 DEF WindowCloses, Simulated
    <2>3. ASSUME \E why \in {"eof", "reset", "stall"} : StreamEnds(why) PROVE Simulated
      BY <2>3, EndSimulates
    <2> QED BY <1>2, <1>3, <1>4, <2>1, <2>2, <2>3, OutcomeSimulates DEF Stream
  <1>5. ASSUME RelayNext PROVE Simulated
    BY <1>4, <1>5, AroundSimulates, NoStreamSimulates, TransportSimulates DEF RelayNext
  <1> QED BY <1>1, <1>5 DEF Simulated

\* The relay, with its buffers, sockets and refusals inside a stream, does
\* nothing but what the loop of module Failover may do
\* (streamSSECodexBackend, codexWSEgress within doForwardCodexOAuth).
THEOREM RelayImplementsFailover == RelaySpec => ImplementsFailover
  <1>1. RelayInit => FailoverInit /\ CodexRequest
    BY DEF RelayInit, CodexRequest
  <1>2. CodexRequest /\ [RelayNext]_relayVars => [FailoverNext]_vars /\ CodexRequest'
    BY RelaySimulates, RequestKept
  <1> QED BY <1>1, <1>2, PTL DEF RelaySpec, ImplementsFailover

\* So what is true of every behaviour of the loop is true of the relay's.
THEOREM RelayKeepsFailover == RelaySpec => []FailoverInv
  <1>1. FailoverInit => FailoverInv
    BY InitInv
  <1>2. FailoverInv /\ [FailoverNext]_vars => FailoverInv'
    BY LoopKeeps
  <1> QED BY <1>1, <1>2, RelayImplementsFailover, PTL DEF ImplementsFailover
-----------------------------------------------------------------------------
(***************************************************************************)
(* Whose frames the client hears.                                          *)
(***************************************************************************)
Of(lines, S) == \A i \in DOMAIN lines : lines[i].of \in S

\* A socket in the pool holds nothing, and what is kept of a stream answers
\* the attempt that reads it.
FrameInv ==
  /\ \A lines \in {heard, preamble, held} : lines \in Seq(Line)
  /\ leftover = [c \in OAuth |-> 0]
  /\ pc = "relay" => feed = attempts /\ Of(preamble, {attempts}) /\ Of(held, {attempts})
  /\ Of(heard, voices)

LEMMA Joined ==
  ASSUME NEW s \in Seq(Line), NEW t \in Seq(Line), NEW S, Of(s, S), Of(t, S)
  PROVE  s \o t \in Seq(Line) /\ Of(s \o t, S)
  <1>1. s \o t \in Seq(Line) /\ Len(s \o t) = Len(s) + Len(t)
    BY ConcatProperties
  <1>2. ASSUME NEW i \in 1 .. Len(s) + Len(t) PROVE (s \o t)[i].of \in S
    <2>1. CASE i <= Len(s)
      <3>1. (s \o t)[i] = s[i] /\ i \in DOMAIN s
        BY <1>2, <2>1, ConcatProperties
      <3> QED BY <3>1 DEF Of
    <2>2. CASE i > Len(s)
      <3>1. (s \o t)[i] = t[i - Len(s)] /\ i - Len(s) \in DOMAIN t
        BY <1>2, <2>2, ConcatProperties
      <3> QED BY <3>1 DEF Of
    <2> QED BY <1>2, <2>1, <2>2
  <1> QED BY <1>1, <1>2 DEF Of

LEMMA One ==
  ASSUME NEW l \in Line
  PROVE  <<l>> \in Seq(Line) /\ \A S : l.of \in S => Of(<<l>>, S)
  BY DEF Of

LEMMA Nothing == <<>> \in Seq(Line) /\ \A S : Of(<<>>, S)
  BY DEF Of

LEMMA AsSentOf ==
  ASSUME NEW l \in Line
  PROVE  AsSent(l) \in Line /\ AsSent(l).of = l.of
  BY DEF AsSent, Line

LEMMA FrameInit == RelayInit => FrameInv
  BY Nothing DEF RelayInit, FrameInv, FailoverInit

LEMMA VoicesGrow ==
  ASSUME [FailoverNext]_vars
  PROVE  voices \subseteq voices' /\ (pc' = "relay" => attempts' = attempts)
  BY DEF vars, loopVars, FailoverNext, Step, Attempt, Acquire, Exhaust, PrepareFails, RejectLocally,
     SkipCredential, Heartbeat, ClientGone, TransportCancelled, TransportFails, Refuse,
     ForwardError, Respond, ServeImage, Output, EndStream, BreakStream, BreakStaleSocket,
     ShedStream, WakeUp, ServeBody, ServeRelayBody, ServeCompact, StartGenerating, Aggregate,
     AggregateBreaks, Depart, PassDeadline, ChangeHealth, RotateOrFail, Rotate, Fail, Vanish,
     Serve, Finish, Speak

\* A line upstream sends is of the attempt that reads it.
LEMMA LineRead ==
  ASSUME FailoverInv, FrameInv, NEW l \in Upstream, pc = "relay"
  PROVE  l \in Line /\ l.of = attempts
  <1>1. attempts \in 1 .. MaxAttempts /\ feed = attempts
    BY FailoverAssumption DEF FailoverInv, FailoverTypeOK, InFlight, FrameInv
  <1> QED BY <1>1 DEF Upstream, Line

\* A step that writes nothing and keeps nothing.
LEMMA UnheardKeeps ==
  ASSUME FrameInv, [FailoverNext]_vars, UNCHANGED <<heard, held, preamble, feed, leftover>>,
         pc' = "relay" => pc = "relay"
  PROVE  FrameInv'
  BY VoicesGrow DEF FrameInv, Of

\* codexWSBody.Close: what goes back to the pool is empty.
LEMMA CloseKeeps ==
  ASSUME FrameInv, [FailoverNext]_vars, Close, pc' # "relay"
  PROVE  FrameInv'
  <1>1. UNCHANGED leftover
    BY DEF Close, CloseBody, FrameInv
  <1>2. UNCHANGED <<heard, held, preamble, feed>>
    BY DEF Close, streamVars
  <1> QED BY <1>1, <1>2, UnheardKeeps

LEMMA AroundKeeps ==
  ASSUME FrameInv, [FailoverNext]_vars, Around \/ NoStream \/ WindowCloses \/ FallBackToHTTP
           \/ (\E c \in OAuth : CoolDownOver(c) \/ EvictIdle(c))
  PROVE  FrameInv'
  <1>1. UNCHANGED <<heard, held, preamble, feed, leftover>>
    BY DEF Around, NoStream, WindowCloses, FallBackToHTTP, CoolDownOver, EvictIdle, detail,
       socketVars, streamVars
  <1>2. pc' = "relay" => pc = "relay"
    BY DEF Around, NoStream, WindowCloses, FallBackToHTTP, CoolDownOver, EvictIdle, Acquire,
       Exhaust, WakeUp, Depart, PassDeadline, ChangeHealth, vars, Vanish, Finish, RejectLocally,
       SkipCredential, ClientGone, TransportFails, Refuse, ForwardError, RotateOrFail, Rotate, Fail
  <1> QED BY <1>1, <1>2, UnheardKeeps

\* An attempt starts to read its own stream.
LEMMA StartKeeps ==
  ASSUME FrameInv, [FailoverNext]_vars, RelayOverWS \/ RelayOverHTTP
  PROVE  FrameInv'
  <1>1. /\ feed' = attempts /\ attempts' = attempts
        /\ held' = <<>> /\ preamble' = <<>>
        /\ UNCHANGED <<heard, leftover>>
    BY DEF RelayOverWS, RelayOverHTTP, StartRelay, Respond, loopVars, Eligible, FrameInv
  <1> QED BY <1>1, Nothing, VoicesGrow DEF FrameInv, Of

\* What is written next to what has been heard.
LEMMA EmitKeeps ==
  ASSUME FrameInv, voices \subseteq voices', NEW lines \in Seq(Line), Of(lines, {attempts}),
         pc = "relay", Emit(lines)
  PROVE  /\ heard' \in Seq(Line) /\ Of(heard', voices')
         /\ preamble' = <<>>
  <1>1. /\ preamble \in Seq(Line) /\ Of(preamble, voices')
        /\ lines \in Seq(Line) /\ Of(lines, voices')
        /\ heard \in Seq(Line) /\ Of(heard, voices')
    BY DEF FrameInv, Of, Emit, Speak
  <1>2. heard \o preamble \in Seq(Line) /\ Of(heard \o preamble, voices')
    BY <1>1, Joined
  <1>3. (heard \o preamble) \o lines \in Seq(Line) /\ Of((heard \o preamble) \o lines, voices')
    BY <1>1, <1>2, Joined
  <1> QED BY <1>3 DEF Emit

LEMMA LineKeeps ==
  ASSUME FailoverInv, FrameInv, [FailoverNext]_vars,
         NEW l \in Upstream, ReadLine(l) \/ ReadChatLine(l)
  PROVE  FrameInv'
  <1>1. pc = "relay" /\ pc' = "relay" /\ attempts' = attempts /\ UNCHANGED <<feed, leftover>>
    BY DEF ReadLine, ReadChatLine, Relaying, LoopUnchanged, loopVars, socketVars
  <1>2. l \in Line /\ l.of = attempts /\ AsSent(l) \in Line /\ AsSent(l).of = attempts
    BY <1>1, LineRead, AsSentOf
  <1>3. /\ <<l>> \in Seq(Line) /\ Of(<<l>>, {attempts})
        /\ <<AsSent(l)>> \in Seq(Line) /\ Of(<<AsSent(l)>>, {attempts})
        /\ <<>> \in Seq(Line) /\ Of(<<>>, {attempts})
    BY <1>2, One, Nothing
  <1>4. held \in Seq(Line) /\ Of(held, {attempts}) /\ preamble \in Seq(Line) /\ Of(preamble, {attempts})
    BY <1>1 DEF FrameInv
  <1>5. held \o <<AsSent(l)>> \in Seq(Line) /\ Of(held \o <<AsSent(l)>>, {attempts})
    BY <1>3, <1>4, Joined
  <1>6. /\ preamble \o held \in Seq(Line) /\ Of(preamble \o held, {attempts})
        /\ Append(preamble, l) \in Seq(Line) /\ Of(Append(preamble, l), {attempts})
    BY <1>2, <1>4, Joined DEF Of
  <1>7. (preamble \o held) \o <<l>> \in Seq(Line) /\ Of((preamble \o held) \o <<l>>, {attempts})
    BY <1>3, <1>6, Joined
  <1>8. voices \subseteq voices'
    BY VoicesGrow
  <1> DEFINE Kept == held' \in Seq(Line) /\ Of(held', {attempts})
             Buffered == preamble' \in Seq(Line) /\ Of(preamble', {attempts})
             Heard == heard' \in Seq(Line) /\ Of(heard', voices')
  <1>9. ASSUME Silent PROVE Heard
    BY <1>8, <1>9 DEF Silent, FrameInv, Of
  <1>10. ASSUME NEW lines \in Seq(Line), Of(lines, {attempts}), Emit(lines) PROVE Heard /\ Buffered
    <2>1. heard' \in Seq(Line) /\ Of(heard', voices') /\ preamble' = <<>>
      BY <1>1, <1>8, <1>10, EmitKeeps
    <2> QED BY <1>3, <2>1
  <1>11. ASSUME ReadLine(l) PROVE Kept /\ Buffered /\ Heard
    <2>1. CASE ReadWithheld(l)
      BY <1>4, <1>9, <2>1 DEF ReadWithheld
    <2>2. CASE HoldEventLine(l)
      BY <1>3, <1>4, <1>9, <2>2 DEF HoldEventLine
    <2>3. CASE WithholdRefusal(l)
      BY <1>3, <1>9, <2>3 DEF WithholdRefusal
    <2>4. CASE BufferOpener(l)
      BY <1>3, <1>4, <1>7, <1>9, <2>4 DEF BufferOpener
    <2>5. CASE PassEvent(l)
      BY <1>3, <1>4, <1>5, <1>9, <1>10, <2>5 DEF PassEvent
    <2>6. CASE PassTerminator(l)
      BY <1>3, <1>4, <1>6, <1>9, <1>10, <2>6 DEF PassTerminator
    <2> QED BY <1>11, <2>1, <2>2, <2>3, <2>4, <2>5, <2>6 DEF ReadLine
  <1>12. ASSUME ReadChatLine(l) PROVE Kept /\ Buffered /\ Heard
    BY <1>3, <1>4, <1>9, <1>10, <1>12 DEF ReadChatLine
  <1>13. Kept /\ Buffered /\ Heard
    BY <1>11, <1>12
  <1> QED BY <1>1, <1>13 DEF FrameInv

LEMMA EndKeeps ==
  ASSUME FrameInv, [FailoverNext]_vars, NEW why, StreamEnds(why)
  PROVE  FrameInv'
  <1>1. /\ pc = "relay" /\ attempts' = attempts /\ UNCHANGED <<feed, leftover>>
        /\ held' = <<>> /\ preamble' = <<>>
    BY DEF StreamEnds, Streaming, LoopUnchanged, loopVars, socketVars
  <1>2. voices \subseteq voices'
    BY VoicesGrow
  <1>3. Leftovers \in Seq(Line) /\ Of(Leftovers, {attempts})
    <2>1. CASE shed # ""
      BY <2>1, Nothing DEF Leftovers
    <2>2. preamble \o held \in Seq(Line) /\ Of(preamble \o held, {attempts})
      BY <1>1, Joined DEF FrameInv
    <2>3. preamble \o <<>> \in Seq(Line) /\ Of(preamble \o <<>>, {attempts})
      BY <1>1, Nothing, Joined DEF FrameInv
    <2> QED BY <2>1, <2>2, <2>3 DEF Leftovers
  <1>4. heard' \in Seq(Line) /\ Of(heard', voices')
    <2>1. CASE Parked(why)
      BY <1>2, <2>1 DEF StreamEnds, FrameInv, Of
    <2>2. CASE ~Parked(why)
      <3>0. heard' = heard \o Leftovers
        BY <2>2 DEF StreamEnds
      <3>1. Of(Leftovers, voices') \/ Leftovers = <<>>
        BY <1>3, <2>2 DEF StreamEnds, Of, Speak
      <3>2. Of(Leftovers, voices') /\ Of(heard, voices') /\ heard \in Seq(Line)
        BY <1>2, <3>1, Nothing DEF FrameInv, Of
      <3> QED BY <1>3, <3>0, <3>2, Joined
    <2> QED BY <2>1, <2>2
  <1> QED BY <1>1, <1>4, Nothing DEF FrameInv

\* The settled, the rotated and the collected close their body.
LEMMA OutcomeKeeps ==
  ASSUME CodexRequest, FrameInv, [FailoverNext]_vars,
         \/ RetryShed \/ LeftUnheard \/ RetryStaleSocket \/ RetryBroken \/ SettleStream \/ CollectCut
         \/ \E l \in Upstream : CollectLine(l) \/ CollectLast(l)
  PROVE  FrameInv'
  <1>1. ASSUME NEW l \in Upstream, CollectLine(l) PROVE FrameInv'
    <2>1. UNCHANGED <<heard, held, preamble, feed, leftover>> /\ pc' = pc
      BY <1>1 DEF CollectLine, LoopUnchanged, socketVars
    <2> QED BY <2>1, UnheardKeeps
  <1>2. ASSUME \/ RetryShed \/ LeftUnheard \/ RetryStaleSocket \/ RetryBroken \/ SettleStream
               \/ CollectCut \/ \E l \in Upstream : CollectLast(l)
        PROVE  Close /\ pc' # "relay"
    BY <1>2 DEF RetryShed, LeftUnheard, RetryStaleSocket, RetryBroken, SettleStream, CollectCut,
       CollectLast, Rotate, Vanish, Fail, Serve, Finish
  <1> QED BY <1>1, <1>2, CloseKeeps

LEMMA FramesKept ==
  ASSUME CodexRequest, FailoverInv, FrameInv, [RelayNext]_relayVars
  PROVE  FrameInv'
  <1>0. [FailoverNext]_vars
    BY RelaySimulates
  <1>1. CASE UNCHANGED relayVars
    <2>1. UNCHANGED <<heard, held, preamble, feed, leftover, pc>>
      BY <1>1 DEF relayVars, vars, detail, socketVars, streamVars
    <2> QED BY <1>0, <2>1, UnheardKeeps
  <1>2. CASE Transport
    BY <1>0, <1>2, AroundKeeps, StartKeeps DEF Transport
  <1>3. CASE Stream
    <2>1. ASSUME NEW l \in Upstream, ReadLine(l) \/ ReadChatLine(l) PROVE FrameInv'
      BY <1>0, <2>1, LineKeeps
    <2>2. ASSUME \E why \in {"eof", "reset", "stall"} : StreamEnds(why) PROVE FrameInv'
      BY <1>0, <2>2, EndKeeps
    <2>3. ASSUME WindowCloses PROVE FrameInv'
      BY <1>0, <2>3, AroundKeeps
    <2> QED BY <1>0, <1>3, <2>1, <2>2, <2>3, OutcomeKeeps DEF Stream
  <1>4. CASE Around \/ NoStream
    BY <1>0, <1>4, AroundKeeps
  <1> QED BY <1>1, <1>2, <1>3, <1>4 DEF RelayNext

\* The client hears only frames of the attempt that speaks to it: a socket that
\* is kept for the next turn brings nothing of the last one, however the turns
\* and attempts before it ended (codexWSBody.Close, codexWSEgress).
THEOREM ClientHearsOwnFrames == RelaySpec => []OwnFrames
  <1>1. RelayInit => FrameInv /\ CodexRequest
    BY FrameInit DEF RelayInit, CodexRequest
  <1>2. CodexRequest /\ FailoverInv /\ FrameInv /\ [RelayNext]_relayVars
          => CodexRequest' /\ FrameInv'
    BY RelaySimulates, RequestKept, FramesKept
  <1>3. FrameInv => OwnFrames
    BY DEF FrameInv, Of, OwnFrames
  <1> QED BY <1>1, <1>2, <1>3, RelayKeepsFailover, PTL DEF RelaySpec

-----------------------------------------------------------------------------
(***************************************************************************)
(* Refusals in the withhold window.                                        *)
(***************************************************************************)
Refused(i) == read[i].part = "data" /\ read[i].kind \in Retryable /\ OnlyOpeners(i)

\* As long as upstream has sent nothing but openers, nothing is written; and a
\* refusal that follows them closes the ears of the relay.
HiddenInv ==
  /\ read \in Seq(Line)
  /\ pc = "sent" => ~Spoken
  /\ Native /\ ~expired =>
       /\ ended = "no" /\ OnlyOpeners(Len(read) + 1) => ~Spoken
       /\ (\E i \in DOMAIN read : Refused(i)) => shed # "" /\ ~Spoken

LEMMA HiddenInit == RelayInit => HiddenInv
  BY Nothing DEF RelayInit, FailoverInit, HiddenInv, Native, Streaming

LEMMA HiddenElsewhere ==
  ASSUME HiddenInv, read' \in Seq(Line), pc' \notin {"relay", "sent"}
  PROVE  HiddenInv'
  BY DEF HiddenInv, Native, Streaming

LEMMA HiddenQuietly ==
  ASSUME HiddenInv, UNCHANGED <<read, expired, ended, shed, chat, req, voices, attempts, pc>>
  PROVE  HiddenInv'
  BY DEF HiddenInv, Native, Streaming, Spoken, Refused, OnlyOpeners, DataBefore

LEMMA HiddenAround ==
  ASSUME FailoverInv, HiddenInv,
         Around \/ NoStream \/ WindowCloses \/ FallBackToHTTP
           \/ (\E c \in OAuth : CoolDownOver(c) \/ EvictIdle(c))
  PROVE  HiddenInv'
  <1>1. CASE \E a \in Cred : Acquire(a) /\ UNCHANGED detail
    <2>1. voices = {} /\ voices' = voices /\ pc' = "sent" /\ read' = read
      BY <1>1 DEF Acquire, FailoverInv, Voices, detail, streamVars
    <2> QED BY <2>1 DEF HiddenInv, Spoken, Native, Streaming
  <1>2. CASE (Depart \/ PassDeadline \/ \E c \in Cred : ChangeHealth(c)) /\ UNCHANGED detail
    <2>1. UNCHANGED <<read, expired, ended, shed, chat, req, voices, attempts, pc>>
      BY <1>2 DEF Depart, PassDeadline, ChangeHealth, loopVars, detail, streamVars
    <2> QED BY <2>1, HiddenQuietly
  <1>3. CASE ((Exhaust \/ WakeUp) /\ UNCHANGED detail) \/ NoStream
    <2>1. read' = read /\ pc' \notin {"relay", "sent"}
      BY <1>3 DEF Exhaust, WakeUp, NoStream, detail, streamVars, RejectLocally, SkipCredential,
         ClientGone, TransportFails, Refuse, ForwardError, RotateOrFail, Rotate, Fail, Vanish, Finish
    <2> QED BY <2>1, HiddenElsewhere DEF HiddenInv
  <1>4. CASE WindowCloses
    <2>1. read' = read /\ pc' = "relay" /\ expired'
      BY <1>4 DEF WindowCloses, Native, Streaming, vars
    <2> QED BY <2>1 DEF HiddenInv, Native, Streaming
  <1>5. CASE FallBackToHTTP \/ \E c \in OAuth : CoolDownOver(c) \/ EvictIdle(c)
    <2>1. UNCHANGED <<read, expired, ended, shed, chat, req, voices, attempts, pc>>
      BY <1>5 DEF FallBackToHTTP, CoolDownOver, EvictIdle, vars, loopVars, streamVars
    <2> QED BY <2>1, HiddenQuietly
  <1> QED BY <1>1, <1>2, <1>3, <1>4, <1>5 DEF Around

LEMMA HiddenAtStart ==
  ASSUME CodexRequest, HiddenInv, RelayOverWS \/ RelayOverHTTP
  PROVE  HiddenInv'
  <1>1. /\ pc = "sent" /\ pc' = "relay" /\ read' = <<>> /\ voices' = voices /\ attempts' = attempts
    BY NoClaudeNoKey DEF RelayOverWS, RelayOverHTTP, StartRelay, Respond, Sent, loopVars
  <1>2. ~Spoken'
    BY <1>1 DEF HiddenInv, Spoken
  <1>3. read' \in Seq(Line) /\ DOMAIN read' = {}
    BY <1>1, Nothing
  <1> QED BY <1>1, <1>2, <1>3 DEF HiddenInv

\* One line of the stream (streamSSECodexBackend).
LEMMA HiddenByLine ==
  ASSUME FailoverInv, FrameInv, HiddenInv, NEW l \in Upstream, ReadLine(l)
  PROVE  HiddenInv'
  <1>1. /\ pc = "relay" /\ pc' = "relay" /\ attempts' = attempts /\ ended = "no" /\ ended' = "no"
        /\ expired' = expired /\ Native
    BY DEF ReadLine, Relaying, LoopUnchanged, loopVars
  <1>2. read' = Append(read, l) /\ read \in Seq(Line) /\ l \in Line
    BY <1>1, LineRead DEF ReadLine, Read, HiddenInv
  <1>3. /\ read' \in Seq(Line) /\ Len(read') = Len(read) + 1
        /\ \A i \in 1 .. Len(read) : read'[i] = read[i]
        /\ read'[Len(read) + 1] = l
        /\ DOMAIN read = 1 .. Len(read) /\ DOMAIN read' = 1 .. Len(read) + 1 /\ Len(read) \in Nat
    BY <1>2
  <1>4. ASSUME ~expired, NEW i \in DOMAIN read', Refused(i)' PROVE shed' # "" /\ ~Spoken'
    <2>1. \A j \in 1 .. i - 1 : read[j].part = "data" => read[j].kind \in ContentFree
      BY <1>3, <1>4 DEF Refused, OnlyOpeners, DataBefore
    <2>2. CASE i \in DOMAIN read
      <3>1. Refused(i)
        BY <1>3, <1>4, <2>1, <2>2 DEF Refused, OnlyOpeners, DataBefore
      <3>2. shed # "" /\ ~Spoken
        BY <1>1, <1>4, <2>2, <3>1 DEF HiddenInv
      <3>3. ReadWithheld(l)
        BY <3>2 DEF ReadLine, HoldEventLine, WithholdRefusal, BufferOpener, PassEvent,
           PassTerminator
      <3> QED BY <1>1, <3>2, <3>3 DEF ReadWithheld, Silent, Spoken
    <2>3. CASE i = Len(read) + 1
      <3>1. l.part = "data" /\ l.kind \in Retryable
        BY <1>3, <1>4, <2>3 DEF Refused
      <3>2. ~Spoken
        BY <1>1, <1>3, <1>4, <2>1, <2>3 DEF HiddenInv, OnlyOpeners, DataBefore
      <3>3. ReadWithheld(l) \/ WithholdRefusal(l)
        BY <3>1, <3>2 DEF ReadLine, HoldEventLine, BufferOpener, PassEvent, PassTerminator,
           Retryable, ContentFree
      <3>4. voices' = voices
        BY <3>3 DEF ReadWithheld, WithholdRefusal, Silent
      <3>5. shed' # ""
        BY <3>1, <3>3 DEF ReadWithheld, WithholdRefusal, Retryable
      <3> QED BY <1>1, <3>2, <3>4, <3>5 DEF Spoken
    <2>4. i \in DOMAIN read \/ i = Len(read) + 1
      BY <1>3, <1>4
    <2> QED BY <2>2, <2>3, <2>4
  <1>5. ASSUME ~expired, OnlyOpeners(Len(read) + 1)' PROVE ~Spoken'
    <2>1. \A j \in 1 .. Len(read) + 1 : read'[j].part = "data" => read'[j].kind \in ContentFree
      BY <1>3, <1>5 DEF OnlyOpeners, DataBefore
    <2>2. l.part = "data" => l.kind \in ContentFree
      BY <1>3, <2>1
    <2>3. OnlyOpeners(Len(read) + 1)
      BY <1>3, <2>1 DEF OnlyOpeners, DataBefore
    <2>4. ~Spoken
      BY <1>1, <1>5, <2>3 DEF HiddenInv
    <2>5. Silent
      BY <1>5, <2>2, <2>4 DEF ReadLine, ReadWithheld, HoldEventLine, WithholdRefusal, BufferOpener,
         PassEvent, PassTerminator
    <2> QED BY <1>1, <2>4, <2>5 DEF Silent, Spoken
  <1> QED BY <1>1, <1>3, <1>4, <1>5 DEF HiddenInv

LEMMA HiddenByOther ==
  ASSUME FailoverInv, FrameInv, HiddenInv,
         NEW l \in Upstream, ReadChatLine(l) \/ CollectLine(l) \/ CollectLast(l)
  PROVE  HiddenInv'
  <1>1. pc = "relay" /\ (read' = Append(read, l) \/ read' = read)
    BY DEF ReadChatLine, CollectLine, CollectLast, Collecting, Relaying, Read, Close, streamVars
  <1>2. read' \in Seq(Line)
    <2>1. read \in Seq(Line) /\ l \in Line
      BY <1>1, LineRead DEF HiddenInv
    <2>2. Append(read, l) \in Seq(Line)
      BY <2>1
    <2> QED BY <1>1, <2>1, <2>2
  <1>3. CASE ReadChatLine(l)
    <2>1. pc' # "sent" /\ ~Native'
      BY <1>1, <1>3 DEF ReadChatLine, LoopUnchanged, Native
    <2> QED BY <1>2, <2>1 DEF HiddenInv
  <1>4. CASE CollectLine(l)
    <2>1. pc' # "sent" /\ ~Native'
      BY <1>1, <1>4 DEF CollectLine, Collecting, Reading, LoopUnchanged, Native, Streaming
    <2> QED BY <1>2, <2>1 DEF HiddenInv
  <1>5. CASE CollectLast(l)
    <2>1. pc' \notin {"relay", "sent"}
      BY <1>5 DEF CollectLast, Rotate, Vanish, Fail, Serve, Finish
    <2> QED BY <1>2, <2>1, HiddenElsewhere
  <1> QED BY <1>3, <1>4, <1>5

LEMMA HiddenAtEnd ==
  ASSUME HiddenInv, NEW why \in {"eof", "reset", "stall"}, StreamEnds(why)
  PROVE  HiddenInv'
  <1>1. /\ pc = "relay" /\ pc' = "relay" /\ UNCHANGED <<read, expired, attempts, chat, req>>
        /\ ended' # "no" /\ Streaming
    BY DEF StreamEnds, Streaming, LoopUnchanged, loopVars
  <1>2. ASSUME Native', ~expired', NEW i \in DOMAIN read', Refused(i)' PROVE shed' # "" /\ ~Spoken'
    <2>1. shed # "" /\ ~Spoken
      BY <1>1, <1>2 DEF HiddenInv, Native, Streaming, Refused, OnlyOpeners, DataBefore
    <2> QED BY <1>1, <2>1 DEF StreamEnds, Parked, Leftovers, Spoken
  <1> QED BY <1>1, <1>2 DEF HiddenInv

LEMMA HiddenByOutcome ==
  ASSUME HiddenInv,
         \/ RetryShed \/ LeftUnheard \/ RetryStaleSocket \/ RetryBroken \/ SettleStream \/ CollectCut
  PROVE  HiddenInv'
  <1>1. read' = read /\ pc' \notin {"relay", "sent"}
    BY DEF RetryShed, LeftUnheard, RetryStaleSocket, RetryBroken, SettleStream, CollectCut,
       Close, streamVars, Rotate, Vanish, Fail, Serve, Finish
  <1> QED BY <1>1, HiddenElsewhere DEF HiddenInv

LEMMA HiddenKept ==
  ASSUME CodexRequest, FailoverInv, FrameInv, HiddenInv, [RelayNext]_relayVars
  PROVE  HiddenInv'
  <1>1. CASE UNCHANGED relayVars
    <2>1. UNCHANGED <<read, expired, ended, shed, chat, req, voices, attempts, pc>>
      BY <1>1 DEF relayVars, vars, loopVars, detail, streamVars
    <2> QED BY <2>1, HiddenQuietly
  <1>2. CASE Transport
    BY <1>2, HiddenAround, HiddenAtStart DEF Transport
  <1>3. CASE Stream
    <2>1. ASSUME NEW l \in Upstream,
                 ReadLine(l) \/ ReadChatLine(l) \/ CollectLine(l) \/ CollectLast(l)
          PROVE HiddenInv'
      BY <2>1, HiddenByLine, HiddenByOther
    <2>2. ASSUME WindowCloses PROVE HiddenInv'
      BY <2>2, HiddenAround
    <2> QED BY <1>3, <2>1, <2>2, HiddenAtEnd, HiddenByOutcome DEF Stream
  <1>4. CASE Around \/ NoStream
    BY <1>4, HiddenAround
  <1> QED BY <1>1, <1>2, <1>3, <1>4 DEF RelayNext

\* A refusal that comes within the window, after nothing but openers, leaves the
\* response uncommitted, for any stream and any reading of the client: the
\* request can still be served elsewhere (streamSSECodexBackend).
THEOREM RefusalsStayHidden == RelaySpec => []RefusalStaysHidden
  <1>1. RelayInit => FrameInv /\ HiddenInv /\ CodexRequest
    BY FrameInit, HiddenInit DEF RelayInit, CodexRequest
  <1>2. CodexRequest /\ FailoverInv /\ FrameInv /\ HiddenInv /\ [RelayNext]_relayVars
          => CodexRequest' /\ FrameInv' /\ HiddenInv'
    BY RelaySimulates, RequestKept, FramesKept, HiddenKept
  <1>3. HiddenInv => RefusalStaysHidden
    BY DEF HiddenInv, RefusalStaysHidden, Refused
  <1> QED BY <1>1, <1>2, <1>3, RelayKeepsFailover, PTL DEF RelaySpec

-----------------------------------------------------------------------------
(***************************************************************************)
(* What the client is shown, line by line.                                 *)
(***************************************************************************)
\* Every visible line has a place of its own: what Shown chooses exists.
Counted(lines) ==
  \A k \in 1 .. Cardinality(Visible(lines)) : Nth(Visible(lines), k) # {}

\* A new last position is the last in order and moves no other.
LEMMA NthOfMore ==
  ASSUME NEW n \in Nat, NEW I \in SUBSET (1 .. n)
  PROVE  /\ Cardinality(I) \in Nat /\ Cardinality(I \cup {n + 1}) = Cardinality(I) + 1
         /\ \A k \in 1 .. Cardinality(I) : Nth(I \cup {n + 1}, k) = Nth(I, k)
         /\ Nth(I \cup {n + 1}, Cardinality(I) + 1) = {n + 1}
  <1> DEFINE More == I \cup {n + 1}
             Upto(J, i) == {j \in J : j <= i}
  <1>1. IsFiniteSet(I) /\ Cardinality(I) \in Nat
    <2>1. 1 \in Int /\ n \in Int
      OBVIOUS
    <2>2. IsFiniteSet(1 .. n)
      BY <2>1, FS_Interval
    <2> QED BY <2>2, FS_Subset, FS_CardinalityType
  <1>2. n + 1 \notin I /\ \A i \in I : i \in 1 .. n
    OBVIOUS
  <1>3. Cardinality(More) = Cardinality(I) + 1
    BY <1>1, <1>2, FS_AddElement
  <1>4. \A i \in I : Upto(More, i) = Upto(I, i)
    BY <1>2
  <1>5. Upto(More, n + 1) = More
    <2>1. \A j \in More : j <= n + 1
      BY <1>2
    <2> QED BY <2>1
  <1>6. \A i \in I : Cardinality(Upto(I, i)) \in Nat /\ Cardinality(Upto(I, i)) <= Cardinality(I)
    BY <1>1, FS_Subset, FS_CardinalityType
  <1>7. ASSUME NEW k \in 1 .. Cardinality(I) PROVE Nth(More, k) = Nth(I, k)
    <2>1. Cardinality(Upto(More, n + 1)) # k
      BY <1>1, <1>3, <1>5
    <2> QED BY <1>4, <2>1 DEF Nth
  <1>8. Nth(More, Cardinality(I) + 1) = {n + 1}
    <2>1. \A i \in I : Cardinality(Upto(More, i)) # Cardinality(I) + 1
      BY <1>1, <1>4, <1>6
    <2> QED BY <1>3, <1>5, <2>1 DEF Nth
  <1> QED BY <1>1, <1>3, <1>7, <1>8

LEMMA ShownNothing == Shown(<<>>) = <<>> /\ Counted(<<>>)
  <1>1. Visible(<<>>) = {}
    BY DEF Visible
  <1> QED BY <1>1, FS_EmptySet DEF Shown, Counted

\* One line more is shown behind the others, or not at all.
LEMMA ShownNext ==
  ASSUME NEW s \in Seq(Line), NEW l \in Line, Counted(s)
  PROVE  /\ Counted(Append(s, l)) /\ Shown(s) \in Seq(Line)
         /\ Shown(Append(s, l)) = IF Private(l) THEN Shown(s) ELSE Append(Shown(s), AsSent(l))
  <1> DEFINE t == Append(s, l)
             n == Len(s)
             I == Visible(s)
             m == Cardinality(I)
             First(J, k) == CHOOSE i \in Nth(J, k) : TRUE
  <1>1. n \in Nat /\ t \in Seq(Line) /\ DOMAIN s = 1 .. n /\ DOMAIN t = 1 .. n + 1
    OBVIOUS
  <1>2. t[n + 1] = l /\ \A i \in 1 .. n : t[i] = s[i]
    OBVIOUS
  <1>3. I \in SUBSET (1 .. n)
    BY <1>1 DEF Visible
  <1>4. Visible(t) = IF Private(l) THEN I ELSE I \cup {n + 1}
    BY <1>1, <1>2 DEF Visible
  <1>5. /\ m \in Nat /\ Cardinality(I \cup {n + 1}) = m + 1
        /\ \A k \in 1 .. m : Nth(I \cup {n + 1}, k) = Nth(I, k)
        /\ Nth(I \cup {n + 1}, m + 1) = {n + 1}
    BY <1>1, <1>3, NthOfMore
  <1>6. ASSUME NEW k \in 1 .. m PROVE First(I, k) \in 1 .. n /\ t[First(I, k)] = s[First(I, k)]
    <2>1. Nth(I, k) # {} /\ Nth(I, k) \subseteq I
      BY <1>6 DEF Counted, Nth
    <2>2. First(I, k) \in Nth(I, k)
      BY <2>1
    <2> QED BY <1>2, <1>3, <2>1, <2>2
  <1>7. Shown(s) = [k \in 1 .. m |-> AsSent(s[First(I, k)])]
    BY DEF Shown
  <1>8. Shown(s) \in Seq(Line)
    <2>1. \A k \in 1 .. m : AsSent(s[First(I, k)]) \in Line
      BY <1>1, <1>6, AsSentOf
    <2> QED BY <1>5, <1>7, <2>1
  <1>9. CASE Private(l)
    <2>1. Visible(t) = I
      BY <1>4, <1>9
    <2>2. Shown(t) = [k \in 1 .. m |-> AsSent(t[First(I, k)])]
      BY <2>1 DEF Shown
    <2>3. Shown(t) = Shown(s)
      BY <1>6, <1>7, <2>2
    <2> QED BY <1>8, <1>9, <2>1, <2>3 DEF Counted
  <1>10. CASE ~Private(l)
    <2> DEFINE More == I \cup {n + 1}
    <2>1. Visible(t) = More
      BY <1>4, <1>10
    <2>2. Shown(t) = [k \in 1 .. m + 1 |-> AsSent(t[First(More, k)])]
      <3>1. Shown(t) = [k \in 1 .. Cardinality(More) |-> AsSent(t[First(More, k)])]
        BY <2>1 DEF Shown
      <3> QED BY <1>5, <3>1
    <2>3. \A k \in 1 .. m : First(More, k) = First(I, k)
      BY <1>5
    <2>4. First(More, m + 1) = n + 1
      BY <1>5
    <2>5. \A k \in 1 .. m : AsSent(t[First(More, k)]) = AsSent(s[First(I, k)])
      BY <1>6, <2>3
    <2>6. AsSent(t[First(More, m + 1)]) = AsSent(l)
      BY <1>2, <2>4
    <2>7. AsSent(l) \in Line
      BY AsSentOf
    <2>8. Len(Shown(s)) = m
      BY <1>5, <1>7, <1>8
    <2>9. Shown(t) = Append(Shown(s), AsSent(l))
      <3> DEFINE Both(k) == IF k = m + 1 THEN AsSent(l) ELSE AsSent(s[First(I, k)])
      <3>1. ASSUME NEW k \in 1 .. m + 1 PROVE AsSent(t[First(More, k)]) = Both(k)
        <4>1. CASE k = m + 1
          BY <2>6, <4>1
        <4>2. CASE k # m + 1
          <5>1. k \in 1 .. m
            BY <1>5, <3>1, <4>2
          <5> QED BY <2>5, <4>2, <5>1
        <4> QED BY <4>1, <4>2
      <3>2. Shown(t) = [k \in 1 .. m + 1 |-> Both(k)]
        BY <2>2, <3>1
      <3>3. Append(Shown(s), AsSent(l)) = [k \in 1 .. m + 1 |-> IF k = m + 1 THEN AsSent(l) ELSE Shown(s)[k]]
        <4> DEFINE u == Append(Shown(s), AsSent(l))
        <4>1. /\ u \in Seq(Line) /\ Len(u) = m + 1 /\ u[m + 1] = AsSent(l)
              /\ \A k \in 1 .. m : u[k] = Shown(s)[k]
          BY <1>8, <2>7, <2>8, AppendProperties
        <4>2. u \in [1 .. m + 1 -> Line]
          BY <4>1, LenProperties
        <4>3. \A k \in 1 .. m + 1 : k = m + 1 \/ k \in 1 .. m
          BY <1>5
        <4> HIDE DEF u
        <4>4. \A k \in 1 .. m + 1 : u[k] = IF k = m + 1 THEN AsSent(l) ELSE Shown(s)[k]
          BY <4>1, <4>3
        <4>5. u = [k \in 1 .. m + 1 |-> IF k = m + 1 THEN AsSent(l) ELSE Shown(s)[k]]
          BY <4>2, <4>4
        <4> QED BY <4>5 DEF u
      <3>4. ASSUME NEW k \in 1 .. m + 1 PROVE Both(k) = IF k = m + 1 THEN AsSent(l) ELSE Shown(s)[k]
        <4>1. CASE k # m + 1
          <5>1. k \in 1 .. m
            BY <1>5, <3>4, <4>1
          <5> QED BY <1>7, <4>1, <5>1
        <4> QED BY <4>1
      <3> QED BY <3>2, <3>3, <3>4
    <2>10. Counted(t)
      <3>1. ASSUME NEW k \in 1 .. m + 1 PROVE Nth(More, k) # {}
        <4>1. CASE k = m + 1
          BY <1>5, <4>1
        <4>2. CASE k # m + 1
          <5>1. k \in 1 .. m
            BY <1>5, <3>1, <4>2
          <5> QED BY <1>5, <5>1 DEF Counted
        <4> QED BY <4>1, <4>2
      <3> QED BY <1>5, <2>1, <3>1 DEF Counted
    <2> QED BY <1>8, <1>10, <2>9, <2>10
  <1> QED BY <1>9, <1>10

\* The event: line that waits for its data, if it is the last that was read.
EventLine == IF read # <<>> /\ read[Len(read)].part = "event" THEN <<read[Len(read)]>> ELSE <<>>

\* What was read is what is shown and, behind it, the line that is held; and
\* nothing is heard of an answer before somebody has spoken.
ShownInv ==
  /\ voices = {} => heard = <<>>
  /\ Native /\ ended = "no" /\ shed = "" =>
       /\ held = EventLine
       /\ \E s \in Seq(Line) : read = s \o held /\ Counted(s) /\ heard \o preamble = Shown(s)

LEMMA ShownInit == RelayInit => ShownInv
  BY DEF RelayInit, FailoverInit, ShownInv, Native, Streaming

LEMMA ShownElsewhere ==
  ASSUME ShownInv, voices \subseteq voices', heard' = heard, pc' # "relay" \/ ~Native'
  PROVE  ShownInv'
  BY DEF ShownInv, Native, Streaming

LEMMA ShownQuietly ==
  ASSUME ShownInv, voices \subseteq voices',
         UNCHANGED <<read, ended, shed, chat, req, heard, preamble, held, pc>>
  PROVE  ShownInv'
  BY DEF ShownInv, Native, Streaming, EventLine

LEMMA ShownAround ==
  ASSUME ShownInv, [FailoverNext]_vars,
         Around \/ NoStream \/ WindowCloses \/ FallBackToHTTP
           \/ (\E c \in OAuth : CoolDownOver(c) \/ EvictIdle(c))
  PROVE  ShownInv'
  <1>0. voices \subseteq voices'
    BY VoicesGrow
  <1>1. CASE ((\E a \in Cred : Acquire(a)) \/ Exhaust \/ WakeUp) /\ UNCHANGED detail
    <2>1. heard' = heard /\ pc' # "relay"
      BY <1>1 DEF Acquire, Exhaust, WakeUp, detail, streamVars, Vanish, Finish
    <2> QED BY <1>0, <2>1, ShownElsewhere
  <1>2. CASE (Depart \/ PassDeadline \/ \E c \in Cred : ChangeHealth(c)) /\ UNCHANGED detail
    <2>1. UNCHANGED <<read, ended, shed, chat, req, heard, preamble, held, pc>>
      BY <1>2 DEF Depart, PassDeadline, ChangeHealth, loopVars, detail, streamVars
    <2> QED BY <1>0, <2>1, ShownQuietly
  <1>3. CASE NoStream
    <2>1. heard' = heard /\ pc' # "relay"
      BY <1>3 DEF NoStream, streamVars, RejectLocally, SkipCredential,
         ClientGone, TransportFails, Refuse, ForwardError, RotateOrFail, Rotate, Fail, Vanish, Finish
    <2> QED BY <1>0, <2>1, ShownElsewhere
  <1>4. CASE WindowCloses \/ FallBackToHTTP \/ \E c \in OAuth : CoolDownOver(c) \/ EvictIdle(c)
    <2>1. UNCHANGED <<read, ended, shed, chat, req, heard, preamble, held, pc>>
      BY <1>4 DEF WindowCloses, FallBackToHTTP, CoolDownOver, EvictIdle, vars, loopVars, streamVars
    <2> QED BY <1>0, <2>1, ShownQuietly
  <1> QED BY <1>1, <1>2, <1>3, <1>4 DEF Around

\* An attempt starts where nobody has heard anything.
LEMMA ShownAtStart ==
  ASSUME CodexRequest, FailoverInv, HiddenInv, ShownInv, RelayOverWS \/ RelayOverHTTP
  PROVE  ShownInv'
  <1>1. /\ pc = "sent" /\ voices' = voices /\ heard' = heard
        /\ read' = <<>> /\ held' = <<>> /\ preamble' = <<>>
    BY NoClaudeNoKey DEF RelayOverWS, RelayOverHTTP, StartRelay, Respond, Sent
  <1>2. heard = <<>>
    BY <1>1 DEF FailoverInv, Voices, HiddenInv, Spoken, ShownInv
  <1>3. EventLine' = <<>>
    BY <1>1 DEF EventLine
  <1>4. /\ heard' \o preamble' = Shown(<<>>) /\ Counted(<<>>)
        /\ <<>> \in Seq(Line) /\ read' = <<>> \o held'
    BY <1>1, <1>2, Nothing, ShownNothing, ConcatEmptySeq
  <1> QED BY <1>1, <1>2, <1>3, <1>4 DEF ShownInv

\* The line that waits belongs to the line that comes.
LEMMA HeldBelongs ==
  ASSUME read \in Seq(Line), held = EventLine, NEW l \in Upstream
  PROVE  \/ held = <<>>
         \/ l.part = "data" /\ \E e \in Line : held = <<e>> /\ e.part = "event" /\ e.kind = l.kind
  <1>1. CASE read # <<>> /\ read[Len(read)].part = "event"
    <2>1. read[Len(read)] \in Line /\ held = <<read[Len(read)]>>
      BY <1>1 DEF EventLine
    <2>2. l.part = "data" /\ l.kind = read[Len(read)].kind
      BY <1>1 DEF Upstream, Follows
    <2> QED BY <1>1, <2>1, <2>2
  <1>2. CASE ~(read # <<>> /\ read[Len(read)].part = "event")
    BY <1>2 DEF EventLine
  <1> QED BY <1>1, <1>2

\* What is shown once a line has joined the one that waited.
LEMMA ShownWith ==
  ASSUME NEW s \in Seq(Line), Counted(s), read = s \o held, NEW l \in Line,
         \/ held = <<>>
         \/ l.part = "data" /\ \E e \in Line : held = <<e>> /\ e.part = "event" /\ e.kind = l.kind
  PROVE  /\ Counted(Append(read, l)) /\ Shown(s) \in Seq(Line)
         /\ Shown(Append(read, l)) =
              IF Private(l) THEN Shown(s) ELSE (Shown(s) \o held) \o <<AsSent(l)>>
  <1>1. Shown(s) \in Seq(Line) /\ AsSent(l) \in Line
    BY ShownNext, AsSentOf
  <1>2. CASE held = <<>>
    <2>1. read = s /\ Shown(s) \o held = Shown(s)
      BY <1>1, <1>2, ConcatEmptySeq
    <2>2. Append(Shown(s), AsSent(l)) = Shown(s) \o <<AsSent(l)>>
      BY <1>1, AppendIsConcat
    <2> QED BY <1>1, <2>1, <2>2, ShownNext
  <1>3. ASSUME NEW e \in Line, held = <<e>>, e.part = "event", e.kind = l.kind, l.part = "data"
        PROVE  /\ Counted(Append(read, l))
               /\ Shown(Append(read, l)) =
                    IF Private(l) THEN Shown(s) ELSE (Shown(s) \o held) \o <<AsSent(l)>>
    <2>1. read = Append(s, e) /\ read \in Seq(Line)
      BY <1>3, AppendIsConcat, AppendProperties
    <2>2. AsSent(e) = e /\ (Private(e) <=> Private(l))
      BY <1>3 DEF AsSent, Private
    <2>3. /\ Counted(read)
          /\ Shown(read) = IF Private(l) THEN Shown(s) ELSE Append(Shown(s), e)
      BY <2>1, <2>2, ShownNext
    <2>4. Append(Shown(s), e) = Shown(s) \o held /\ Append(Shown(s), e) \in Seq(Line)
      BY <1>1, <1>3, AppendIsConcat, AppendProperties
    <2>5. /\ Counted(Append(read, l))
          /\ Shown(Append(read, l)) = IF Private(l) THEN Shown(read) ELSE Append(Shown(read), AsSent(l))
      BY <2>1, <2>3, ShownNext
    <2>6. Append(Append(Shown(s), e), AsSent(l)) = (Shown(s) \o held) \o <<AsSent(l)>>
      BY <1>1, <2>4, AppendIsConcat
    <2> QED BY <2>3, <2>5, <2>6
  <1> QED BY <1>1, <1>2, <1>3

\* One line of the stream (streamSSECodexBackend).
LEMMA ShownByLine ==
  ASSUME FailoverInv, FrameInv, HiddenInv, ShownInv, NEW l \in Upstream, ReadLine(l)
  PROVE  ShownInv'
  <1>1. /\ pc = "relay" /\ ended = "no" /\ Native /\ read' = Append(read, l)
    BY DEF ReadLine, Relaying, Read
  <1>2. /\ read \in Seq(Line) /\ held \in Seq(Line) /\ l \in Line
        /\ heard \in Seq(Line) /\ preamble \in Seq(Line)
    BY <1>1, LineRead DEF FrameInv, HiddenInv
  <1>3. voices' = {} => heard' = <<>>
    <2>1. voices \subseteq voices' /\ (Silent \/ attempts \in voices')
      BY DEF ReadLine, ReadWithheld, HoldEventLine, WithholdRefusal, BufferOpener, PassEvent,
         PassTerminator, Emit, Speak, Silent
    <2> QED BY <2>1 DEF Silent, ShownInv
  <1>4. ASSUME shed' = ""
        PROVE  /\ held' = EventLine'
               /\ \E s \in Seq(Line) : read' = s \o held' /\ Counted(s)
                                     /\ heard' \o preamble' = Shown(s)
    <2>1. shed = "" /\ ~ReadWithheld(l) /\ ~WithholdRefusal(l)
      BY <1>4 DEF ReadLine, ReadWithheld, HoldEventLine, WithholdRefusal, BufferOpener, PassEvent,
         PassTerminator, Retryable
    <2>2. held = EventLine
      BY <1>1, <2>1 DEF ShownInv
    <2>3. PICK s \in Seq(Line) : read = s \o held /\ Counted(s) /\ heard \o preamble = Shown(s)
      BY <1>1, <2>1 DEF ShownInv
    <2>4. \/ held = <<>>
          \/ l.part = "data" /\ \E e \in Line : held = <<e>> /\ e.part = "event" /\ e.kind = l.kind
      BY <1>2, <2>2, HeldBelongs
    <2>5. EventLine' = IF l.part = "event" THEN <<l>> ELSE <<>>
      BY <1>1, <1>2, AppendProperties DEF EventLine
    <2>6. /\ Counted(read') /\ read' \in Seq(Line) /\ read' \o <<>> = read'
          /\ Shown(read') =
               IF Private(l) THEN heard \o preamble
                             ELSE ((heard \o preamble) \o held) \o <<AsSent(l)>>
      <3>1. read' \in Seq(Line)
        BY <1>1, <1>2, AppendProperties
      <3>2. /\ Counted(Append(read, l))
            /\ Shown(Append(read, l)) =
                 IF Private(l) THEN Shown(s) ELSE (Shown(s) \o held) \o <<AsSent(l)>>
        BY <1>2, <2>3, <2>4, ShownWith
      <3>3. read' \o <<>> = read'
        BY <3>1, ConcatEmptySeq
      <3> QED BY <1>1, <2>3, <3>1, <3>2, <3>3
    <2>7. AsSent(l) \in Line /\ <<AsSent(l)>> \in Seq(Line) /\ <<l>> \in Seq(Line)
      BY <1>2, AsSentOf, One
    <2>8. CASE HoldEventLine(l)
      <3>1. held = <<>> /\ held' = <<l>> /\ UNCHANGED <<heard, preamble>>
        BY <2>4, <2>8 DEF HoldEventLine, Silent
      <3>2. read = s /\ read' = s \o held'
        BY <1>1, <1>2, <2>3, <3>1, AppendIsConcat, ConcatEmptySeq
      <3> QED BY <2>3, <2>5, <2>8, <3>1, <3>2 DEF HoldEventLine
    <2>9. ASSUME held' = <<>>, l.part # "event", heard' \o preamble' = Shown(read')
          PROVE  /\ held' = EventLine'
                 /\ \E t \in Seq(Line) : read' = t \o held' /\ Counted(t)
                                       /\ heard' \o preamble' = Shown(t)
      BY <2>5, <2>6, <2>9
    <2>10. CASE BufferOpener(l)
      <3>1. held' = <<>> /\ l.part = "data" /\ heard' = heard /\ AsSent(l) = l
        BY <2>10 DEF BufferOpener, Silent, ContentFree, AsSent
      <3>2. CASE l.kind = "private"
        <4>1. preamble' = preamble /\ Private(l)
          BY <2>10, <3>1, <3>2 DEF BufferOpener, Private
        <4> QED BY <2>6, <2>9, <3>1, <4>1
      <3>3. CASE l.kind # "private"
        <4>1. preamble' = (preamble \o held) \o <<l>> /\ ~Private(l)
          BY <2>10, <3>3 DEF BufferOpener, Private
        <4>2. preamble \o held \in Seq(Line)
          BY <1>2, ConcatProperties
        <4>3. heard \o ((preamble \o held) \o <<l>>) = (heard \o (preamble \o held)) \o <<l>>
          BY <1>2, <2>7, <4>2, ConcatAssociative
        <4>4. heard \o (preamble \o held) = (heard \o preamble) \o held
          <5>1. ASSUME NEW a \in Seq(Line), NEW b \in Seq(Line), NEW c \in Seq(Line)
                PROVE  a \o (b \o c) = (a \o b) \o c
            BY ConcatAssociative
          <5> QED BY <1>2, <5>1
        <4>5. heard' \o preamble' = Shown(read')
          BY <2>6, <3>1, <4>1, <4>3, <4>4
        <4> QED BY <2>9, <3>1, <4>5
      <3> QED BY <3>2, <3>3
    <2>11. ASSUME NEW lines \in Seq(Line), Emit(lines)
           PROVE  heard' \o preamble' = (heard \o preamble) \o lines
      <3>1. heard' = (heard \o preamble) \o lines /\ preamble' = <<>>
        BY <2>11 DEF Emit
      <3>2. heard' \in Seq(Line)
        BY <1>2, <3>1, ConcatProperties
      <3> QED BY <3>1, <3>2, ConcatEmptySeq
    <2>12. CASE PassEvent(l)
      <3>1. held' = <<>> /\ l.part = "data"
        BY <2>12 DEF PassEvent
      <3>2. CASE l.kind = "private"
        <4>1. UNCHANGED <<heard, preamble>> /\ Private(l)
          BY <2>12, <3>1, <3>2 DEF PassEvent, Silent, Private
        <4> QED BY <2>6, <2>9, <3>1, <4>1
      <3>3. CASE l.kind # "private"
        <4>1. Emit(held \o <<AsSent(l)>>) /\ ~Private(l)
          BY <2>12, <3>3 DEF PassEvent, Private
        <4>2. held \o <<AsSent(l)>> \in Seq(Line) /\ heard \o preamble \in Seq(Line)
          BY <1>2, <2>7, ConcatProperties
        <4>3. heard' \o preamble' = (heard \o preamble) \o (held \o <<AsSent(l)>>)
          BY <2>11, <4>1, <4>2
        <4>4. (heard \o preamble) \o (held \o <<AsSent(l)>>)
                = ((heard \o preamble) \o held) \o <<AsSent(l)>>
          BY <1>2, <2>7, <4>2, ConcatAssociative
        <4>5. heard' \o preamble' = Shown(read')
          BY <2>6, <4>1, <4>3, <4>4
        <4> QED BY <2>9, <3>1, <4>5
      <3> QED BY <3>2, <3>3
    <2>13. CASE PassTerminator(l)
      <3>1. l.part = "blank" /\ held' = <<>> /\ held = <<>> /\ AsSent(l) = l /\ ~Private(l)
        BY <2>4, <2>13 DEF PassTerminator, AsSent, Private
      <3>2. heard \o preamble \in Seq(Line)
        BY <1>2, ConcatProperties
      <3>3. Shown(read') = (heard \o preamble) \o <<l>>
        BY <2>6, <3>1, <3>2, ConcatEmptySeq
      <3>4. CASE Spoken
        <4>1. Emit(<<l>>)
          BY <2>13, <3>4 DEF PassTerminator
        <4>2. heard' \o preamble' = (heard \o preamble) \o <<l>>
          BY <2>7, <2>11, <4>1
        <4> QED BY <2>9, <3>1, <3>3, <4>2
      <3>5. CASE ~Spoken
        <4>1. heard' = heard /\ preamble' = Append(preamble, l)
          BY <2>13, <3>5 DEF PassTerminator, Silent
        <4>2. preamble' = preamble \o <<l>>
          BY <1>2, <4>1, AppendIsConcat
        <4>3. heard \o (preamble \o <<l>>) = (heard \o preamble) \o <<l>>
          BY <1>2, <2>7, ConcatAssociative
        <4>4. heard' \o preamble' = Shown(read')
          BY <3>3, <4>1, <4>2, <4>3
        <4> QED BY <2>9, <3>1, <4>4
      <3> QED BY <3>4, <3>5
    <2> QED BY <2>1, <2>8, <2>10, <2>12, <2>13 DEF ReadLine
  <1> QED BY <1>3, <1>4 DEF ShownInv

LEMMA ShownByOther ==
  ASSUME ShownInv, [FailoverNext]_vars,
         NEW l \in Upstream, ReadChatLine(l) \/ CollectLine(l) \/ CollectLast(l)
  PROVE  ShownInv'
  <1>0. voices \subseteq voices'
    BY VoicesGrow
  <1>1. CASE ReadChatLine(l)
    <2>1. ~Native'
      BY <1>1 DEF ReadChatLine, Native
    <2>2. heard' = heard \/ attempts \in voices'
      BY <1>1 DEF ReadChatLine, Silent, Emit, Speak
    <2> QED BY <1>0, <2>1, <2>2 DEF ShownInv
  <1>2. CASE CollectLine(l)
    <2>1. ~Native' /\ heard' = heard
      BY <1>2 DEF CollectLine, Collecting, Reading, LoopUnchanged, Native, Streaming
    <2> QED BY <1>0, <2>1, ShownElsewhere
  <1>3. CASE CollectLast(l)
    <2>1. pc' # "relay" /\ heard' = heard
      BY <1>3 DEF CollectLast, Rotate, Vanish, Fail, Serve, Finish, Close, streamVars
    <2> QED BY <1>0, <2>1, ShownElsewhere
  <1> QED BY <1>1, <1>2, <1>3

LEMMA ShownAtEnd ==
  ASSUME FrameInv, ShownInv, [FailoverNext]_vars,
         NEW why \in {"eof", "reset", "stall"}, StreamEnds(why)
  PROVE  ShownInv'
  <1>1. ended' # "no" /\ voices \subseteq voices'
    BY VoicesGrow DEF StreamEnds
  <1>2. heard' = heard \/ (heard' = heard \o Leftovers /\ (Leftovers = <<>> \/ attempts \in voices'))
    BY DEF StreamEnds, Speak
  <1>3. heard \o <<>> = heard
    BY ConcatEmptySeq DEF FrameInv
  <1> QED BY <1>1, <1>2, <1>3 DEF ShownInv

LEMMA ShownByOutcome ==
  ASSUME ShownInv, [FailoverNext]_vars,
         \/ RetryShed \/ LeftUnheard \/ RetryStaleSocket \/ RetryBroken \/ SettleStream \/ CollectCut
  PROVE  ShownInv'
  <1>1. heard' = heard /\ pc' # "relay"
    BY DEF RetryShed, LeftUnheard, RetryStaleSocket, RetryBroken, SettleStream, CollectCut,
       Close, streamVars, Rotate, Vanish, Fail, Serve, Finish
  <1> QED BY <1>1, VoicesGrow, ShownElsewhere

LEMMA ShownKept ==
  ASSUME CodexRequest, FailoverInv, FrameInv, HiddenInv, ShownInv, [RelayNext]_relayVars
  PROVE  ShownInv'
  <1>0. [FailoverNext]_vars
    BY RelaySimulates
  <1>1. CASE UNCHANGED relayVars
    <2>1. UNCHANGED <<read, ended, shed, chat, req, heard, preamble, held, pc, voices>>
      BY <1>1 DEF relayVars, vars, loopVars, detail, streamVars
    <2> QED BY <2>1, ShownQuietly
  <1>2. CASE Transport
    BY <1>0, <1>2, ShownAround, ShownAtStart DEF Transport
  <1>3. CASE Stream
    <2>1. ASSUME NEW l \in Upstream,
                 ReadLine(l) \/ ReadChatLine(l) \/ CollectLine(l) \/ CollectLast(l)
          PROVE ShownInv'
      BY <1>0, <2>1, ShownByLine, ShownByOther
    <2>2. ASSUME WindowCloses PROVE ShownInv'
      BY <1>0, <2>2, ShownAround
    <2> QED BY <1>0, <1>3, <2>1, <2>2, ShownAtEnd, ShownByOutcome DEF Stream
  <1>4. CASE Around \/ NoStream
    BY <1>0, <1>4, ShownAround
  <1> QED BY <1>1, <1>2, <1>3, <1>4 DEF RelayNext

\* What is in front of the last lines of a sequence.
LEMMA FrontOfJoined ==
  ASSUME NEW s \in Seq(Line), NEW t \in Seq(Line)
  PROVE  SubSeq(s \o t, 1, Len(s \o t) - Len(t)) = s
  <1>1. Len(s) \in Nat /\ Len(t) \in Nat /\ Len(s \o t) = Len(s) + Len(t)
    BY ConcatProperties, LenProperties
  <1>2. Len(s \o t) - Len(t) = Len(s)
    BY <1>1
  <1>3. CASE Len(s) = 0
    <2>1. s = <<>>
      BY <1>3, EmptySeq
    <2>2. SubSeq(s \o t, 1, 0) = <<>>
      BY SubSeqEmpty
    <2> QED BY <1>2, <1>3, <2>1, <2>2
  <1>4. CASE Len(s) # 0
    <2>1. 1 \in 1 .. Len(s) /\ Len(s) \in 1 .. Len(s)
      BY <1>1, <1>4
    <2>2. SubSeq(s \o t, 1, Len(s)) = SubSeq(s, 1, Len(s))
      BY <2>1, SubSeqOfConcat1
    <2> QED BY <1>2, <2>2, SubSeqFull
  <1> QED BY <1>1, <1>3, <1>4

\* As far as the client has been told, what upstream has sent: in order, each
\* line once, none missing but the pool's own, for any stream and wherever the
\* openers, the event: lines and the blank lines were held up on the way
\* (streamSSECodexBackend).
THEOREM ClientIsSentTheStream == RelaySpec => []StreamAsSent
  <1>1. RelayInit => FrameInv /\ HiddenInv /\ ShownInv /\ CodexRequest
    BY FrameInit, HiddenInit, ShownInit DEF RelayInit, CodexRequest
  <1>2. CodexRequest /\ FailoverInv /\ FrameInv /\ HiddenInv /\ ShownInv /\ [RelayNext]_relayVars
          => CodexRequest' /\ FrameInv' /\ HiddenInv' /\ ShownInv'
    BY RelaySimulates, RequestKept, FramesKept, HiddenKept, ShownKept
  <1>3. FrameInv /\ ShownInv => StreamAsSent
    <2> SUFFICES ASSUME FrameInv, ShownInv, Native, ended = "no", shed = ""
                 PROVE  heard \o preamble = Shown(SubSeq(read, 1, Len(read) - Len(held)))
      BY DEF StreamAsSent
    <2>1. PICK s \in Seq(Line) : read = s \o held /\ heard \o preamble = Shown(s)
      BY DEF ShownInv
    <2>2. held \in Seq(Line)
      BY DEF FrameInv
    <2> QED BY <2>1, <2>2, FrontOfJoined
  <1> QED BY <1>1, <1>2, <1>3, RelayKeepsFailover, PTL DEF RelaySpec
=============================================================================
