------------------------------ MODULE Failover ------------------------------
(***************************************************************************)
(* One request and the credentials it is sent to (server/proxy.go          *)
(* forwardWithFailover; doForward, doForwardAnthropicAPIKey, doForwardCodex,*)
(* doForwardCodexOAuth, doForwardCodexImages).                             *)
(*                                                                         *)
(* The loop takes a credential from the pool, sends the request, and moves *)
(* on to another one as long as nothing has been written to the client.    *)
(* Between any two steps the client may leave, the deadline pass and the   *)
(* health of the credentials change.  The pool is a library outside the    *)
(* repository: Candidates says what the loop relies on.  What a response   *)
(* contains is reduced to whether it carried usage.                        *)
(***************************************************************************)
EXTENDS Naturals, FiniteSets

CONSTANTS
  OAuth,       \* subscription credentials
  Key,         \* API keys
  NoCred,      \* nothing withheld
  MaxAttempts, \* maxAttempts (12)
  MaxSheds     \* codexSameCredShedRetries (2)

ASSUME FailoverAssumption ==
  /\ OAuth \cap Key = {} /\ NoCred \notin OAuth \cup Key
  /\ MaxAttempts \in Nat \ {0} /\ MaxSheds \in Nat

Cred == OAuth \cup Key

VARIABLES
  req,      \* the request: provider, shape of its answer, may it use API keys
  pc,       \* "loop", "sent", "relay" (a status below 400 has come), "backoff", "over"
  cur,      \* the credential of the attempt
  attempts, \* attempts started
  tried,    \* credentials not to be taken again
  stale,    \* staleRetried
  sheds,    \* shedRetried
  deferred, \* the credential whose error response is withheld (lastDeferred)
  keyOnly,  \* apiKeyOnly
  usage,    \* usage has been seen in this attempt
  told,     \* what the client has been told in the end
  healthy,  \* the credentials the pool would hand out
  late,     \* failoverDeadline has passed
  departed, \* the client has gone (its context is cancelled)
  \* and what has happened, for the properties:
  voices,   \* attempts that wrote to the client
  charged,  \* attempts that were debited
  asked,    \* attempts on each credential
  steady,   \* credentials that have been healthy throughout
  refused,  \* credentials whose error response has been withheld
  blame     \* why failures were counted against credentials

loopVars == <<attempts, tried, stale, sheds, keyOnly, asked, cur>>
envVars  == <<healthy, late, departed, steady>>
vars == <<req, pc, loopVars, deferred, usage, told, envVars, voices, charged, refused, blame>>

Requests ==
  [provider : {"anthropic"}, shape : {"stream", "whole"}, fallback : BOOLEAN]
    \cup [provider : {"openai"}, shape : {"stream", "whole", "compact", "images"},
          fallback : BOOLEAN]

FailoverTypeOK ==
  /\ req \in Requests
  /\ pc \in {"loop", "sent", "relay", "backoff", "over"}
  /\ cur \in Cred \cup {NoCred} /\ deferred \in Cred \cup {NoCred}
  /\ attempts \in 0 .. MaxAttempts
  /\ tried \subseteq Cred /\ stale \subseteq Cred /\ refused \subseteq Cred
  /\ sheds \in [Cred -> 0 .. MaxSheds] /\ asked \in [Cred -> 0 .. MaxAttempts]
  /\ keyOnly \in BOOLEAN /\ usage \in BOOLEAN /\ late \in BOOLEAN /\ departed \in BOOLEAN
  /\ told \in {"nothing", "reply", "fault", "unavailable", "withheld"}
  /\ steady \subseteq healthy /\ healthy \subseteq Cred
  /\ voices \subseteq 1 .. MaxAttempts /\ charged \subseteq 1 .. MaxAttempts
  /\ blame \subseteq {"upstream", "departure"}

\* keyOnly: a Codex model that only relays serve (guardCodexModel).
FailoverInit ==
  /\ req \in Requests
  /\ pc = "loop" /\ cur = NoCred /\ attempts = 0
  /\ tried = {} /\ stale = {} /\ sheds = [c \in Cred |-> 0]
  /\ deferred = NoCred
  /\ keyOnly \in {FALSE} \cup {req.provider = "openai" /\ req.shape # "images"}
  /\ usage = FALSE /\ told = "nothing"
  /\ healthy \in SUBSET Cred /\ late = FALSE /\ departed = FALSE
  /\ voices = {} /\ charged = {} /\ asked = [c \in Cred |-> 0]
  /\ steady = healthy /\ refused = {} /\ blame = {}
-----------------------------------------------------------------------------
(***************************************************************************)
(* The loop.                                                               *)
(***************************************************************************)
\* AcquireWithOptions: subscriptions first, then API keys if the token allows
\* them, and a cooling key before none at all.
Candidates ==
  LET oauth == IF keyOnly THEN {} ELSE (OAuth \cap healthy) \ tried
      keys  == IF req.fallback THEN Key \ tried ELSE {}
  IN  IF oauth # {} THEN oauth
      ELSE IF keys \cap healthy # {} THEN keys \cap healthy ELSE keys

\* Mutant: the deadline is checked before the first attempt, too.
TooLateAtOnce == late

\* The deadline bounds the decision to start another attempt.
TooLate == attempts > 0 /\ late

\* Mutant: <= for <.
MoreAttemptsOffByOne == attempts <= MaxAttempts

MoreAttempts == attempts < MaxAttempts

Acquire(a) ==
  /\ pc = "loop" /\ MoreAttempts /\ ~TooLate
  /\ a \in Candidates
  /\ pc' = "sent" /\ cur' = a /\ usage' = FALSE
  /\ tried' = tried \cup {a}
  /\ attempts' = attempts + 1 /\ asked' = [asked EXCEPT ![a] = @ + 1]
  /\ UNCHANGED <<req, stale, sheds, deferred, keyOnly, told, envVars, voices, charged, refused,
                 blame>>

\* Nothing left to try: what was withheld, or a 503.
Exhaust ==
  /\ pc = "loop"
  /\ ~MoreAttempts \/ TooLate \/ Candidates = {}
  /\ pc' = "over"
  /\ told' = IF deferred # NoCred THEN "withheld" ELSE "unavailable"
  /\ UNCHANGED <<req, loopVars, deferred, usage, envVars, voices, charged, refused, blame>>

Spoken == attempts \in voices
Speak == voices' = voices \cup {attempts}
Blame(reason) == blame' = blame \cup {reason}
BlameIf(fault) == blame' = IF fault THEN blame \cup {"upstream"} ELSE blame

\* Mutant: an attempt without a response to withhold forgets an earlier one.
WithholdAlways(withheld) ==
  /\ deferred' = IF withheld THEN cur ELSE NoCred
  /\ refused' = IF withheld THEN refused \cup {cur} ELSE refused

\* if deferred != nil { lastDeferred = deferred }
Withhold(withheld) ==
  /\ deferred' = IF withheld THEN cur ELSE deferred
  /\ refused' = IF withheld THEN refused \cup {cur} ELSE refused

\* retry: back to the loop; no response of this attempt reaches the client.
Rotate(withheld) ==
  /\ pc' = "loop"
  /\ Withhold(withheld)
  /\ UNCHANGED <<req, loopVars, usage, told, envVars, voices, charged>>

\* done: the reply, or an error written through, or nothing to nobody.
Finish(what) ==
  /\ pc' = "over" /\ told' = what
  /\ IF what = "nothing" THEN UNCHANGED voices ELSE Speak
  /\ UNCHANGED <<req, loopVars, deferred, envVars, refused>>

Fail == Finish("fault") /\ UNCHANGED <<usage, charged>>
Vanish == Finish("nothing") /\ UNCHANGED <<usage, charged, blame>>

\* Mutant: a reply counts as one request before its usage is read.
ServeAndDebit(withUsage) ==
  /\ Finish("reply")
  /\ usage' = (usage \/ withUsage)
  /\ charged' = charged \cup {attempts}

\* Served, and debited if usage was observed (counts.Requests > 0).
Serve(withUsage) ==
  /\ Finish("reply")
  /\ usage' = (usage \/ withUsage)
  /\ charged' = IF usage' THEN charged \cup {attempts} ELSE charged
-----------------------------------------------------------------------------
(***************************************************************************)
(* Before there is a response.                                             *)
(***************************************************************************)
Claude == req.provider = "anthropic"
Images == req.shape = "images"
OnKey  == cur \in Key
CodexOAuth == ~Claude /\ ~OnKey
Sent == pc = "sent" /\ (Images => ~OnKey)

\* The body cannot be bound to the account: no other account will do.
PrepareFails ==
  /\ pc = "sent" /\ Claude /\ ~OnKey
  /\ pc' = "loop" /\ keyOnly' = TRUE /\ deferred' = NoCred
  /\ UNCHANGED <<req, cur, attempts, tried, stale, sheds, asked, usage, told, envVars, voices,
                 charged, refused, blame>>

\* 400 of a request no upstream gets to see; 500 of one that cannot be built.
RejectLocally == Sent /\ ~Spoken /\ Fail /\ UNCHANGED blame

\* An image for an API key, a WebSocket that cannot be dialled.
SkipCredential ==
  /\ pc = "sent" /\ ~Claude /\ ~Spoken
  /\ Images \/ ~OnKey
  /\ Rotate(FALSE)
  /\ UNCHANGED blame

\* JSONKeepalive: an image takes long, the 200 goes out before it is there.
Heartbeat ==
  /\ Sent /\ Images /\ ~Spoken
  /\ Speak
  /\ UNCHANGED <<req, pc, loopVars, deferred, usage, told, envVars, charged, refused, blame>>

ClientGone == Sent /\ departed /\ Vanish

\* Mutant: every path takes any cancelled context for the client's.
CancelledAnywhere == Sent /\ ~departed /\ Vanish

\* errors.Is(err, context.Canceled) whosever context it was.
TransportCancelled == Sent /\ Claude /\ ~OnKey /\ ~departed /\ Vanish

\* Over the wire to the next one, unless the 200 is out.
RotateOrFail(withheld) == IF Spoken THEN Fail /\ UNCHANGED refused ELSE Rotate(withheld)

TransportFails ==
  /\ Sent /\ ~departed
  /\ RotateOrFail(FALSE)
  /\ \E fault \in BOOLEAN : BlameIf(fault)

\* A fault of the credential or of the upstream, a 200 that is no Claude
\* response included.  Withheld on the Claude side, dropped on the Codex side.
Refuse ==
  /\ Sent
  /\ RotateOrFail(Claude)
  /\ \E fault \in BOOLEAN : BlameIf(fault)

\* Every other status from 400 on goes to the client as it is.
ForwardError ==
  /\ Sent
  /\ Fail
  /\ \E fault \in BOOLEAN : BlameIf(fault)

\* Below 400.  API keys commit the headers of a stream at once.
Respond ==
  /\ Sent /\ ~Images
  /\ pc' = "relay"
  /\ IF OnKey /\ req.shape = "stream" THEN Speak ELSE UNCHANGED voices
  /\ UNCHANGED <<req, loopVars, deferred, usage, told, envVars, charged, refused, blame>>

\* doForwardCodexImages reads the body before it looks at the status.
ServeImage ==
  /\ Sent /\ Images
  /\ \E u \in BOOLEAN : Serve(u)
  /\ UNCHANGED blame
-----------------------------------------------------------------------------
(***************************************************************************)
(* A stream: streamSSE, streamSSECodexBackend, streamSSEOpenAI.            *)
(***************************************************************************)
Streaming == pc = "relay" /\ req.shape = "stream"

Output ==
  /\ Streaming
  /\ Speak
  /\ usage' \in {usage, TRUE}
  /\ UNCHANGED <<req, pc, loopVars, deferred, told, envVars, charged, refused, blame>>

\* message_stop, error, response.completed and the like, [DONE].
EndStream ==
  /\ Streaming
  /\ \E u, fault \in BOOLEAN :
       Serve(u) /\ BlameIf(fault)

\* Mutant: a broken stream is retried whether or not the client has read of it.
RetryBrokenStream ==
  /\ Streaming
  /\ IF departed THEN Vanish
     ELSE Rotate(FALSE) /\ UNCHANGED blame

\* No terminal event.  What has been written cannot be taken back: it is
\* debited as far as usage was seen, and the credential is left alone.
BreakStream ==
  /\ Streaming
  /\ IF Spoken THEN Serve(FALSE) /\ UNCHANGED blame
     ELSE IF departed THEN Vanish
     ELSE Rotate(FALSE) /\ UNCHANGED blame

\* Mutant: the second chance is not written down.
UntryStaleForgotten ==
  /\ tried' = IF cur \in stale THEN tried ELSE tried \ {cur}
  /\ UNCHANGED stale

\* One more round for the credential of a socket that died in the pool.
UntryStale ==
  /\ tried' = IF cur \in stale THEN tried ELSE tried \ {cur}
  /\ stale' = stale \cup {cur}

BreakStaleSocket ==
  /\ Streaming /\ CodexOAuth /\ ~Spoken /\ ~departed
  /\ pc' = "loop" /\ UntryStale
  /\ UNCHANGED <<req, cur, attempts, sheds, keyOnly, asked, deferred, usage, told, envVars, voices,
                 charged, refused, blame>>

\* Refused inside a 200 before any output: for quota the next credential is
\* asked, for capacity the same one again, after a while.
ShedStream ==
  /\ Streaming /\ CodexOAuth /\ ~Spoken
  /\ \/ Rotate(FALSE)
     \/ /\ sheds[cur] < MaxSheds
        /\ sheds' = [sheds EXCEPT ![cur] = @ + 1]
        /\ tried' = tried \ {cur}
        /\ pc' = "backoff"
        /\ UNCHANGED <<req, cur, attempts, stale, keyOnly, asked, deferred, usage, told, envVars,
                       voices, charged, refused>>
  /\ UNCHANGED blame

\* Mutant: the wait ends with the client only.
WakeUpCancelled ==
  /\ pc = "backoff" /\ departed
  /\ Vanish

\* sleepCtx: true if the time is over, false if the client is gone.
WakeUp ==
  /\ pc = "backoff"
  /\ \/ departed /\ Vanish
     \/ /\ pc' = "loop"
        /\ UNCHANGED <<req, loopVars, deferred, usage, told, envVars, voices, charged, refused,
                       blame>>
-----------------------------------------------------------------------------
(***************************************************************************)
(* A body: read to its end, or as far as it comes, before it is written.   *)
(***************************************************************************)
Reading == pc = "relay" /\ req.shape # "stream"

\* The Claude paths do not look at the error of the read.
ServeBody ==
  /\ Reading /\ Claude
  /\ \E u, fault \in BOOLEAN :
       Serve(u) /\ BlameIf(fault)

\* A Codex key's body without usage, which one cut short is, is a 502 and a
\* fault of the key.
ServeRelayBody ==
  /\ Reading /\ ~Claude /\ OnKey
  /\ \/ Serve(TRUE) /\ UNCHANGED blame
     \/ Fail /\ Blame(IF departed THEN "departure" ELSE "upstream")

\* doForwardCodexOAuth on /responses/compact.
ServeCompact ==
  /\ Reading /\ CodexOAuth /\ req.shape = "compact"
  /\ (\E u \in BOOLEAN : Serve(u)) \/ Fail
  /\ UNCHANGED blame

\* aggregateCodexResponseStream: the events of a stream make one body; the
\* 200 goes out early if an image is being generated.
StartGenerating ==
  /\ Reading /\ CodexOAuth /\ req.shape = "whole" /\ ~Spoken
  /\ Speak
  /\ UNCHANGED <<req, pc, loopVars, deferred, usage, told, envVars, charged, refused, blame>>

\* Fail is a response that failed or cannot be converted to a chat completion.
Aggregate ==
  /\ Reading /\ CodexOAuth /\ req.shape = "whole"
  /\ (\E u \in BOOLEAN : Serve(u)) \/ Fail
  /\ UNCHANGED blame

\* Shed or cut: to the next one, as long as nothing is out.
AggregateBreaks ==
  /\ Reading /\ CodexOAuth /\ req.shape = "whole" /\ ~Spoken
  /\ \/ departed /\ Vanish
     \/ Rotate(FALSE) /\ UNCHANGED blame
-----------------------------------------------------------------------------
(***************************************************************************)
(* Meanwhile.                                                              *)
(***************************************************************************)
Depart ==
  /\ pc # "over" /\ ~departed
  /\ departed' = TRUE
  /\ UNCHANGED <<req, pc, loopVars, deferred, usage, told, healthy, late, steady, voices, charged,
                 refused, blame>>

PassDeadline ==
  /\ pc # "over" /\ ~late
  /\ late' = TRUE
  /\ UNCHANGED <<req, pc, loopVars, deferred, usage, told, healthy, departed, steady, voices,
                 charged, refused, blame>>

\* Other requests and the clock make credentials ill and well again.
ChangeHealth(c) ==
  /\ pc # "over"
  /\ healthy' = IF c \in healthy THEN healthy \ {c} ELSE healthy \cup {c}
  /\ steady' = steady \ {c}
  /\ UNCHANGED <<req, pc, loopVars, deferred, usage, told, late, departed, voices, charged, refused,
                 blame>>

Attempt ==
  \/ PrepareFails \/ RejectLocally \/ SkipCredential \/ Heartbeat \/ ClientGone
  \/ TransportCancelled \/ TransportFails \/ Refuse \/ ForwardError \/ Respond \/ ServeImage
  \/ Output \/ EndStream \/ BreakStream \/ BreakStaleSocket \/ ShedStream \/ WakeUp
  \/ ServeBody \/ ServeRelayBody \/ ServeCompact \/ StartGenerating \/ Aggregate \/ AggregateBreaks

Step == (\E a \in Cred : Acquire(a)) \/ Exhaust \/ Attempt

FailoverNext == Step \/ Depart \/ PassDeadline \/ (\E c \in Cred : ChangeHealth(c))

\* An upstream answers or its transport gives up: the request goes on.
FailoverSpec == FailoverInit /\ [][FailoverNext]_vars /\ WF_vars(Step)
-----------------------------------------------------------------------------
(***************************************************************************)
(* Properties.                                                             *)
(***************************************************************************)
\* The client hears one attempt at most: bytes of one are never followed by
\* bytes of another, or by the answer of the loop (lazy commit, wroteAny,
\* Committed).
OneVoice ==
  /\ Cardinality(voices) <= 1
  /\ pc \in {"loop", "backoff"} \/ told \in {"unavailable", "withheld"} => voices = {}

\* One debit, for the attempt that was heard, if and only if it reported
\* usage: attempts before it cost nothing, and a stream that breaks is paid
\* as far as it was accounted for (counts.Requests, SettleCharge).
ChargedExactly ==
  charged = IF pc = "over" /\ told = "reply" /\ usage THEN {attempts} ELSE {}

\* A credential is asked once; a Codex subscription once more for a stale
\* socket and MaxSheds times for a lack of capacity (tried, staleRetried,
\* shedRetried).
AskedWithinBounds ==
  \A c \in Cred : asked[c] <= IF Claude \/ c \in Key THEN 1 ELSE 2 + MaxSheds

\* The loop gives up only when it has asked every credential it could have
\* asked all along, or has run out of attempts or time; being late alone does
\* not deny a first attempt (forwardWithFailover).
NotGivenUpEarly ==
  told \in {"unavailable", "withheld"} /\ attempts < MaxAttempts /\ (attempts > 0 => ~late) =>
    \A c \in steady : asked[c] = 0 =>
      \/ c \in OAuth /\ keyOnly
      \/ c \in Key /\ ~req.fallback

\* "the user only ever sees" a 503 of our own if no Claude credential gave a
\* better answer: a withheld error outlives transport failures after it, until
\* the body turns out not to fit any subscription.
RefusalIsReplayed ==
  /\ told = "withheld" => deferred \in refused
  /\ told = "unavailable" /\ ~keyOnly => refused = {}

\* A client that waits is told something, whatever the attempts came to.  The
\* one exception is a transport that was cancelled on its own (doForward).
AnsweredOrLeft ==
  pc = "over" /\ told = "nothing" => departed \/ (Claude /\ ~OnKey)

\* "A client cancellation is a success for the credential: it served bytes until
\* the caller stopped listening" (doForwardCodex): no failure is counted against
\* a credential because the client left.
LeavingBlamesNobody == "departure" \notin blame

\* The loop ends.
Ends == <>(pc = "over")
=============================================================================
