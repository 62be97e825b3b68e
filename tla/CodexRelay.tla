------------------------------ MODULE CodexRelay ------------------------------
(***************************************************************************)
(* How an answer of the Codex backend reaches the client, line by line     *)
(* (server/codex_oauth_proxy.go, codex_chat_bridge.go, codex_ws_egress.go).*)
(*                                                                         *)
(* The backend answers 200 and then may refuse the turn inside its stream. *)
(* What opens a stream says nothing yet, so it is held back: as long as    *)
(* nothing has been written, the request can go to another credential.     *)
(* The stream comes over HTTP or over a socket kept for the conversation.  *)
(*                                                                         *)
(* This is module Failover in detail, for Codex subscriptions: its "relay" *)
(* is taken apart here and shown to do what Failover says of it.           *)
(*                                                                         *)
(* Outside: the backend, the pool of sockets, the reader that makes lines  *)
(* of frames, the translation into chat chunks.  A line is reduced to its  *)
(* part of an event, what the event is, and the attempt it answers.        *)
(***************************************************************************)
EXTENDS Failover, Sequences

CONSTANT MaxRead   \* bound: lines read in one attempt

\* Keys have relays of their own (doForwardCodex).
ASSUME RelayAssumption == MaxRead \in Nat /\ Key = {}

VARIABLES
  chat,     \* whether the client asked for /v1/chat/completions
  wire,     \* what carries the attempt: "none" yet, "ws" or "http"
  reused,   \* a socket that has served a turn before
  idle,     \* credentials with an idle socket for this conversation,
  leftover, \* and the attempt whose frames wait in it, 0 if none
  cooldown, \* credentials that stay on HTTP for a while
  feed,     \* the attempt that what is read now answers
  read,     \* the lines read in this attempt
  held,     \* an event: line that waits for its data
  preamble, \* lines of events without content
  shed,     \* why the rest is withheld: "" if it is not
  terminal, \* a terminal event was relayed
  expired,  \* codexPreOutputWithholdCap has passed
  ended,    \* how the body ended: "no", "eof", "reset", "stall"
  heard     \* what the client has been sent

socketVars == <<wire, reused, idle, leftover, cooldown>>
streamVars == <<feed, read, held, preamble, shed, terminal, expired, ended, heard>>
detail == <<chat, socketVars, streamVars>>
relayVars == <<vars, detail>>

ContentFree == {"opener", "private"}       \* codexContentFreeEvents
Retryable   == {"capacity", "quota"}       \* codexerr.ClassRetryable
Terminal    == {"completed", "failed"}     \* codexTerminalEvent
Kinds == ContentFree \cup Retryable \cup Terminal \cup {"output"}
Line == [of : 1 .. MaxAttempts, part : {"event", "data", "blank"}, kind : Kinds \cup {"demoted"}]

RelayTypeOK ==
  /\ chat \in BOOLEAN /\ reused \in BOOLEAN /\ terminal \in BOOLEAN /\ expired \in BOOLEAN
  /\ wire \in {"none", "ws", "http"}
  /\ idle \subseteq OAuth /\ cooldown \subseteq OAuth
  /\ leftover \in [OAuth -> 0 .. MaxAttempts] /\ feed \in 0 .. MaxAttempts
  /\ \A lines \in {read, held, preamble, heard} : lines \in Seq(Line)
  /\ shed \in {"", "capacity", "quota", "stall"}
  /\ ended \in {"no", "eof", "reset", "stall"}

\* The requests that doForwardCodexOAuth serves from a stream of events.
RelayInit ==
  /\ FailoverInit
  /\ req.provider = "openai" /\ req.shape \in {"stream", "whole"} /\ ~keyOnly
  /\ chat \in BOOLEAN
  /\ wire = "none" /\ reused = FALSE
  /\ idle \in SUBSET OAuth /\ leftover = [c \in OAuth |-> 0]
  /\ cooldown = {} /\ feed = 0
  /\ read = <<>> /\ held = <<>> /\ preamble = <<>> /\ heard = <<>>
  /\ shed = "" /\ terminal = FALSE /\ expired = FALSE /\ ended = "no"
-----------------------------------------------------------------------------
(***************************************************************************)
(* The transport (codexWSEgress).                                          *)
(***************************************************************************)
\* eligible: a streaming client of the Responses API, outside the cooldown.
Eligible == req.shape = "stream" /\ ~chat /\ cur \in OAuth \ cooldown

StartRelay(transport, again, from) ==
  /\ Respond /\ CodexOAuth
  /\ wire' = transport /\ reused' = again /\ feed' = from
  /\ read' = <<>> /\ held' = <<>> /\ preamble' = <<>>
  /\ shed' = "" /\ terminal' = FALSE /\ expired' = FALSE /\ ended' = "no"
  /\ UNCHANGED <<chat, cooldown, heard>>

\* The conversation's idle socket, or a new one; response.create is written.
RelayOverWS ==
  /\ wire = "none" /\ pc = "sent" /\ Eligible
  /\ LET from == IF cur \in idle /\ leftover[cur] # 0 THEN leftover[cur] ELSE attempts
     IN  StartRelay("ws", cur \in idle, from)
  /\ idle' = idle \ {cur}
  /\ UNCHANGED leftover

\* No socket, or the write fails, which discards it.  HTTP carries the same
\* attempt, and the credential's next ones for a while.
FallBackToHTTP ==
  /\ wire = "none" /\ pc = "sent" /\ Eligible
  /\ wire' = "http" /\ cooldown' = cooldown \cup {cur} /\ idle' = idle \ {cur}
  /\ UNCHANGED <<vars, chat, reused, leftover, streamVars>>

RelayOverHTTP ==
  /\ wire = "http" \/ (wire = "none" /\ pc = "sent" /\ ~Eligible)
  /\ StartRelay("http", FALSE, attempts)
  /\ UNCHANGED <<idle, leftover>>

\* inCooldown, as time goes by; the pool drops what has been idle too long.
CoolDownOver(c) ==
  /\ c \in cooldown
  /\ cooldown' = cooldown \ {c}
  /\ UNCHANGED <<vars, chat, wire, reused, idle, leftover, streamVars>>

EvictIdle(c) ==
  /\ c \in idle
  /\ idle' = idle \ {c}
  /\ UNCHANGED <<vars, chat, wire, reused, leftover, cooldown, streamVars>>

TerminalRead == \E i \in DOMAIN read : read[i].part = "data" /\ read[i].kind \in Terminal

\* Mutant: a socket goes back to the pool however its turn ended.
CloseBodyPooled ==
  /\ wire' = "none"
  /\ IF wire = "ws"
     THEN /\ idle' = idle \cup {cur}
          /\ leftover' = [leftover EXCEPT ![cur] = IF TerminalRead THEN 0 ELSE attempts]
     ELSE UNCHANGED <<idle, leftover>>
  /\ UNCHANGED cooldown

\* codexWSBody.Close: only a turn read to its end leaves a socket for the next.
CloseBody ==
  LET clean == TerminalRead /\ ended = "eof" IN
  /\ wire' = "none"
  /\ IF wire = "ws" /\ clean
     THEN /\ idle' = idle \cup {cur}
          /\ leftover' = [leftover EXCEPT ![cur] = 0]
          /\ cooldown' = cooldown \ {cur}
     ELSE UNCHANGED <<idle, leftover, cooldown>>
-----------------------------------------------------------------------------
(***************************************************************************)
(* Reading the stream.                                                     *)
(***************************************************************************)
Relaying == pc = "relay" /\ ended = "no" /\ Len(read) < MaxRead

Follows(l) ==
  LET prev == read[Len(read)] IN
  IF read = <<>> \/ prev.part = "blank" THEN l.part \in {"event", "data"}
  ELSE /\ l.kind = prev.kind
       /\ l.part = IF prev.part = "event" THEN "data" ELSE "blank"

\* The backend's next line: an event: line or none, data:, a blank line; a
\* refusal is followed by nothing but the failure of the response, and that
\* by nothing.
Upstream ==
  {l \in [of : {feed}, part : {"event", "data", "blank"}, kind : Kinds] :
     /\ Follows(l)
     /\ \A i \in DOMAIN read :
          l.part # "blank" /\ read[i].part = "blank" =>
            /\ read[i].kind \notin Terminal
            /\ read[i].kind \in Retryable => l.kind = "failed"}

Read(l) == read' = Append(read, l)

\* What the converter and the scrubber make of a line the client gets to see.
AsSent(l) == IF l.kind = "capacity" /\ l.part = "data" THEN [l EXCEPT !.kind = "demoted"] ELSE l

\* Mutant: the opener is written after what released it.
EmitBehind(lines) == heard' = heard \o lines \o preamble /\ preamble' = <<>> /\ Speak

\* The opener first, in upstream's order.
Emit(lines) == heard' = heard \o preamble \o lines /\ preamble' = <<>> /\ Speak

\* Usage comes with the last event.
Account(last) ==
  /\ terminal' = (terminal \/ last)
  /\ usage' \in IF last THEN {usage, TRUE} ELSE {usage}

Silent == UNCHANGED <<heard, voices, usage, terminal>>

LoopUnchanged ==
  UNCHANGED <<req, pc, loopVars, deferred, told, envVars, charged, refused, blame>>

Native == Streaming /\ ~chat

\* The refusal has been withheld: so is everything after it.
ReadWithheld(l) ==
  /\ shed # ""
  /\ Silent /\ UNCHANGED <<held, preamble, shed>>

HoldEventLine(l) ==
  /\ shed = "" /\ l.part = "event"
  /\ held' = <<l>>
  /\ Silent /\ UNCHANGED <<preamble, shed>>

\* A refusal before any output: nothing of this attempt will be heard.
WithholdRefusal(l) ==
  /\ shed = "" /\ l.part = "data" /\ l.kind \in Retryable /\ ~Spoken
  /\ shed' = l.kind /\ held' = <<>> /\ preamble' = <<>>
  /\ Silent

\* An event without content is kept back, or dropped if it is the pool's own.
BufferOpener(l) ==
  /\ shed = "" /\ l.part = "data" /\ l.kind \in ContentFree /\ ~Spoken /\ ~expired
  /\ preamble' = IF l.kind = "private" THEN preamble ELSE preamble \o held \o <<l>>
  /\ held' = <<>>
  /\ Silent /\ UNCHANGED shed

\* Any other event goes out with its event: line, and opens the response.
PassEvent(l) ==
  /\ shed = "" /\ l.part = "data"
  /\ Spoken \/ (l.kind \notin Retryable /\ (l.kind \in ContentFree => expired))
  /\ IF l.kind = "private" THEN Silent /\ UNCHANGED preamble
     ELSE Emit(held \o <<AsSent(l)>>) /\ Account(l.kind \in Terminal)
  /\ held' = <<>>
  /\ UNCHANGED shed

\* Mutant: the blank line of a dropped or buffered event goes out by itself.
PassTerminatorAtOnce(l) ==
  /\ shed = "" /\ l.part = "blank"
  /\ Emit(<<l>>) /\ Account(FALSE)
  /\ UNCHANGED <<held, shed>>

\* The end of an event stays with it.
PassTerminator(l) ==
  /\ shed = "" /\ l.part = "blank"
  /\ IF Spoken THEN Emit(<<l>>) /\ Account(FALSE)
     ELSE preamble' = Append(preamble, l) /\ Silent
  /\ UNCHANGED <<held, shed>>

\* One turn of the loop in next (streamSSECodexBackend).
ReadLine(l) ==
  /\ Relaying /\ Native
  /\ Read(l)
  /\ ReadWithheld(l) \/ HoldEventLine(l) \/ WithholdRefusal(l) \/ BufferOpener(l)
       \/ PassEvent(l) \/ PassTerminator(l)
  /\ LoopUnchanged
  /\ UNCHANGED <<chat, socketVars, feed, expired, ended>>

Decides(l) == l.part = "data" /\ l.kind \in Retryable \cup Terminal

\* streamCodexAsChatCompletions: nothing is buffered, an event becomes some
\* chunks or none, and a refusal in mid-stream an error and [DONE].  Which
\* refusal it was is not kept.
ReadChatLine(l) ==
  /\ Relaying /\ Streaming /\ chat
  /\ Read(l)
  /\ \/ (shed # "" \/ ~Decides(l)) /\ Silent /\ UNCHANGED <<preamble, shed>>
     \/ /\ shed = "" /\ Decides(l) /\ l.kind \in Retryable /\ ~Spoken
        /\ shed' = "quota"
        /\ Silent /\ UNCHANGED preamble
     \/ /\ shed = "" /\ l.part = "data" /\ (l.kind \in Retryable => Spoken)
        /\ Emit(<<AsSent(l)>>) /\ Account(Decides(l))
        /\ UNCHANGED shed
  /\ UNCHANGED held
  /\ LoopUnchanged
  /\ UNCHANGED <<chat, socketVars, feed, expired, ended>>

WindowCloses ==
  /\ Native /\ ended = "no" /\ ~Spoken /\ ~expired
  /\ expired' = TRUE
  /\ UNCHANGED <<vars, chat, socketVars, feed, read, held, preamble, shed, terminal, ended, heard>>

\* Half an event is passed on only to a client in mid-stream; an opener that
\* is left over is passed on rather than nothing.
Leftovers == IF shed # "" THEN <<>> ELSE preamble \o (IF Spoken THEN held ELSE <<>>)

\* A turn that upstream has parked: the same as a refusal.
Parked(why) == why = "stall" /\ ~Spoken /\ shed = ""

StreamEnds(why) ==
  /\ Streaming /\ ended = "no"
  /\ wire # "ws" => why # "stall"
  /\ ended' = why
  /\ held' = <<>> /\ preamble' = <<>>
  /\ IF Parked(why) THEN shed' = "stall" /\ UNCHANGED <<heard, voices>>
     ELSE /\ UNCHANGED shed
          /\ heard' = heard \o Leftovers
          /\ IF Leftovers # <<>> THEN Speak ELSE UNCHANGED voices
  /\ UNCHANGED <<usage, terminal, chat, socketVars, feed, read, expired>>
  /\ LoopUnchanged
-----------------------------------------------------------------------------
(***************************************************************************)
(* What becomes of the request (doForwardCodexOAuth, case stream).         *)
(***************************************************************************)
\* The socket is closed with the body; another attempt reads another stream.
Close == CloseBody /\ UNCHANGED <<chat, reused, streamVars>>

Unheard == Streaming /\ ended # "no" /\ ~terminal /\ ~Spoken

\* For capacity the same credential, as often as it may be asked.
RetryShed ==
  /\ Unheard /\ shed # ""
  /\ IF shed = "capacity" /\ sheds[cur] < MaxSheds
     THEN /\ sheds' = [sheds EXCEPT ![cur] = @ + 1]
          /\ tried' = tried \ {cur}
          /\ pc' = "backoff"
          /\ UNCHANGED <<req, cur, attempts, stale, keyOnly, asked, deferred, usage, told, envVars,
                         voices, charged, refused>>
     ELSE Rotate(FALSE)
  /\ UNCHANGED blame
  /\ Close

LeftUnheard ==
  /\ Unheard /\ shed = "" /\ departed
  /\ Vanish
  /\ Close

\* The backend had closed the pooled socket: not the credential's fault.
RetryStaleSocket ==
  /\ Unheard /\ shed = "" /\ ~departed /\ wire = "ws" /\ reused
  /\ pc' = "loop" /\ UntryStale
  /\ UNCHANGED <<req, cur, attempts, sheds, keyOnly, asked, deferred, usage, told, envVars, voices,
                 charged, refused, blame>>
  /\ Close

RetryBroken ==
  /\ Unheard /\ shed = "" /\ ~departed /\ ~(wire = "ws" /\ reused)
  /\ Rotate(FALSE) /\ UNCHANGED blame
  /\ Close

\* Mutant: a stream without its terminal event is always tried again.
SettleStreamTerminal ==
  /\ Streaming /\ ended # "no" /\ (terminal \/ Spoken)
  /\ IF terminal THEN Serve(FALSE) ELSE Rotate(FALSE)
  /\ UNCHANGED blame
  /\ Close

\* Complete, or cut off under the client's eyes: settled as far as it came.
SettleStream ==
  /\ Streaming /\ ended # "no" /\ (terminal \/ Spoken)
  /\ Serve(FALSE) /\ UNCHANGED blame
  /\ Close
-----------------------------------------------------------------------------
(***************************************************************************)
(* A client that does not stream (aggregateCodexResponseStream).           *)
(***************************************************************************)
Collecting == Relaying /\ Reading /\ CodexOAuth

CollectLine(l) ==
  /\ Collecting /\ ~Decides(l)
  /\ Read(l)
  /\ \/ UNCHANGED voices
     \/ l.part = "data" /\ l.kind = "output" /\ Speak   \* an image is being made
  /\ LoopUnchanged
  /\ UNCHANGED <<usage, chat, socketVars, feed, held, preamble, shed, terminal, expired, ended, heard>>

\* The first refusal, failure or completed response is the last word.
CollectLast(l) ==
  /\ Collecting /\ Decides(l)
  /\ \/ l.kind = "completed" /\ ((\E u \in BOOLEAN : Serve(u)) \/ Fail)
     \/ l.kind = "failed" /\ IF departed /\ ~Spoken THEN Vanish ELSE Fail
     \/ l.kind \in Retryable /\ IF Spoken THEN Fail ELSE Rotate(FALSE)
  /\ UNCHANGED blame
  /\ Close

\* A body cut off is tried again, if it looks like a cut and nobody has heard.
CollectCut ==
  /\ Reading /\ CodexOAuth
  /\ \/ Fail
     \/ ~Spoken /\ (IF departed THEN Vanish ELSE Rotate(FALSE))
  /\ UNCHANGED blame
  /\ Close
-----------------------------------------------------------------------------
OnHTTP == wire = "http" \/ ~Eligible

\* What Failover says of an attempt without a 200, once it is on HTTP; a
\* socket that cannot be had where HTTP may not stand in.
NoStream ==
  /\ \/ wire = "none" /\ (RejectLocally \/ (SkipCredential /\ Eligible))
     \/ OnHTTP /\ (ClientGone \/ TransportFails \/ Refuse \/ ForwardError)
  /\ wire' = "none"
  /\ UNCHANGED <<chat, reused, idle, leftover, cooldown, streamVars>>

Around ==
  /\ (\E a \in Cred : Acquire(a)) \/ Exhaust \/ WakeUp \/ Depart \/ PassDeadline
       \/ (\E c \in Cred : ChangeHealth(c))
  /\ UNCHANGED detail

Transport ==
  RelayOverWS \/ FallBackToHTTP \/ RelayOverHTTP
    \/ (\E c \in OAuth : CoolDownOver(c) \/ EvictIdle(c))

Stream ==
  \/ \E l \in Upstream : ReadLine(l) \/ ReadChatLine(l) \/ CollectLine(l) \/ CollectLast(l)
  \/ WindowCloses \/ (\E why \in {"eof", "reset", "stall"} : StreamEnds(why))
  \/ RetryShed \/ LeftUnheard \/ RetryStaleSocket \/ RetryBroken \/ SettleStream \/ CollectCut

RelayNext == Around \/ NoStream \/ Transport \/ Stream

RelaySpec == RelayInit /\ [][RelayNext]_relayVars
-----------------------------------------------------------------------------
(***************************************************************************)
(* Properties.                                                             *)
(***************************************************************************)
\* The relay does nothing that the loop of the request does not know of: what
\* it makes of its stream is an output, an end, a break or a refusal in the
\* sense of module Failover, with Failover's promises to the client.
ImplementsFailover == FailoverInit /\ [][FailoverNext]_vars

DataBefore(i) == {j \in 1 .. i - 1 : read[j].part = "data"}
OnlyOpeners(i) == \A j \in DataBefore(i) : read[j].kind \in ContentFree

Private(l) == l.kind = "private" /\ l.part # "blank"
Visible(lines) == {i \in DOMAIN lines : ~Private(lines[i])}
Nth(I, k) == {i \in I : Cardinality({j \in I : j <= i}) = k}
Shown(lines) ==
  LET visible == Visible(lines)
  IN  [k \in 1 .. Cardinality(visible) |-> AsSent(lines[CHOOSE i \in Nth(visible, k) : TRUE])]

\* What the client of a stream has been sent and what is kept for it are, at
\* any time, the lines upstream has sent, in order, each once: but for the
\* pool's own events, and for the two codes that would end its session.
StreamAsSent ==
  Native /\ ended = "no" /\ shed = "" =>
    heard \o preamble = Shown(SubSeq(read, 1, Len(read) - Len(held)))

\* Every line the client hears answers the attempt it hears: a socket never
\* serves a turn with frames of the one before (codexWSBody.Close).
OwnFrames == \A i \in DOMAIN heard : heard[i].of \in voices

\* A refusal in the withhold window, after nothing but openers, never commits
\* the response: the request can still go elsewhere (streamSSECodexBackend).
RefusalStaysHidden ==
  Native /\ ~expired =>
    ((\E i \in DOMAIN read : read[i].part = "data" /\ read[i].kind \in Retryable /\ OnlyOpeners(i))
       => ~Spoken)

\* "a break that happens before any output reaches the client can be retried by
\* the caller on a different credential": a connection reset after nothing but
\* openers leaves the response uncommitted (streamSSECodexBackend).
BreakStaysOpen ==
  Native /\ ended = "reset" /\ ~expired /\ OnlyOpeners(Len(read) + 1) => ~Spoken
=============================================================================
