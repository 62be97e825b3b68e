----------------------------- MODULE Credentials -----------------------------
(***************************************************************************)
(* What the gateway believes about its Codex credentials, and how it finds *)
(* out (server/codex_model_guard.go, codex_auth_reject.go, codex_proxy.go, *)
(* upstream_health.go, codexquota/, admin/admin.go).                       *)
(*                                                                         *)
(* Three beliefs are kept beside the traffic.  The models a request may    *)
(* ask for: the tiers of the subscriptions, and a catalogue of what the    *)
(* API-key relays advertise, refreshed by a probe that runs in the         *)
(* background.  The bearer of each subscription: the backend may stop      *)
(* taking it at any time, and the request that learns so mints another.    *)
(* The health of each API key: faults add up until it is paused, and an    *)
(* answer wipes them, a whole one or one the client walked away from.      *)
(* Requests, probes and the operator's panel change them all concurrently. *)
(*                                                                         *)
(* Outside: the pool's choice among usable credentials (any of them), and  *)
(* the bookkeeping of cc-core: EnsureFresh, which serialises the exchanges *)
(* of one credential, MarkFailure, MarkSuccess and their kin.              *)
(***************************************************************************)
EXTENDS Integers, FiniteSets

CONSTANTS
  Request,    \* Codex requests
  Sub,        \* subscriptions (OAuth credentials)
  Key,        \* API keys of relays
  Lenient,    \* keys that pause only for explicit refusals
  Asked,      \* models clients ask for
  Names,      \* the catalogue names each may be served under
  Tier,       \* the names each subscription's plan serves, hidden ones too
  Offers,     \* the names each relay advertises
  HardAfter,  \* 401s in a row that retire a subscription
  BreakAfter, \* faults in a row that pause an API key
  MaxBearer,  \* bound: bearers of one subscription
  MaxFaults,  \* bound: faults counted against one key
  MaxEvents   \* bound: what the surroundings do in one behaviour

Cred == Sub \cup Key

ASSUME CredAssumption ==
  /\ Sub \cap Key = {} /\ 0 \notin Cred \cup Request
  /\ Lenient \subseteq Key
  /\ \A m \in Asked : Names[m] # {}
  /\ HardAfter \in Nat \ {0} /\ BreakAfter \in Nat \ {0}
  /\ MaxBearer \in Nat /\ MaxFaults \in Nat /\ MaxEvents \in Nat

VARIABLES
  loaded, disabled,  \* the pool, and what the operator switched off
  resting, retired,  \* cooling down; hard-failed
  strikes,           \* 401s, or faults, in a row
  broken,            \* history: faults of a relay since it last served anyone
  bearer, taken,     \* versions: the bearer held, the oldest still accepted
  gate,              \* the request inside a subscription's refresh gate, or 0
  catalog,           \* what the guard knows of the relays
  probe,             \* the background refresh of it
  req,               \* where each request is
  rejected, forced,  \* history: bearers refused, and mints they forced
  polled,            \* history: the keys the catalogue was made from
  events             \* how much the surroundings have done

healthVars == <<resting, retired, strikes, broken>>
bearerVars == <<bearer, taken, gate, rejected, forced>>
modelVars  == <<catalog, probe, polled>>
poolVars   == <<loaded, disabled>>
credVars   == <<poolVars, healthVars, bearerVars, modelVars, req, events>>

CatalogNames == UNION {Offers[k] : k \in Key}

CredTypeOK ==
  /\ loaded \subseteq Cred /\ disabled \subseteq Cred
  /\ resting \subseteq Cred /\ retired \subseteq Cred
  /\ strikes \in [Cred -> Nat] /\ broken \in [Cred -> Nat]
  /\ bearer \in [Sub -> Nat] /\ taken \in [Sub -> Nat]
  /\ gate \in [Sub -> Request \cup {0}]
  /\ catalog \in [known : BOOLEAN, names : SUBSET CatalogNames,
                  stale : BOOLEAN, cooled : BOOLEAN]
  /\ probe \in [on : BOOLEAN, todo : SUBSET Key, of : SUBSET Key,
                names : SUBSET CatalogNames]
  /\ req \in [Request -> [stage : {"new", "looking", "routed", "sent", "body",
                                   "rejected", "gated", "minting", "served",
                                   "refused", "failed"},
                          model : Asked \cup {""}, keys : SUBSET Key,
                          keyOnly : BOOLEAN, tried : SUBSET Cred,
                          cred : Cred \cup {0}, seen : Nat]]
  /\ rejected \in [Sub -> SUBSET Nat] /\ forced \in [Sub -> Nat]
  /\ polled \subseteq Key
  /\ events \in 0 .. MaxEvents

Idle == [on |-> FALSE, todo |-> {}, of |-> {}, names |-> {}]

Blank == [stage |-> "new", model |-> "", keys |-> {}, keyOnly |-> FALSE,
          tried |-> {}, cred |-> 0, seen |-> 0]

CredInit ==
  /\ loaded = Cred /\ disabled = {} /\ resting = {} /\ retired = {}
  /\ strikes = [c \in Cred |-> 0] /\ broken = strikes
  /\ bearer = [s \in Sub |-> 0] /\ taken = bearer
  /\ gate = [s \in Sub |-> 0]
  /\ catalog = [known |-> FALSE, names |-> {}, stale |-> TRUE, cooled |-> TRUE]
  /\ probe = Idle
  /\ req = [r \in Request |-> Blank]
  /\ rejected = [s \in Sub |-> {}] /\ forced = [s \in Sub |-> 0]
  /\ polled = {} /\ events = 0

To(r, stage) == req' = [req EXCEPT ![r].stage = stage]
Ends(r, stage) == req' = [req EXCEPT ![r] = [Blank EXCEPT !.stage = stage]]

-----------------------------------------------------------------------------
(* The model guard: is there anything that serves this model? *)

Enabled == loaded \ disabled
TierNames == UNION {Tier[s] : s \in Sub \cap Enabled}
Servable(m, names) == Names[m] \cap names # {}

(* The tiers are read first; with no API key loaded they are all there is. *)
Look(r, m) ==
  /\ req[r].stage = "new"
  /\ \/ /\ Servable(m, TierNames) /\ To(r, "routed")
     \/ /\ ~Servable(m, TierNames) /\ Key \cap Enabled = {} /\ Ends(r, "refused")
     \/ /\ ~Servable(m, TierNames) /\ Key \cap Enabled # {}
        /\ req' = [req EXCEPT ![r].stage = "looking", ![r].model = m,
                              ![r].keys = Key \cap Enabled]
  /\ UNCHANGED <<poolVars, healthVars, bearerVars, modelVars>>

(* Then the relays' catalogue.  A stale one is used and refreshed behind   *)
(* the request; none at all lets the request through to the relays.        *)
Consult(r) ==
  /\ req[r].stage = "looking"
  /\ IF catalog.known /\ ~Servable(req[r].model, catalog.names)
     THEN Ends(r, "refused")
     ELSE req' = [req EXCEPT ![r] = [Blank EXCEPT !.stage = "routed", !.keyOnly = TRUE]]
  /\ IF catalog.stale /\ catalog.cooled /\ ~probe.on
     THEN /\ probe' = [on |-> TRUE, todo |-> req[r].keys, of |-> req[r].keys,
                       names |-> {}]
          /\ catalog' = [catalog EXCEPT !.cooled = FALSE]
     ELSE UNCHANGED <<probe, catalog>>
  /\ UNCHANGED <<poolVars, healthVars, bearerVars, polled>>

(* One relay answers the probe. *)
ProbeAnswers(k) ==
  /\ k \in probe.todo
  /\ probe' = [probe EXCEPT !.todo = @ \ {k}, !.names = @ \cup Offers[k]]
  /\ UNCHANGED <<poolVars, healthVars, bearerVars, catalog, req, polled>>

\* Mutant: what was gathered before the failure is published.
ProbeFailsPublishing(k) ==
  /\ k \in probe.todo
  /\ probe' = Idle
  /\ catalog' = [catalog EXCEPT !.known = TRUE, !.names = probe.names]
  /\ polled' = probe.of
  /\ UNCHANGED <<poolVars, healthVars, bearerVars, req>>

(* One that does not ends the round, and the catalogue stays as it was.    *)
ProbeFails(k) ==
  /\ k \in probe.todo
  /\ probe' = Idle
  /\ UNCHANGED <<poolVars, healthVars, bearerVars, catalog, req, polled>>

(* Every relay has answered: their union is the catalogue. *)
Publish ==
  /\ probe.on /\ probe.todo = {}
  /\ catalog' = [catalog EXCEPT !.known = TRUE, !.names = probe.names, !.stale = FALSE]
  /\ polled' = probe.of
  /\ probe' = Idle
  /\ UNCHANGED <<poolVars, healthVars, bearerVars, req>>

(* Time passes: the catalogue's five minutes, the probe's half minute. *)
Age ==
  /\ \/ /\ ~catalog.stale /\ catalog' = [catalog EXCEPT !.stale = TRUE]
     \/ /\ ~catalog.cooled /\ catalog' = [catalog EXCEPT !.cooled = TRUE]
  /\ UNCHANGED <<poolVars, healthVars, bearerVars, probe, req, polled>>

-----------------------------------------------------------------------------
(* The forward loop, one attempt at a time. *)

Usable(r) == (IF req[r].keyOnly THEN Key ELSE Cred) \cap
             (Enabled \ (retired \cup req[r].tried))

(* The pool hands out a credential, a resting one only when no other is    *)
(* left, and the bearer is read off it.                                    *)
Send(r, c) ==
  /\ req[r].stage = "routed"
  /\ c \in Usable(r)
  /\ c \in resting => Usable(r) \subseteq resting
  /\ req' = [req EXCEPT ![r].stage = "sent", ![r].cred = c,
                        ![r].tried = @ \cup {c},
                        ![r].seen = IF c \in Sub THEN bearer[c] ELSE 0]
  /\ UNCHANGED <<poolVars, healthVars, bearerVars, modelVars>>

Exhausted(r) ==
  /\ req[r].stage = "routed" /\ Usable(r) = {}
  /\ Ends(r, "failed")
  /\ UNCHANGED <<poolVars, healthVars, bearerVars, modelVars>>

(* The client's own doing: it left, or sent what upstream calls malformed. *)
ClientFault(r) ==
  /\ req[r].stage = "sent"
  /\ Ends(r, "failed")
  /\ UNCHANGED <<poolVars, healthVars, bearerVars, modelVars>>

\* Mutant: a 200 counts as a success when its status line arrives.
StatusLineSucceeds(r) ==
  /\ req[r].stage = "sent"
  /\ req[r].cred \in Sub => req[r].seen >= taken[req[r].cred]
  /\ To(r, "body")
  /\ strikes' = [strikes EXCEPT ![req[r].cred] = 0]
  /\ UNCHANGED <<poolVars, resting, retired, broken, bearerVars, modelVars>>

(* Upstream has begun to answer; the verdict waits for the last byte. *)
StatusLine(r) ==
  /\ req[r].stage = "sent"
  /\ req[r].cred \in Sub => req[r].seen >= taken[req[r].cred]
  /\ To(r, "body")
  /\ UNCHANGED <<poolVars, healthVars, bearerVars, modelVars>>

(* MarkSuccess wipes the slate. *)
MarkSuccess(c) ==
  /\ strikes' = [strikes EXCEPT ![c] = 0]
  /\ broken' = [broken EXCEPT ![c] = 0]
  /\ resting' = resting \ {c}
  /\ retired' = retired

Whole(r) ==
  /\ req[r].stage = "body"
  /\ Ends(r, "served")
  /\ MarkSuccess(req[r].cred)
  /\ UNCHANGED <<poolVars, bearerVars, modelVars>>

(* The client hangs up in the middle of a relay's stream: "a success for   *)
(* the credential: it served bytes until the caller stopped listening".    *)
HangUp(r) ==
  /\ req[r].stage = "body" /\ req[r].cred \in Key
  /\ Ends(r, "failed")
  /\ MarkSuccess(req[r].cred)
  /\ UNCHANGED <<poolVars, bearerVars, modelVars>>

(* A stream that is cut upstream says nothing either way, and neither does *)
(* the client of a subscription that hangs up.                             *)
CutShort(r) ==
  /\ req[r].stage = "body"
  /\ Ends(r, "failed")
  /\ UNCHANGED <<poolVars, healthVars, bearerVars, modelVars>>

(* A fault of a relay: busy and throttled ones rest, refusals of the key   *)
(* rest at once, and what is left adds a strike, the last of which rests.  *)
Fault(k, why) ==
  /\ retired' = retired
  /\ IF k \in Lenient /\ why = "strike"
     THEN UNCHANGED <<resting, strikes, broken>>
     ELSE /\ why = "strike" => strikes[k] < MaxFaults
          /\ strikes' = [strikes EXCEPT ![k] = @ + (IF why = "strike" THEN 1 ELSE 0)]
          /\ broken' = [broken EXCEPT ![k] = @ + (IF why = "strike" THEN 1 ELSE 0)]
          /\ resting' = IF why = "rest" \/ strikes'[k] >= BreakAfter
                        THEN resting \cup {k} ELSE resting

(* A status that can be retried: report it, and let the loop go on. *)
RelayFails(r, why) ==
  /\ req[r].stage = "sent" /\ req[r].cred \in Key
  /\ Fault(req[r].cred, why)
  /\ To(r, "routed")
  /\ UNCHANGED <<poolVars, bearerVars, modelVars>>

(* An answer that nothing can be billed from: one that came without usage, *)
(* or a body that is not a stream and whose client left before its end.    *)
WithoutUsage(r) ==
  /\ req[r].stage = "body" /\ req[r].cred \in Key
  /\ Fault(req[r].cred, "strike")
  /\ Ends(r, "failed")
  /\ UNCHANGED <<poolVars, bearerVars, modelVars>>

(* A handshake that failed on another client's socket. *)
DialFails(c, why) ==
  /\ c \in Enabled \ retired
  /\ IF c \in Key
     THEN Fault(c, why)
     ELSE /\ why = "rest" /\ resting' = resting \cup {c}
          /\ UNCHANGED <<retired, strikes, broken>>
  /\ UNCHANGED <<poolVars, bearerVars, modelVars, req>>

(* The quota probe finds an account at its limit, or a pause runs out. *)
LimitReached(s) ==
  /\ s \in Enabled /\ resting' = resting \cup {s}
  /\ UNCHANGED <<poolVars, retired, strikes, broken, bearerVars, modelVars, req>>

RestEnds(c) ==
  /\ c \in resting /\ resting' = resting \ {c}
  /\ UNCHANGED <<poolVars, retired, strikes, broken, bearerVars, modelVars, req>>

-----------------------------------------------------------------------------
(* A bearer the backend no longer takes. *)

(* The backend invalidates what it issued. *)
Invalidated(s) ==
  /\ taken[s] <= bearer[s] /\ bearer[s] < MaxBearer
  /\ taken' = [taken EXCEPT ![s] = bearer[s] + 1]
  /\ UNCHANGED <<poolVars, healthVars, bearer, gate, rejected, forced, modelVars, req>>

(* 401: one strike more, and the last one retires the account. *)
Rejected(r) ==
  LET s == req[r].cred IN
  /\ req[r].stage = "sent" /\ s \in Sub /\ req[r].seen < taken[s]
  /\ rejected' = [rejected EXCEPT ![s] = @ \cup {req[r].seen}]
  /\ strikes' = [strikes EXCEPT ![s] = @ + 1]
  /\ IF strikes'[s] >= HardAfter
     THEN retired' = retired \cup {s} /\ To(r, "routed")
     ELSE retired' = retired /\ To(r, "rejected")
  /\ UNCHANGED <<poolVars, resting, broken, bearer, taken, gate, forced, modelVars>>

EnterGate(r) ==
  LET s == req[r].cred IN
  /\ req[r].stage = "rejected" /\ gate[s] = 0
  /\ gate' = [gate EXCEPT ![s] = r]
  /\ To(r, "gated")
  /\ UNCHANGED <<poolVars, healthVars, bearer, taken, rejected, forced, modelVars>>

\* Mutant: whoever comes in mints.
CompareNothing(r) ==
  /\ req[r].stage = "gated"
  /\ To(r, "minting")
  /\ UNCHANGED <<poolVars, healthVars, bearerVars, modelVars>>

(* Someone has already minted another: nothing is left to do. *)
Compare(r) ==
  LET s == req[r].cred
      current == bearer[s] = req[r].seen IN
  /\ req[r].stage = "gated"
  /\ To(r, IF current THEN "minting" ELSE "routed")
  /\ gate' = [gate EXCEPT ![s] = IF current THEN @ ELSE 0]
  /\ UNCHANGED <<poolVars, healthVars, bearer, taken, rejected, forced, modelVars>>

(* The exchange gives a bearer the backend takes, *)
Mint(r) ==
  LET s == req[r].cred IN
  /\ req[r].stage = "minting" /\ bearer[s] < MaxBearer
  /\ bearer' = [bearer EXCEPT ![s] = @ + 1]
  /\ forced' = [forced EXCEPT ![s] = @ + 1]
  /\ gate' = [gate EXCEPT ![s] = 0]
  /\ To(r, "routed")
  /\ UNCHANGED <<poolVars, healthVars, taken, rejected, modelVars>>

(* or fails for now, or for good: the refresh token was refused. *)
MintFails(r, dead) ==
  LET s == req[r].cred IN
  /\ req[r].stage = "minting"
  /\ gate' = [gate EXCEPT ![s] = 0]
  /\ resting' = resting \cup {s}
  /\ retired' = IF dead THEN retired \cup {s} ELSE retired
  /\ To(r, "routed")
  /\ UNCHANGED <<poolVars, strikes, broken, bearer, taken, rejected, forced, modelVars>>

-----------------------------------------------------------------------------
(* The operator's panel. *)

Switch(c) ==
  /\ c \in loaded
  /\ disabled' = IF c \in disabled THEN disabled \ {c} ELSE disabled \cup {c}
  /\ UNCHANGED <<loaded, healthVars, bearerVars, modelVars, req>>

Delete(c) ==
  /\ c \in loaded /\ loaded' = loaded \ {c} /\ disabled' = disabled \ {c}
  /\ UNCHANGED <<healthVars, bearerVars, modelVars, req>>

(* What comes in starts with a clean slate.  Nobody is still at work with  *)
(* an earlier copy: a simplification, the pool would have two.             *)
Add(c) ==
  /\ c \notin loaded /\ loaded' = loaded \cup {c}
  /\ \A r \in Request : req[r].cred # c
  /\ strikes' = [strikes EXCEPT ![c] = 0] /\ broken' = [broken EXCEPT ![c] = 0]
  /\ resting' = resting \ {c} /\ retired' = retired \ {c}
  /\ UNCHANGED <<taken, gate, rejected, forced, modelVars, req>>

(* A file, which may say that it is disabled, and whose bearer may be old. *)
Upload(c) ==
  /\ Add(c)
  /\ disabled' \in {disabled, disabled \cup {c}}
  /\ UNCHANGED bearer

CreateAPIKey(k) == Add(k) /\ UNCHANGED <<disabled, bearer>>

(* A login, with the code or with a session cookie: the bearer is new.     *)
FinishLogin(s) ==
  /\ bearer[s] < MaxBearer
  /\ Add(s)
  /\ bearer' = [bearer EXCEPT ![s] = @ + 1]
  /\ UNCHANGED disabled

(* Clearing the failure wipes the slate, and clearing the quota the rest. *)
ClearFailure(c) ==
  /\ c \in loaded
  /\ strikes' = [strikes EXCEPT ![c] = 0] /\ broken' = [broken EXCEPT ![c] = 0]
  /\ retired' = retired \ {c}
  /\ UNCHANGED <<poolVars, resting, bearerVars, modelVars, req>>

ClearQuota(c) ==
  /\ c \in loaded /\ resting' = resting \ {c}
  /\ UNCHANGED <<poolVars, retired, strikes, broken, bearerVars, modelVars, req>>

(* A refresh by hand passes by the gate. *)
OperatorRefresh(s) ==
  /\ s \in loaded /\ bearer[s] < MaxBearer
  /\ bearer' = [bearer EXCEPT ![s] = @ + 1]
  /\ UNCHANGED <<poolVars, healthVars, taken, gate, rejected, forced, modelVars, req>>

-----------------------------------------------------------------------------
Serves(r) ==
  /\ \/ \E m \in Asked : Look(r, m)
     \/ Consult(r)
     \/ \E c \in Cred : Send(r, c)
     \/ Exhausted(r) \/ ClientFault(r) \/ StatusLine(r) \/ Whole(r)
     \/ HangUp(r) \/ CutShort(r)
     \/ \E why \in {"rest", "strike"} : RelayFails(r, why)
     \/ WithoutUsage(r)
     \/ Rejected(r) \/ EnterGate(r) \/ Compare(r) \/ Mint(r)
     \/ \E dead \in BOOLEAN : MintFails(r, dead)
  /\ UNCHANGED events

Probes ==
  /\ Publish \/ \E k \in Key : ProbeAnswers(k) \/ ProbeFails(k)
  /\ UNCHANGED events

Surroundings ==
  /\ events < MaxEvents /\ events' = events + 1
  /\ \/ Age
     \/ \E c \in Cred, why \in {"rest", "strike"} : DialFails(c, why)
     \/ \E c \in Cred : RestEnds(c) \/ Switch(c) \/ Delete(c) \/ Upload(c)
                        \/ ClearFailure(c) \/ ClearQuota(c)
     \/ \E k \in Key : CreateAPIKey(k)
     \/ \E s \in Sub : LimitReached(s) \/ Invalidated(s) \/ OperatorRefresh(s)
                       \/ FinishLogin(s)

CredNext == Probes \/ Surroundings \/ \E r \in Request : Serves(r)
CredSpec == CredInit /\ [][CredNext]_credVars

-----------------------------------------------------------------------------
(* A mint is forced at most once for each bearer the backend refused,      *)
(* however many requests it was refused to: a refresh token that is shown  *)
(* twice retires the account (refreshGate, recoverRejectedToken).          *)
ForcedOncePerBearer ==
  \A s \in Sub : forced[s] <= Cardinality(rejected[s])

(* A request is refused only when a whole round of the relays stands       *)
(* behind it, and no relay of that round offers the model: a relay that    *)
(* was out of reach for a moment costs nobody a model                      *)
(* (refreshAPIKeyModels, guardCodexModel).                                 *)
RefusalIsInformed ==
  [][\A r \in Request :
       (req[r].stage = "looking" /\ req'[r].stage = "refused") =>
         /\ polled # {}
         /\ \A k \in polled : ~Servable(req[r].model, Offers[k])]_credVars

(* A relay that has failed BreakAfter times since it last served anyone,   *)
(* or was last cleared or added, is paused by the last of those faults,    *)
(* whatever requests, handshakes and operators did in between: the status  *)
(* lines of broken 200s take nothing off (doForwardCodex,                  *)
(* reportCodexAPIKeyFault).  Serving is what the code counts as such: a    *)
(* client that hangs up in the middle of a stream was served.              *)
BrokenRelaysRest ==
  [][\A k \in Key :
       (broken'[k] > broken[k] /\ broken'[k] >= BreakAfter) => k \in resting']_credVars

(* "Leave the credential untouched" (codex_proxy.go, of a client that      *)
(* cancels in the middle of a stream): a request that ends without an      *)
(* answer takes no strike off the relay it was sent to.                    *)
CancelLeavesUntouched ==
  [][\A r \in Request :
       (req[r].cred \in Key /\ req'[r].stage = "failed") =>
         strikes'[req[r].cred] >= strikes[req[r].cred]]_credVars
=============================================================================
