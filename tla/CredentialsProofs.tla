--------------------------- MODULE CredentialsProofs ---------------------------
(***************************************************************************)
(* The beliefs about credentials, for any number of requests, credentials, *)
(* models and events.                                                      *)
(***************************************************************************)
EXTENDS Credentials, FiniteSetTheorems, TLAPS

Asking == {"rejected", "gated", "minting"}

\* Who is past a rejection has a subscription whose bearer was rejected, no
\* newer than the one held now; who is in a gate is known to be there.
GateInv ==
  /\ \A r \in Request :
       /\ req[r].cred \in Sub => req[r].seen <= bearer[req[r].cred]
       /\ req[r].stage \in Asking =>
            req[r].cred \in Sub /\ req[r].seen \in rejected[req[r].cred]
       /\ req[r].stage \in {"gated", "minting"} => gate[req[r].cred] = r
  /\ \A s \in Sub : gate[s] # 0 =>
       req[gate[s]].cred = s /\ req[gate[s]].stage \in {"gated", "minting"}

\* The rejected bearers that have been replaced.
Replaced(s) == {v \in rejected[s] : v < bearer[s]}

\* A mint has been forced for some of those, and the one who is minting does it
\* for another.
MintInv ==
  \A s \in Sub :
    /\ IsFiniteSet(rejected[s])
    /\ forced[s] <= Cardinality(Replaced(s))
    /\ gate[s] # 0 /\ req[gate[s]].stage = "minting" =>
         forced[s] < Cardinality(Replaced(s) \cup {req[gate[s]].seen})

\* The catalogue is what a whole round of relays said, and so far the probe is.
Advertised(keys) == UNION {Offers[k] : k \in keys}

GuardInv ==
  /\ catalog.known => polled # {} /\ catalog.names = Advertised(polled)
  /\ probe.todo # {} => probe.on
  /\ probe.on => /\ probe.of # {} /\ probe.todo \subseteq probe.of
                 /\ probe.names = Advertised(probe.of \ probe.todo)
  /\ \A r \in Request : req[r].stage = "looking" => req[r].keys # {}

-----------------------------------------------------------------------------
(***************************************************************************)
(* Types.                                                                  *)
(***************************************************************************)
Stages == {"new", "looking", "routed", "sent", "body", "rejected", "gated", "minting",
           "served", "refused", "failed"}
ReqRec == [stage : Stages, model : Asked \cup {""}, keys : SUBSET Key, keyOnly : BOOLEAN,
           tried : SUBSET Cred, cred : Cred \cup {0}, seen : Nat]
CatalogRec == [known : BOOLEAN, names : SUBSET CatalogNames, stale : BOOLEAN, cooled : BOOLEAN]
ProbeRec == [on : BOOLEAN, todo : SUBSET Key, of : SUBSET Key, names : SUBSET CatalogNames]

ReqType == req \in [Request -> ReqRec]
HealthType ==
  /\ loaded \subseteq Cred /\ disabled \subseteq Cred
  /\ resting \subseteq Cred /\ retired \subseteq Cred
  /\ strikes \in [Cred -> Nat] /\ broken \in [Cred -> Nat]
BearerType ==
  /\ bearer \in [Sub -> Nat] /\ taken \in [Sub -> Nat]
  /\ gate \in [Sub -> Request \cup {0}]
  /\ rejected \in [Sub -> SUBSET Nat] /\ forced \in [Sub -> Nat]
ModelType == catalog \in CatalogRec /\ probe \in ProbeRec /\ polled \subseteq Key

LEMMA TypeParts ==
  CredTypeOK <=> ReqType /\ HealthType /\ BearerType /\ ModelType /\ events \in 0 .. MaxEvents
  BY DEF CredTypeOK, ReqType, HealthType, BearerType, ModelType, ReqRec, CatalogRec, ProbeRec, Stages

LEMMA TypePartsNext ==
  ASSUME ReqType', HealthType', BearerType', ModelType', events' \in 0 .. MaxEvents
  PROVE  CredTypeOK'
  BY DEF CredTypeOK, ReqType, HealthType, BearerType, ModelType, ReqRec, CatalogRec, ProbeRec, Stages

\* What a request may turn into.
LEMMA AtStage ==
  ASSUME NEW x \in ReqRec, NEW st \in Stages
  PROVE  [x EXCEPT !.stage = st] \in ReqRec
  BY DEF ReqRec

LEMMA BlankAt ==
  ASSUME NEW st \in Stages
  PROVE  [Blank EXCEPT !.stage = st] \in ReqRec
  BY DEF ReqRec, Blank, Stages

\* One request has become x.
Became(r, x) ==
  /\ req' = [req EXCEPT ![r] = x] /\ req' \in [Request -> ReqRec] /\ req'[r] = x
  /\ \A q \in Request \ {r} : req'[q] = req[q]

LEMMA ToBecomes ==
  ASSUME ReqType, NEW r \in Request, NEW st \in Stages, To(r, st)
  PROVE  Became(r, [req[r] EXCEPT !.stage = st])
  <1>1. [req[r] EXCEPT !.stage = st] \in ReqRec
    BY AtStage DEF ReqType
  <1> QED BY <1>1 DEF To, Became, ReqType

LEMMA EndsBecomes ==
  ASSUME ReqType, NEW r \in Request, NEW st \in Stages, Ends(r, st)
  PROVE  Became(r, [Blank EXCEPT !.stage = st])
  <1>1. [Blank EXCEPT !.stage = st] \in ReqRec
    BY BlankAt
  <1> QED BY <1>1 DEF Ends, Became, ReqType

\* A step of a request that has nothing to do with bearers.
Quiet(r) ==
  /\ req[r].stage \notin {"gated", "minting"}
  /\ \E x \in ReqRec :
       /\ Became(r, x)
       /\ x.stage \notin Asking
       /\ x.cred = 0 \/ (x.cred = req[r].cred /\ x.seen = req[r].seen)
       /\ x.stage = "looking" => x.keys # {}
  /\ UNCHANGED bearerVars

Sends(r, c) ==
  /\ req[r].stage = "routed"
  /\ \E x \in ReqRec :
       /\ Became(r, x)
       /\ x.stage = "sent" /\ x.cred = c /\ (c \in Sub => x.seen = bearer[c])
  /\ UNCHANGED bearerVars

LEMMA MovesAreQuiet ==
  ASSUME ReqType, NEW r \in Request, NEW st \in Stages \ (Asking \cup {"looking"}),
         req[r].stage \notin {"gated", "minting"}, UNCHANGED bearerVars,
         To(r, st) \/ Ends(r, st)
  PROVE  Quiet(r)
  <1>1. [req[r] EXCEPT !.stage = st] \in ReqRec /\ [Blank EXCEPT !.stage = st] \in ReqRec
    BY AtStage, BlankAt DEF ReqType
  <1>2. CASE To(r, st)
    <2> DEFINE x == [req[r] EXCEPT !.stage = st]
    <2>1. Became(r, x)
      BY <1>2, ToBecomes
    <2>2. x.stage = st /\ x.cred = req[r].cred /\ x.seen = req[r].seen
      BY DEF ReqType, ReqRec
    <2> QED BY <1>1, <2>1, <2>2 DEF Quiet
  <1>3. CASE Ends(r, st)
    <2> DEFINE x == [Blank EXCEPT !.stage = st]
    <2>1. Became(r, x)
      BY <1>3, EndsBecomes
    <2>2. x.stage = st /\ x.cred = 0
      BY DEF Blank
    <2> QED BY <1>1, <2>1, <2>2 DEF Quiet
  <1> QED BY <1>2, <1>3

LEMMA LooksAreQuiet ==
  ASSUME ReqType, NEW r \in Request, NEW m \in Asked, Look(r, m)
  PROVE  Quiet(r)
  <1>0. UNCHANGED bearerVars /\ req[r].stage = "new"
    BY DEF Look
  <1>1. CASE To(r, "routed") \/ Ends(r, "refused")
    BY <1>0, <1>1, MovesAreQuiet DEF Stages, Asking
  <1>2. CASE /\ Key \cap Enabled # {}
             /\ req' = [req EXCEPT ![r].stage = "looking", ![r].model = m,
                                   ![r].keys = Key \cap Enabled]
    <2> DEFINE x == [req[r] EXCEPT !.stage = "looking", !.model = m, !.keys = Key \cap Enabled]
    <2>1. x \in ReqRec /\ x.stage = "looking" /\ x.keys = Key \cap Enabled
          /\ x.cred = req[r].cred /\ x.seen = req[r].seen
      BY DEF ReqType, ReqRec, Stages
    <2>2. req' = [req EXCEPT ![r] = x]
      BY <1>2
    <2>3. Became(r, x)
      BY <2>1, <2>2 DEF Became, ReqType
    <2> QED BY <1>0, <1>2, <2>1, <2>3 DEF Quiet, Asking
  <1> QED BY <1>1, <1>2 DEF Look

LEMMA ConsultIsQuiet ==
  ASSUME ReqType, NEW r \in Request, Consult(r)
  PROVE  Quiet(r)
  <1>0. UNCHANGED bearerVars /\ req[r].stage = "looking"
    BY DEF Consult
  <1>1. CASE Ends(r, "refused")
    BY <1>0, <1>1, MovesAreQuiet DEF Stages, Asking
  <1>2. CASE req' = [req EXCEPT ![r] = [Blank EXCEPT !.stage = "routed", !.keyOnly = TRUE]]
    <2> DEFINE x == [Blank EXCEPT !.stage = "routed", !.keyOnly = TRUE]
    <2>1. x \in ReqRec /\ x.stage = "routed" /\ x.cred = 0
      BY DEF ReqRec, Stages, Blank
    <2>2. Became(r, x)
      BY <1>2, <2>1 DEF Became, ReqType
    <2> QED BY <1>0, <2>1, <2>2 DEF Quiet, Asking
  <1> QED BY <1>1, <1>2 DEF Consult

LEMMA SendShape ==
  ASSUME ReqType, BearerType, NEW r \in Request, NEW c \in Cred, Send(r, c)
  PROVE  Sends(r, c)
  <1> DEFINE x == [req[r] EXCEPT !.stage = "sent", !.cred = c, !.tried = @ \cup {c},
                                 !.seen = IF c \in Sub THEN bearer[c] ELSE 0]
  <1>1. x \in ReqRec /\ x.stage = "sent" /\ x.cred = c /\ (c \in Sub => x.seen = bearer[c])
    BY DEF ReqType, ReqRec, Stages, BearerType
  <1>2. req' = [req EXCEPT ![r] = x]
    BY DEF Send
  <1>3. Became(r, x)
    BY <1>1, <1>2 DEF Became, ReqType
  <1> QED BY <1>1, <1>3 DEF Sends, Send

\* Every step of a request, by what it has to do with bearers.
LEMMA ServesShape ==
  ASSUME ReqType, BearerType, NEW r \in Request, Serves(r)
  PROVE  \/ Quiet(r) \/ (\E c \in Cred : Sends(r, c))
         \/ Rejected(r) \/ EnterGate(r) \/ Compare(r) \/ Mint(r)
         \/ \E dead \in BOOLEAN : MintFails(r, dead)
  <1>1. CASE Exhausted(r) \/ ClientFault(r) \/ StatusLine(r) \/ Whole(r)
             \/ HangUp(r) \/ CutShort(r)
             \/ WithoutUsage(r) \/ \E why \in {"rest", "strike"} : RelayFails(r, why)
    <2>1. /\ UNCHANGED bearerVars /\ req[r].stage \notin {"gated", "minting"}
          /\ \E st \in {"failed", "body", "served", "routed"} : To(r, st) \/ Ends(r, st)
      BY <1>1 DEF Exhausted, ClientFault, StatusLine, Whole, HangUp, CutShort, WithoutUsage, RelayFails
    <2> QED BY <2>1, MovesAreQuiet DEF Stages, Asking
  <1> QED BY <1>1, LooksAreQuiet, ConsultIsQuiet, SendShape DEF Serves

LEMMA ReqTypeKept ==
  ASSUME ReqType, BearerType, NEW r \in Request, Serves(r)
  PROVE  ReqType'
  <1>1. CASE Quiet(r) \/ \E c \in Cred : Sends(r, c)
    BY <1>1 DEF Quiet, Sends, Became, ReqType
  <1>2. ASSUME NEW st \in Stages, To(r, st) PROVE ReqType'
    BY <1>2, ToBecomes DEF Became, ReqType
  <1>3. CASE Rejected(r) \/ EnterGate(r) \/ Compare(r) \/ Mint(r)
             \/ \E dead \in BOOLEAN : MintFails(r, dead)
    <2>1. \E st \in {"routed", "rejected", "gated", "minting"} : To(r, st)
      BY <1>3 DEF Rejected, EnterGate, Compare, Mint, MintFails
    <2> QED BY <2>1, <1>2 DEF Stages
  <1> QED BY <1>1, <1>3, ServesShape

LEMMA CredOf ==
  ASSUME ReqType, NEW r \in Request
  PROVE  req[r].cred \in Cred \cup {0} /\ req[r].seen \in Nat /\ req[r].keys \subseteq Key
  BY DEF ReqType, ReqRec

LEMMA FaultKeeps ==
  ASSUME HealthType, NEW k \in Key, NEW why, Fault(k, why)
  PROVE  /\ strikes' \in [Cred -> Nat] /\ broken' \in [Cred -> Nat]
         /\ resting' \subseteq Cred /\ retired' \subseteq Cred
  BY DEF HealthType, Fault, Cred

LEMMA HealthTypeKept ==
  ASSUME ReqType, HealthType, GateInv, NEW r \in Request, Serves(r)
  PROVE  HealthType'
  <1> USE CredOf DEF HealthType
  <1>1. CASE \/ \E m \in Asked : Look(r, m)
             \/ Consult(r) \/ \E c \in Cred : Send(r, c)
             \/ Exhausted(r) \/ ClientFault(r) \/ StatusLine(r) \/ CutShort(r)
             \/ EnterGate(r) \/ Compare(r) \/ Mint(r)
    BY <1>1 DEF Look, Consult, Send, Exhausted, ClientFault, StatusLine, CutShort, EnterGate,
                Compare, Mint, poolVars, healthVars
  <1>2. CASE Whole(r) \/ HangUp(r)
    BY <1>2, CredOf, CredAssumption DEF Whole, HangUp, MarkSuccess, poolVars
  <1>3. CASE WithoutUsage(r) \/ \E why \in {"rest", "strike"} : RelayFails(r, why)
    BY <1>3, FaultKeeps DEF WithoutUsage, RelayFails, poolVars
  <1>4. CASE Rejected(r)
    BY <1>4 DEF Rejected, poolVars, Cred
  <1>5. CASE \E dead \in BOOLEAN : MintFails(r, dead)
    BY <1>5 DEF MintFails, poolVars, GateInv, Asking, Cred
  <1> QED BY <1>1, <1>2, <1>3, <1>4, <1>5 DEF Serves

LEMMA BearerTypeKept ==
  ASSUME ReqType, BearerType, GateInv, NEW r \in Request, Serves(r)
  PROVE  BearerType'
  <1> USE CredOf DEF BearerType
  <1>1. CASE Quiet(r) \/ \E c \in Cred : Sends(r, c)
    BY <1>1 DEF Quiet, Sends, bearerVars
  <1>2. CASE Rejected(r)
    BY <1>2 DEF Rejected
  <1>3. CASE EnterGate(r)
    BY <1>3 DEF EnterGate
  <1>4. CASE Compare(r)
    BY <1>4 DEF Compare
  <1>5. CASE Mint(r)
    <2>1. req[r].cred \in Sub
      BY <1>5 DEF Mint, GateInv, Asking
    <2> QED BY <1>5, <2>1 DEF Mint
  <1>6. CASE \E dead \in BOOLEAN : MintFails(r, dead)
    BY <1>6 DEF MintFails
  <1> QED BY <1>1, <1>2, <1>3, <1>4, <1>5, <1>6, ServesShape

LEMMA ModelTypeKept ==
  ASSUME ReqType, ModelType, NEW r \in Request, Serves(r)
  PROVE  ModelType'
  <1>1. CASE Consult(r)
    <2>1. probe' \in ProbeRec
      <3>1. [on |-> TRUE, todo |-> req[r].keys, of |-> req[r].keys, names |-> {}] \in ProbeRec
        BY CredOf DEF ProbeRec
      <3> QED BY <1>1, <3>1 DEF Consult, ModelType
    <2>2. catalog' \in CatalogRec
      BY <1>1 DEF Consult, ModelType, CatalogRec
    <2> QED BY <1>1, <2>1, <2>2 DEF Consult, ModelType
  <1>2. CASE UNCHANGED modelVars
    BY <1>2 DEF ModelType, modelVars
  <1> QED BY <1>1, <1>2 DEF Serves, Look, Send, Exhausted, ClientFault, StatusLine, Whole, HangUp, CutShort,
             RelayFails, WithoutUsage, Rejected, EnterGate, Compare, Mint, MintFails

LEMMA ProbesType ==
  ASSUME CredTypeOK, Probes
  PROVE  CredTypeOK'
  <1>1. UNCHANGED <<poolVars, healthVars, bearerVars, req, events>>
    BY DEF Probes, Publish, ProbeAnswers, ProbeFails
  <1>2. ASSUME Publish PROVE ModelType'
    <2>1. ModelType
      BY TypeParts
    <2>2. [catalog EXCEPT !.known = TRUE, !.names = probe.names, !.stale = FALSE] \in CatalogRec
      BY <2>1 DEF ModelType, CatalogRec, ProbeRec
    <2>3. Idle \in ProbeRec /\ probe.of \subseteq Key
      BY <2>1 DEF ModelType, ProbeRec, Idle
    <2> QED BY <1>2, <2>2, <2>3 DEF Publish, ModelType
  <1>3. ASSUME NEW k \in Key, ProbeAnswers(k) PROVE ModelType'
    BY <1>3, TypeParts DEF ProbeAnswers, ModelType, ProbeRec, CatalogNames
  <1>4. ASSUME NEW k \in Key, ProbeFails(k) PROVE ModelType'
    BY <1>4, TypeParts DEF ProbeFails, ModelType, ProbeRec, Idle
  <1>5. ModelType'
    BY <1>2, <1>3, <1>4 DEF Probes
  <1>6. ReqType' /\ HealthType' /\ BearerType' /\ events' \in 0 .. MaxEvents
    BY <1>1, TypeParts DEF ReqType, HealthType, BearerType, poolVars, healthVars, bearerVars
  <1> QED BY <1>5, <1>6, TypePartsNext

LEMMA SurroundingsType ==
  ASSUME CredTypeOK, Surroundings
  PROVE  CredTypeOK'
  <1> USE TypeParts
  <1>1. UNCHANGED req /\ events' \in 0 .. MaxEvents
    BY CredAssumption DEF Surroundings, Age, DialFails, RestEnds, Switch, Delete, Upload, Add,
       ClearFailure, ClearQuota, CreateAPIKey, LimitReached, Invalidated, OperatorRefresh, FinishLogin
  <1>2. ReqType'
    BY <1>1 DEF ReqType
  <1>3. ModelType'
    <2>1. CASE Age
      BY <2>1 DEF Age, ModelType, CatalogRec
    <2>2. CASE UNCHANGED modelVars
      BY <2>2 DEF modelVars, ModelType
    <2> QED
      BY <2>1, <2>2 DEF Surroundings, DialFails, RestEnds, Switch, Delete, Upload, Add,
         ClearFailure, ClearQuota, CreateAPIKey, LimitReached, Invalidated, OperatorRefresh, FinishLogin
  <1>4. BearerType'
    <2> USE DEF BearerType
    <2>1. ASSUME NEW s \in Sub, Invalidated(s) \/ OperatorRefresh(s) \/ FinishLogin(s) PROVE BearerType'
      BY <2>1 DEF Invalidated, OperatorRefresh, FinishLogin, Add
    <2>2. CASE UNCHANGED bearerVars
      BY <2>2 DEF bearerVars
    <2> QED
      BY <2>1, <2>2 DEF Surroundings, bearerVars, Age, DialFails, RestEnds, Switch, Delete, Upload,
         Add, ClearFailure, ClearQuota, CreateAPIKey, LimitReached
  <1>5. HealthType'
    <2> USE DEF HealthType, Cred, poolVars, healthVars
    <2>1. CASE Age
      BY <2>1 DEF Age
    <2>2. ASSUME NEW c \in Cred, NEW why \in {"rest", "strike"}, DialFails(c, why) PROVE HealthType'
      BY <2>2, FaultKeeps DEF DialFails
    <2>3. ASSUME NEW c \in Cred,
                 RestEnds(c) \/ Switch(c) \/ Delete(c) \/ ClearFailure(c) \/ ClearQuota(c)
          PROVE  HealthType'
      BY <2>3 DEF RestEnds, Switch, Delete, ClearFailure, ClearQuota
    <2>4. ASSUME NEW c \in Cred, Upload(c) PROVE HealthType'
      BY <2>4 DEF Upload, Add
    <2>5. ASSUME NEW k \in Key, CreateAPIKey(k) PROVE HealthType'
      BY <2>5 DEF CreateAPIKey, Add
    <2>6. ASSUME NEW s \in Sub,
                 LimitReached(s) \/ Invalidated(s) \/ OperatorRefresh(s) \/ FinishLogin(s)
          PROVE  HealthType'
      BY <2>6 DEF LimitReached, Invalidated, OperatorRefresh, FinishLogin, Add, Enabled
    <2> QED BY <2>1, <2>2, <2>3, <2>4, <2>5, <2>6 DEF Surroundings
  <1> QED BY <1>1, <1>2, <1>3, <1>4, <1>5, TypePartsNext

LEMMA TypeInit == CredInit => CredTypeOK
  <1> SUFFICES ASSUME CredInit PROVE CredTypeOK
    OBVIOUS
  <1>1. Blank \in ReqRec /\ Idle \in ProbeRec
    BY DEF Blank, ReqRec, Stages, Idle, ProbeRec
  <1>2. ReqType
    BY <1>1 DEF CredInit, ReqType
  <1>3. HealthType /\ BearerType /\ events \in 0 .. MaxEvents
    BY CredAssumption DEF CredInit, HealthType, BearerType, Cred
  <1>4. ModelType
    BY <1>1 DEF CredInit, ModelType, CatalogRec
  <1> QED BY <1>2, <1>3, <1>4, TypeParts

LEMMA TypeKept ==
  ASSUME CredTypeOK, GateInv, [CredNext]_credVars
  PROVE  CredTypeOK'
  <1>1. CASE UNCHANGED credVars
    BY <1>1 DEF CredTypeOK, credVars, bearerVars, healthVars, modelVars, poolVars
  <1>2. ASSUME NEW r \in Request, Serves(r) PROVE CredTypeOK'
    <2>1. events' \in 0 .. MaxEvents
      BY <1>2, TypeParts DEF Serves
    <2> QED BY <1>2, <2>1, TypeParts, TypePartsNext, ReqTypeKept, HealthTypeKept, BearerTypeKept, ModelTypeKept
  <1> QED BY <1>1, <1>2, ProbesType, SurroundingsType DEF CredNext

-----------------------------------------------------------------------------
(***************************************************************************)
(* Bearers.                                                                *)
(***************************************************************************)
BearerInv == GateInv /\ MintInv

\* More rejections, or a newer bearer, only make more of them replaced.
LEMMA MoreReplaced ==
  ASSUME BearerType, BearerType', MintInv, NEW s \in Sub, NEW v,
         rejected[s] \subseteq rejected'[s], IsFiniteSet(rejected'[s]), bearer[s] <= bearer'[s]
  PROVE  /\ IsFiniteSet(Replaced(s)')
         /\ Cardinality(Replaced(s)) <= Cardinality(Replaced(s)')
         /\ Cardinality(Replaced(s) \cup {v}) <= Cardinality(Replaced(s)' \cup {v})
         /\ Cardinality(Replaced(s)) \in Nat /\ Cardinality(Replaced(s)') \in Nat
         /\ Cardinality(Replaced(s) \cup {v}) \in Nat /\ Cardinality(Replaced(s)' \cup {v}) \in Nat
  <1>1. Replaced(s) \subseteq Replaced(s)'
    BY DEF BearerType, Replaced
  <1>2. Replaced(s)' \subseteq rejected'[s]
    BY DEF Replaced
  <1>3. IsFiniteSet(Replaced(s)')
    BY <1>2, FS_Subset
  <1>4. IsFiniteSet(Replaced(s)' \cup {v})
    BY <1>3, FS_AddElement
  <1>5. Replaced(s) \cup {v} \subseteq Replaced(s)' \cup {v}
    BY <1>1
  <1>6. IsFiniteSet(Replaced(s)) /\ IsFiniteSet(Replaced(s) \cup {v})
    BY <1>1, <1>3, <1>4, <1>5, FS_Subset
  <1> QED BY <1>1, <1>3, <1>4, <1>5, <1>6, FS_Subset, FS_CardinalityType

LEMMA ReplacedFinite ==
  ASSUME MintInv, NEW s \in Sub
  PROVE  IsFiniteSet(Replaced(s)) /\ Cardinality(Replaced(s)) \in Nat
  <1>1. Replaced(s) \subseteq rejected[s]
    BY DEF Replaced
  <1> QED BY <1>1, FS_Subset, FS_CardinalityType DEF MintInv

LEMMA MintInvKept ==
  ASSUME BearerType, BearerType', MintInv,
         NEW s \in Sub, forced' = forced,
         rejected[s] \subseteq rejected'[s], IsFiniteSet(rejected'[s]), bearer[s] <= bearer'[s],
         \/ gate'[s] = 0
         \/ gate'[s] # 0 /\ req'[gate'[s]].stage # "minting"
         \/ gate'[s] = gate[s] /\ req'[gate[s]].stage = req[gate[s]].stage
              /\ req'[gate[s]].seen = req[gate[s]].seen
  PROVE  /\ IsFiniteSet(rejected'[s])
         /\ forced'[s] <= Cardinality(Replaced(s)')
         /\ gate'[s] # 0 /\ req'[gate'[s]].stage = "minting" =>
              forced'[s] < Cardinality(Replaced(s)' \cup {req'[gate'[s]].seen})
  <1>1. /\ forced'[s] <= Cardinality(Replaced(s)') /\ forced'[s] \in Nat
        /\ Cardinality(Replaced(s)') \in Nat
    <2>1. forced[s] \in Nat /\ forced[s] <= Cardinality(Replaced(s))
      BY DEF MintInv, BearerType
    <2>2. /\ Cardinality(Replaced(s)) <= Cardinality(Replaced(s)')
          /\ Cardinality(Replaced(s)) \in Nat /\ Cardinality(Replaced(s)') \in Nat
      BY MoreReplaced
    <2> QED BY <2>1, <2>2
  <1>2. ASSUME gate'[s] # 0, req'[gate'[s]].stage = "minting"
        PROVE  forced'[s] < Cardinality(Replaced(s)' \cup {req'[gate'[s]].seen})
    <2> DEFINE v == req[gate[s]].seen
    <2>1. gate'[s] = gate[s] /\ req[gate[s]].stage = "minting" /\ req'[gate'[s]].seen = v
      BY <1>2
    <2>2. forced[s] < Cardinality(Replaced(s) \cup {v})
      BY <1>2, <2>1 DEF MintInv
    <2>3. /\ Cardinality(Replaced(s) \cup {v}) <= Cardinality(Replaced(s)' \cup {v})
          /\ Cardinality(Replaced(s) \cup {v}) \in Nat /\ Cardinality(Replaced(s)' \cup {v}) \in Nat
      BY MoreReplaced
    <2>4. forced[s] < Cardinality(Replaced(s)' \cup {v})
      BY <1>1, <2>2, <2>3
    <2> QED BY <2>1, <2>4
  <1> QED BY <1>1, <1>2

LEMMA QuietKeeps ==
  ASSUME ReqType, BearerType, BearerType', BearerInv, NEW r \in Request, Quiet(r)
  PROVE  BearerInv'
  <1>1. PICK x \in ReqRec :
          /\ Became(r, x) /\ x.stage \notin Asking
          /\ x.cred = 0 \/ (x.cred = req[r].cred /\ x.seen = req[r].seen)
    BY DEF Quiet
  <1>2. UNCHANGED <<bearer, taken, gate, rejected, forced>> /\ 0 \notin Sub
    BY CredAssumption DEF Quiet, bearerVars, Cred
  <1>3. \A s \in Sub : gate[s] # r
    BY CredAssumption DEF Quiet, BearerInv, GateInv
  <1>4. GateInv'
    BY <1>1, <1>2, <1>3 DEF BearerInv, GateInv, Became, Asking, BearerType
  <1>5. ASSUME NEW s \in Sub, gate[s] # 0 PROVE req'[gate[s]] = req[gate[s]]
    BY <1>1, <1>3, <1>5 DEF Became, BearerType
  <1>6. ASSUME NEW s \in Sub PROVE IsFiniteSet(rejected'[s]) /\ bearer[s] <= bearer'[s]
    <2>1. IsFiniteSet(rejected'[s])
      BY <1>2 DEF BearerInv, MintInv
    <2>2. bearer[s] <= bearer'[s]
      BY <1>2 DEF BearerType
    <2> QED BY <2>1, <2>2
  <1>7. MintInv'
    BY <1>2, <1>5, <1>6, MintInvKept DEF MintInv, BearerInv
  <1> QED BY <1>4, <1>7 DEF BearerInv

LEMMA SendKeeps ==
  ASSUME ReqType, BearerType, BearerType', BearerInv, NEW r \in Request, NEW c \in Cred, Sends(r, c)
  PROVE  BearerInv'
  <1>1. PICK x \in ReqRec :
          Became(r, x) /\ x.stage = "sent" /\ x.cred = c /\ (c \in Sub => x.seen = bearer[c])
    BY DEF Sends
  <1>2. UNCHANGED <<bearer, taken, gate, rejected, forced>>
    BY DEF Sends, bearerVars
  <1>3. \A s \in Sub : gate[s] # r
    BY CredAssumption DEF Sends, BearerInv, GateInv
  <1>4. GateInv'
    BY <1>1, <1>2, <1>3 DEF BearerInv, GateInv, Became, Asking, BearerType
  <1>5. ASSUME NEW s \in Sub, gate[s] # 0 PROVE req'[gate[s]] = req[gate[s]]
    BY <1>1, <1>3, <1>5 DEF Became, BearerType
  <1>6. ASSUME NEW s \in Sub PROVE IsFiniteSet(rejected'[s]) /\ bearer[s] <= bearer'[s]
    <2>1. IsFiniteSet(rejected'[s])
      BY <1>2 DEF BearerInv, MintInv
    <2>2. bearer[s] <= bearer'[s]
      BY <1>2 DEF BearerType
    <2> QED BY <2>1, <2>2
  <1>7. MintInv'
    BY <1>2, <1>5, <1>6, MintInvKept DEF MintInv, BearerInv
  <1> QED BY <1>4, <1>7 DEF BearerInv

\* Moving on within the treatment of a rejection.
LEMMA MovesOn ==
  ASSUME ReqType, NEW r \in Request, NEW st \in Stages, To(r, st)
  PROVE  /\ req'[r].stage = st /\ req'[r].cred = req[r].cred /\ req'[r].seen = req[r].seen
         /\ \A q \in Request \ {r} : req'[q] = req[q]
  <1>1. Became(r, [req[r] EXCEPT !.stage = st])
    BY ToBecomes
  <1> QED BY <1>1 DEF Became, ReqType, ReqRec

LEMMA RejectedKeeps ==
  ASSUME ReqType, BearerType, BearerType', BearerInv, NEW r \in Request, Rejected(r)
  PROVE  BearerInv'
  <1> DEFINE s == req[r].cred
  <1>1. /\ s \in Sub /\ req[r].stage = "sent"
        /\ rejected' = [rejected EXCEPT ![s] = @ \cup {req[r].seen}]
        /\ UNCHANGED <<bearer, taken, gate, forced>>
        /\ To(r, "routed") \/ To(r, "rejected")
    BY DEF Rejected
  <1>2. /\ req'[r].stage \in {"routed", "rejected"}
        /\ req'[r].cred = s /\ req'[r].seen = req[r].seen
        /\ \A q \in Request \ {r} : req'[q] = req[q]
    BY <1>1, MovesOn DEF Stages
  <1>3. \A u \in Sub : gate[u] # r
    BY <1>1, CredAssumption DEF BearerInv, GateInv
  <1>4. /\ \A u \in Sub : rejected[u] \subseteq rejected'[u]
        /\ req[r].seen \in rejected'[s]
    BY <1>1 DEF BearerType
  <1>5. GateInv'
    BY <1>1, <1>2, <1>3, <1>4 DEF BearerInv, GateInv, Asking, BearerType
  <1>6. ASSUME NEW u \in Sub PROVE IsFiniteSet(rejected'[u])
    <2>1. IsFiniteSet(rejected[u])
      BY DEF BearerInv, MintInv
    <2>2. IsFiniteSet(rejected[u] \cup {req[r].seen})
      BY <2>1, FS_AddElement
    <2>3. rejected'[u] \in {rejected[u], rejected[u] \cup {req[r].seen}}
      BY <1>1 DEF BearerType
    <2> QED BY <2>1, <2>2, <2>3
  <1>7. ASSUME NEW u \in Sub, gate[u] # 0 PROVE req'[gate[u]] = req[gate[u]]
    BY <1>2, <1>3, <1>7 DEF BearerType
  <1>8. \A u \in Sub : bearer[u] <= bearer'[u]
    BY <1>1 DEF BearerType
  <1>9. MintInv'
    BY <1>1, <1>4, <1>6, <1>7, <1>8, MintInvKept DEF MintInv, BearerInv
  <1> QED BY <1>5, <1>9 DEF BearerInv

LEMMA EnterKeeps ==
  ASSUME ReqType, BearerType, BearerType', BearerInv, NEW r \in Request, EnterGate(r)
  PROVE  BearerInv'
  <1> DEFINE s == req[r].cred
  <1>1. /\ req[r].stage = "rejected" /\ gate[s] = 0 /\ gate' = [gate EXCEPT ![s] = r]
        /\ UNCHANGED <<bearer, taken, rejected, forced>> /\ To(r, "gated")
        /\ s \in Sub
    BY DEF EnterGate, BearerInv, GateInv, Asking
  <1>2. /\ req'[r].stage = "gated" /\ req'[r].cred = s /\ req'[r].seen = req[r].seen
        /\ \A q \in Request \ {r} : req'[q] = req[q]
    BY <1>1, MovesOn DEF Stages
  <1>3. \A u \in Sub : gate[u] # r
    BY <1>1, CredAssumption DEF BearerInv, GateInv
  <1>4. GateInv'
    BY <1>1, <1>2, <1>3, CredAssumption DEF BearerInv, GateInv, Asking, BearerType
  <1>5. ASSUME NEW u \in Sub
        PROVE  \/ gate'[u] # 0 /\ req'[gate'[u]].stage # "minting"
               \/ gate'[u] = 0
               \/ gate'[u] = gate[u] /\ req'[gate[u]] = req[gate[u]]
    BY <1>1, <1>2, <1>3, CredAssumption DEF BearerType
  <1>6. ASSUME NEW u \in Sub PROVE IsFiniteSet(rejected'[u]) /\ bearer[u] <= bearer'[u]
    <2>1. IsFiniteSet(rejected'[u])
      BY <1>1 DEF BearerInv, MintInv
    <2>2. bearer[u] <= bearer'[u]
      BY <1>1 DEF BearerType
    <2> QED BY <2>1, <2>2
  <1>7. MintInv'
    BY <1>1, <1>5, <1>6, MintInvKept DEF MintInv, BearerInv
  <1> QED BY <1>4, <1>7 DEF BearerInv

LEMMA CompareKeeps ==
  ASSUME ReqType, BearerType, BearerType', BearerInv, NEW r \in Request, Compare(r)
  PROVE  BearerInv'
  <1>0. PICK s \in Sub : s = req[r].cred
    BY DEF Compare, BearerInv, GateInv, Asking
  <1>1. /\ req[r].stage = "gated" /\ UNCHANGED <<bearer, taken, rejected, forced>>
        /\ gate[s] = r /\ req[r].seen \in rejected[s]
    BY <1>0 DEF Compare, BearerInv, GateInv, Asking
  <1>2. \A u \in Sub \ {s} : gate[u] # r
    BY <1>0, <1>1, CredAssumption DEF BearerInv, GateInv
  <1>3. ASSUME NEW u \in Sub PROVE IsFiniteSet(rejected'[u]) /\ bearer[u] <= bearer'[u]
    <2>1. IsFiniteSet(rejected'[u])
      BY <1>1 DEF BearerInv, MintInv
    <2>2. bearer[u] <= bearer'[u]
      BY <1>1 DEF BearerType
    <2> QED BY <2>1, <2>2
  <1>4. CASE bearer[s] # req[r].seen
    <2>1. To(r, "routed") /\ gate' = [gate EXCEPT ![s] = 0]
      BY <1>0, <1>4 DEF Compare
    <2>2. /\ req'[r].stage = "routed" /\ req'[r].cred = s /\ req'[r].seen = req[r].seen
          /\ \A q \in Request \ {r} : req'[q] = req[q]
      BY <1>0, <2>1, MovesOn DEF Stages
    <2>3. GateInv'
      BY <1>0, <1>1, <1>2, <2>1, <2>2 DEF BearerInv, GateInv, Asking, BearerType
    <2>4. ASSUME NEW u \in Sub
          PROVE  gate'[u] = 0 \/ (gate'[u] = gate[u] /\ req'[gate[u]] = req[gate[u]])
      BY <1>2, <2>1, <2>2 DEF BearerType
    <2>5. MintInv'
      BY <1>1, <1>3, <2>4, MintInvKept DEF MintInv, BearerInv
    <2> QED BY <2>3, <2>5 DEF BearerInv
  <1>5. CASE bearer[s] = req[r].seen
    <2>1. To(r, "minting") /\ gate' = gate
      BY <1>0, <1>5 DEF Compare, BearerType
    <2>2. /\ req'[r].stage = "minting" /\ req'[r].cred = s /\ req'[r].seen = req[r].seen
          /\ \A q \in Request \ {r} : req'[q] = req[q]
      BY <1>0, <2>1, MovesOn DEF Stages
    <2>3. GateInv'
      BY <1>0, <1>1, <1>2, <2>1, <2>2 DEF BearerInv, GateInv, Asking, BearerType
    <2>4. \A u \in Sub \ {s} : gate'[u] = 0 \/ (gate'[u] = gate[u] /\ req'[gate[u]] = req[gate[u]])
      BY <1>2, <2>1, <2>2 DEF BearerType
    <2>5. Replaced(s)' = Replaced(s) /\ req[r].seen \notin Replaced(s)
      <3>1. Replaced(s)' = Replaced(s)
        BY <1>1 DEF Replaced
      <3>2. bearer[s] \in Nat
        BY <1>1 DEF BearerType
      <3> QED BY <1>5, <3>1, <3>2 DEF Replaced
    <2>6. Cardinality(Replaced(s) \cup {req[r].seen}) = Cardinality(Replaced(s)) + 1
      BY <2>5, <1>1, ReplacedFinite, FS_AddElement DEF BearerInv
    <2>7. forced'[s] < Cardinality(Replaced(s)' \cup {req'[r].seen})
      <3>1. forced[s] <= Cardinality(Replaced(s)) /\ forced[s] \in Nat
        BY <1>1 DEF BearerInv, MintInv, BearerType
      <3>2. forced[s] < Cardinality(Replaced(s)) + 1
        BY <1>1, <3>1, ReplacedFinite DEF BearerInv
      <3> QED BY <1>1, <2>2, <2>5, <2>6, <3>2
    <2>8. MintInv'
      <3> SUFFICES ASSUME NEW u \in Sub
                   PROVE  /\ IsFiniteSet(rejected'[u])
                          /\ forced'[u] <= Cardinality(Replaced(u)')
                          /\ gate'[u] # 0 /\ req'[gate'[u]].stage = "minting" =>
                               forced'[u] < Cardinality(Replaced(u)' \cup {req'[gate'[u]].seen})
        BY DEF MintInv
      <3>1. CASE u = s
        <4>1. forced[s] <= Cardinality(Replaced(s))
          BY <1>1 DEF BearerInv, MintInv
        <4> QED BY <1>1, <1>3, <2>1, <2>5, <2>7, <3>1, <4>1
      <3>2. CASE u # s
        BY <1>1, <1>3, <2>4, <3>2, MintInvKept DEF BearerInv
      <3> QED BY <3>1, <3>2
    <2> QED BY <2>3, <2>8 DEF BearerInv
  <1> QED BY <1>4, <1>5

LEMMA MintKeeps ==
  ASSUME ReqType, BearerType, BearerType', BearerInv, NEW r \in Request, Mint(r)
  PROVE  BearerInv'
  <1>0. PICK s \in Sub : s = req[r].cred
    BY DEF Mint, BearerInv, GateInv, Asking
  <1> DEFINE v == req[r].seen
  <1>1. /\ req[r].stage = "minting" /\ gate[s] = r /\ v \in rejected[s] /\ v <= bearer[s]
        /\ v \in Nat /\ bearer[s] \in Nat
    BY <1>0, CredOf DEF Mint, BearerInv, GateInv, Asking, BearerType
  <1>2. /\ bearer' = [bearer EXCEPT ![s] = @ + 1] /\ forced' = [forced EXCEPT ![s] = @ + 1]
        /\ gate' = [gate EXCEPT ![s] = 0] /\ UNCHANGED <<taken, rejected>> /\ To(r, "routed")
    BY <1>0 DEF Mint
  <1>3. /\ req'[r].stage = "routed" /\ req'[r].cred = s /\ req'[r].seen = v
        /\ \A q \in Request \ {r} : req'[q] = req[q]
    BY <1>0, <1>2, MovesOn DEF Stages
  <1>4. \A u \in Sub \ {s} : gate[u] # r
    BY <1>0, <1>1, CredAssumption DEF BearerInv, GateInv
  <1>5. GateInv'
    <2>1. \A u \in Sub : gate'[u] # 0 =>
            gate'[u] = gate[u] /\ gate[u] # r /\ gate[u] \in Request
      BY <1>2, <1>4 DEF BearerType
    <2>2. \A q \in Request : /\ req'[q].cred = req[q].cred /\ req'[q].seen = req[q].seen
                             /\ req'[q].stage \in Asking => req'[q] = req[q] /\ q # r
      BY <1>0, <1>3 DEF Asking
    <2>3. ASSUME NEW q \in Request, req'[q].cred \in Sub PROVE req'[q].seen <= bearer'[req'[q].cred]
      <3>1. req[q].seen <= bearer[req[q].cred] /\ req[q].seen \in Nat
        BY <2>2, <2>3, CredOf DEF BearerInv, GateInv
      <3>2. bearer[req[q].cred] \in Nat /\ bearer'[req[q].cred] \in {bearer[req[q].cred], bearer[req[q].cred] + 1}
        BY <1>2, <2>2, <2>3 DEF BearerType
      <3> QED BY <2>2, <3>1, <3>2
    <2>4. ASSUME NEW q \in Request, req'[q].stage \in {"gated", "minting"} PROVE gate'[req'[q].cred] = q
      <3>1. req'[q] = req[q] /\ q # r
        BY <2>2, <2>4 DEF Asking
      <3>2. gate[req[q].cred] = q /\ req[q].cred # s
        BY <1>1, <2>4, <3>1 DEF BearerInv, GateInv
      <3> QED BY <1>2, <3>1, <3>2 DEF BearerType
    <2>5. ASSUME NEW q \in Request, req'[q].stage \in Asking
          PROVE  req'[q].cred \in Sub /\ req'[q].seen \in rejected'[req'[q].cred]
      BY <1>2, <2>2, <2>5 DEF BearerInv, GateInv
    <2>6. ASSUME NEW u \in Sub, gate'[u] # 0
          PROVE  req'[gate'[u]].cred = u /\ req'[gate'[u]].stage \in {"gated", "minting"}
      BY <1>3, <2>1, <2>6 DEF BearerInv, GateInv
    <2> QED BY <2>3, <2>4, <2>5, <2>6 DEF GateInv
  <1>6. ASSUME NEW u \in Sub PROVE IsFiniteSet(rejected'[u])
    BY <1>2 DEF BearerInv, MintInv
  <1>7. ASSUME NEW u \in Sub PROVE bearer[u] <= bearer'[u]
    BY <1>2 DEF BearerType
  <1>8. forced'[s] <= Cardinality(Replaced(s)')
    <2>1. Replaced(s) \cup {v} \subseteq Replaced(s)'
      BY <1>1, <1>2 DEF Replaced, BearerType
    <2>2. Replaced(s)' \cup {v} = Replaced(s)'
      BY <2>1
    <2>3. forced[s] < Cardinality(Replaced(s) \cup {v}) /\ forced[s] \in Nat
      BY <1>1, CredAssumption DEF BearerInv, MintInv, BearerType
    <2>4. /\ Cardinality(Replaced(s) \cup {v}) <= Cardinality(Replaced(s)' \cup {v})
          /\ Cardinality(Replaced(s) \cup {v}) \in Nat /\ Cardinality(Replaced(s)' \cup {v}) \in Nat
      BY <1>2, <1>6, <1>7, MoreReplaced DEF BearerInv
    <2>5. forced'[s] = forced[s] + 1
      BY <1>2 DEF BearerType
    <2>6. forced[s] + 1 <= Cardinality(Replaced(s)' \cup {v})
      BY <2>3, <2>4
    <2> QED BY <2>2, <2>5, <2>6
  <1>9. MintInv'
    <2> SUFFICES ASSUME NEW u \in Sub
                 PROVE  /\ IsFiniteSet(rejected'[u])
                        /\ forced'[u] <= Cardinality(Replaced(u)')
                        /\ gate'[u] # 0 /\ req'[gate'[u]].stage = "minting" =>
                             forced'[u] < Cardinality(Replaced(u)' \cup {req'[gate'[u]].seen})
      BY DEF MintInv
    <2>1. CASE u = s
      <3>1. gate'[s] = 0
        BY <1>2 DEF BearerType
      <3> QED BY <1>6, <1>8, <2>1, <3>1
    <2>2. CASE u # s
      <3>1. gate'[u] = gate[u] /\ forced'[u] = forced[u] /\ bearer'[u] = bearer[u]
            /\ rejected'[u] = rejected[u]
        BY <1>2, <2>2 DEF BearerType
      <3>2. Replaced(u)' = Replaced(u)
        BY <3>1 DEF Replaced
      <3>3. gate[u] # 0 => req'[gate[u]] = req[gate[u]]
        BY <1>3, <1>4, <2>2 DEF BearerType
      <3>4. /\ IsFiniteSet(rejected[u]) /\ forced[u] <= Cardinality(Replaced(u))
            /\ gate[u] # 0 /\ req[gate[u]].stage = "minting" =>
                 forced[u] < Cardinality(Replaced(u) \cup {req[gate[u]].seen})
        BY DEF BearerInv, MintInv
      <3> QED BY <3>1, <3>2, <3>3, <3>4
    <2> QED BY <2>1, <2>2
  <1> QED BY <1>5, <1>9 DEF BearerInv

LEMMA MintFailsKeeps ==
  ASSUME ReqType, BearerType, BearerType', BearerInv, NEW r \in Request,
         NEW dead \in BOOLEAN, MintFails(r, dead)
  PROVE  BearerInv'
  <1>0. PICK s \in Sub : s = req[r].cred
    BY DEF MintFails, BearerInv, GateInv, Asking
  <1>1. /\ req[r].stage = "minting" /\ gate[s] = r
        /\ gate' = [gate EXCEPT ![s] = 0] /\ UNCHANGED <<bearer, taken, rejected, forced>>
        /\ To(r, "routed")
    BY <1>0 DEF MintFails, BearerInv, GateInv
  <1>2. /\ req'[r].stage = "routed" /\ req'[r].cred = s /\ req'[r].seen = req[r].seen
        /\ \A q \in Request \ {r} : req'[q] = req[q]
    BY <1>0, <1>1, MovesOn DEF Stages
  <1>3. \A u \in Sub \ {s} : gate[u] # r
    BY <1>0, <1>1, CredAssumption DEF BearerInv, GateInv
  <1>4. GateInv'
    BY <1>0, <1>1, <1>2, <1>3 DEF BearerInv, GateInv, Asking, BearerType
  <1>5. ASSUME NEW u \in Sub
        PROVE  gate'[u] = 0 \/ (gate'[u] = gate[u] /\ req'[gate[u]] = req[gate[u]])
    BY <1>1, <1>2, <1>3 DEF BearerType
  <1>6. ASSUME NEW u \in Sub PROVE IsFiniteSet(rejected'[u]) /\ bearer[u] <= bearer'[u]
    <2>1. IsFiniteSet(rejected'[u])
      BY <1>1 DEF BearerInv, MintInv
    <2>2. bearer[u] <= bearer'[u]
      BY <1>1 DEF BearerType
    <2> QED BY <2>1, <2>2
  <1>7. MintInv'
    BY <1>1, <1>5, <1>6, MintInvKept DEF MintInv, BearerInv
  <1> QED BY <1>4, <1>7 DEF BearerInv

LEMMA ElsewhereKeeps ==
  ASSUME ReqType, BearerType, BearerType', BearerInv, Probes \/ Surroundings \/ UNCHANGED credVars
  PROVE  BearerInv'
  <1>1. UNCHANGED <<req, gate, rejected, forced>>
    BY DEF Probes, Publish, ProbeAnswers, ProbeFails, credVars, bearerVars, Surroundings, Age,
       DialFails, RestEnds, Switch, Delete, Upload, Add, ClearFailure, ClearQuota, CreateAPIKey,
       LimitReached, Invalidated, OperatorRefresh, FinishLogin
  <1>2. ASSUME NEW u \in Sub PROVE bearer[u] <= bearer'[u]
    <2>1. CASE UNCHANGED bearer
      BY <2>1 DEF BearerType
    <2>2. ASSUME NEW s \in Sub, OperatorRefresh(s) \/ FinishLogin(s) PROVE bearer[u] <= bearer'[u]
      BY <2>2 DEF BearerType, OperatorRefresh, FinishLogin
    <2> QED
      BY <2>1, <2>2 DEF Probes, Publish, ProbeAnswers, ProbeFails, credVars, bearerVars,
         Surroundings, Age, DialFails, RestEnds, Switch, Delete, Upload, Add, ClearFailure,
         ClearQuota, CreateAPIKey, LimitReached, Invalidated
  <1>3. GateInv'
    <2> SUFFICES ASSUME NEW r \in Request, req[r].cred \in Sub
                 PROVE  req[r].seen <= bearer'[req[r].cred]
      BY <1>1 DEF BearerInv, GateInv
    <2>1. req[r].seen <= bearer[req[r].cred] /\ bearer[req[r].cred] <= bearer'[req[r].cred]
      BY <1>2 DEF BearerInv, GateInv
    <2> QED BY <2>1, CredOf DEF BearerType
  <1>4. ASSUME NEW u \in Sub PROVE IsFiniteSet(rejected'[u])
    BY <1>1 DEF BearerInv, MintInv
  <1>5. MintInv'
    BY <1>1, <1>2, <1>4, MintInvKept DEF MintInv, BearerInv
  <1> QED BY <1>3, <1>5 DEF BearerInv

LEMMA BearersKept ==
  ASSUME CredTypeOK, CredTypeOK', BearerInv, [CredNext]_credVars
  PROVE  BearerInv'
  <1>1. ReqType /\ BearerType
    BY TypeParts
  <1>2. BearerType'
    BY DEF CredTypeOK, BearerType
  <1>3. ASSUME NEW r \in Request, Serves(r) PROVE BearerInv'
    BY <1>1, <1>2, <1>3, ServesShape, QuietKeeps, SendKeeps, RejectedKeeps, EnterKeeps,
       CompareKeeps, MintKeeps, MintFailsKeeps
  <1> QED BY <1>1, <1>2, <1>3, ElsewhereKeeps DEF CredNext

LEMMA BearersInit == CredInit => BearerInv
  <1> SUFFICES ASSUME CredInit PROVE BearerInv
    OBVIOUS
  <1>1. GateInv
    BY CredAssumption DEF CredInit, GateInv, Asking, Blank, Cred
  <1>2. \A s \in Sub : rejected[s] = {} /\ gate[s] = 0 /\ forced[s] = 0 /\ Replaced(s) = {}
    BY DEF CredInit, Replaced
  <1>3. MintInv
    BY <1>2, FS_EmptySet DEF MintInv
  <1> QED BY <1>1, <1>3 DEF BearerInv

\* The beliefs are well typed, and every forced mint answers a bearer that was
\* refused and is replaced, or is being replaced now (codex_auth_reject.go).
THEOREM BearerInvariant == CredSpec => [](CredTypeOK /\ BearerInv)
  <1>1. CredInit => CredTypeOK /\ BearerInv
    BY TypeInit, BearersInit
  <1>2. CredTypeOK /\ BearerInv /\ [CredNext]_credVars => (CredTypeOK /\ BearerInv)'
    BY TypeKept, BearersKept DEF BearerInv
  <1> QED BY <1>1, <1>2, PTL DEF CredSpec

\* However many requests are refused the same bearer, and whatever operators
\* do meanwhile, one mint is forced for it (recoverRejectedToken).
THEOREM OneMintPerBearer == CredSpec => []ForcedOncePerBearer
  <1>1. CredTypeOK /\ BearerInv => ForcedOncePerBearer
    <2> SUFFICES ASSUME CredTypeOK, BearerInv, NEW s \in Sub
                 PROVE  forced[s] <= Cardinality(rejected[s])
      BY DEF ForcedOncePerBearer
    <2>1. forced[s] \in Nat /\ forced[s] <= Cardinality(Replaced(s)) /\ IsFiniteSet(rejected[s])
      BY DEF CredTypeOK, BearerInv, MintInv
    <2>2. Replaced(s) \subseteq rejected[s]
      BY DEF Replaced
    <2>3. Cardinality(Replaced(s)) <= Cardinality(rejected[s])
      BY <2>1, <2>2, FS_Subset
    <2> QED BY <2>1, <2>3, ReplacedFinite, FS_CardinalityType DEF BearerInv
  <1> QED BY <1>1, BearerInvariant, PTL

-----------------------------------------------------------------------------
(***************************************************************************)
(* The catalogue.                                                          *)
(***************************************************************************)
\* Nobody but Look makes a request look, and it has keys to ask then.
LEMMA LookingKept ==
  ASSUME CredTypeOK, BearerInv, GuardInv, [CredNext]_credVars,
         NEW q \in Request, req'[q].stage = "looking"
  PROVE  req'[q].keys # {}
  <1>0. ReqType /\ BearerType
    BY TypeParts
  <1>1. CASE UNCHANGED req
    BY <1>1 DEF GuardInv
  <1>2. ASSUME NEW r \in Request, Quiet(r) PROVE req'[q].keys # {}
    BY <1>2 DEF Quiet, Became, GuardInv
  <1>3. ASSUME NEW r \in Request, NEW c \in Cred, Sends(r, c) PROVE req'[q].keys # {}
    BY <1>3 DEF Sends, Became, GuardInv
  <1>4. ASSUME NEW r \in Request, NEW st \in Stages \ {"looking"}, To(r, st)
        PROVE  req'[q].keys # {}
    BY <1>0, <1>4, MovesOn DEF GuardInv
  <1>5. ASSUME NEW r \in Request, Serves(r) PROVE req'[q].keys # {}
    BY <1>0, <1>2, <1>3, <1>4, <1>5, ServesShape
       DEF Rejected, EnterGate, Compare, Mint, MintFails, Stages
  <1>6. CASE Probes \/ Surroundings \/ UNCHANGED credVars
    <2>1. UNCHANGED req
      BY <1>6 DEF Probes, Publish, ProbeAnswers, ProbeFails, credVars, Surroundings, Age,
         DialFails, RestEnds, Switch, Delete, Upload, Add, ClearFailure, ClearQuota, CreateAPIKey,
         LimitReached, Invalidated, OperatorRefresh, FinishLogin
    <2> QED BY <2>1, <1>1
  <1> QED BY <1>5, <1>6 DEF CredNext

LEMMA AdvertisedOne ==
  ASSUME NEW K, NEW k
  PROVE  Advertised(K \cup {k}) = Advertised(K) \cup Offers[k]
  BY DEF Advertised

\* What is known of the relays changes in four places only.
Asks(r) ==
  /\ req[r].stage = "looking"
  /\ probe' = [on |-> TRUE, todo |-> req[r].keys, of |-> req[r].keys, names |-> {}]
  /\ catalog' = [catalog EXCEPT !.cooled = FALSE] /\ polled' = polled

LEMMA ModelSteps ==
  ASSUME [CredNext]_credVars
  PROVE  \/ UNCHANGED modelVars
         \/ \E r \in Request : Asks(r)
         \/ Publish \/ Age \/ \E k \in Key : ProbeAnswers(k) \/ ProbeFails(k)
  <1>1. ASSUME NEW r \in Request, Serves(r) PROVE UNCHANGED modelVars \/ Asks(r)
    BY <1>1 DEF Serves, Look, Send, Exhausted, ClientFault, StatusLine, Whole, HangUp, CutShort,
       RelayFails, WithoutUsage, Rejected, EnterGate, Compare, Mint, MintFails, Consult, Asks,
       modelVars
  <1>2. CASE Surroundings
    BY <1>2 DEF Surroundings, DialFails, RestEnds, Switch, Delete, Upload, Add, ClearFailure,
       ClearQuota, CreateAPIKey, LimitReached, Invalidated, OperatorRefresh, FinishLogin
  <1> QED BY <1>1, <1>2 DEF CredNext, Probes, credVars, modelVars

LEMMA GuardKept ==
  ASSUME CredTypeOK, BearerInv, GuardInv, [CredNext]_credVars
  PROVE  GuardInv'
  <1>0. ModelType /\ \A r \in Request : req[r].keys \subseteq Key
    BY TypeParts, CredOf
  <1> DEFINE Known == catalog.known => polled # {} /\ catalog.names = Advertised(polled)
             Probed == /\ probe.todo # {} => probe.on
                       /\ probe.on => /\ probe.of # {} /\ probe.todo \subseteq probe.of
                                      /\ probe.names = Advertised(probe.of \ probe.todo)
  <1>1. CASE UNCHANGED modelVars
    BY <1>1, LookingKept DEF GuardInv, modelVars, Advertised
  <1>2. ASSUME NEW r \in Request, Asks(r) PROVE Known' /\ Probed'
    <2>1. req[r].keys # {} /\ Advertised(req[r].keys \ req[r].keys) = {}
      BY <1>2 DEF Asks, GuardInv, Advertised
    <2>2. Probed'
      <3>1. /\ probe'.on /\ probe'.todo = req[r].keys /\ probe'.of = req[r].keys
            /\ probe'.names = {}
        BY <1>2 DEF Asks
      <3> QED BY <2>1, <3>1 DEF Advertised
    <2>3. Known'
      BY <1>0, <1>2 DEF Asks, GuardInv, ModelType, CatalogRec, Advertised
    <2> QED BY <2>2, <2>3
  <1>3. CASE Publish
    <2>1. /\ probe' = Idle /\ polled' = probe.of /\ catalog'.names = probe.names
          /\ probe.on /\ probe.todo = {}
      <3>1. /\ probe' = Idle /\ polled' = probe.of /\ probe.on /\ probe.todo = {}
            /\ catalog' = [catalog EXCEPT !.known = TRUE, !.names = probe.names,
                                        !.stale = FALSE]
        BY <1>3 DEF Publish
      <3>2. catalog \in CatalogRec
        BY <1>0 DEF ModelType
      <3>3. catalog'.names = probe.names
        BY <3>1, <3>2 DEF CatalogRec
      <3> QED BY <3>1, <3>3
    <2>2. probe.of # {} /\ probe.names = Advertised(probe.of)
      BY <2>1 DEF GuardInv, Advertised
    <2> QED BY <2>1, <2>2, LookingKept DEF GuardInv, Idle, Advertised
  <1>4. CASE Age
    <2>1. catalog'.known = catalog.known /\ catalog'.names = catalog.names
      BY <1>0, <1>4 DEF Age, ModelType, CatalogRec
    <2>2. UNCHANGED <<probe, polled>>
      BY <1>4 DEF Age
    <2>3. Known' /\ Probed'
      BY <2>1, <2>2 DEF GuardInv, Advertised
    <2> QED BY <2>3, LookingKept DEF GuardInv
  <1>5. ASSUME NEW k \in Key, ProbeFails(k) PROVE GuardInv'
    BY <1>5, LookingKept DEF ProbeFails, GuardInv, Idle, Advertised
  <1>6. ASSUME NEW k \in Key, ProbeAnswers(k) PROVE GuardInv'
    <2>1. /\ probe.on /\ k \in probe.todo /\ UNCHANGED <<catalog, polled>>
          /\ probe'.on = probe.on /\ probe'.of = probe.of
          /\ probe'.todo = probe.todo \ {k} /\ probe'.names = probe.names \cup Offers[k]
      BY <1>0, <1>6 DEF ProbeAnswers, GuardInv, ModelType, ProbeRec
    <2>2. /\ probe.of # {} /\ probe.todo \subseteq probe.of
          /\ probe.names = Advertised(probe.of \ probe.todo)
      BY <2>1 DEF GuardInv
    <2>3. probe.of \ (probe.todo \ {k}) = (probe.of \ probe.todo) \cup {k}
      BY <2>1, <2>2
    <2>4. probe'.names = Advertised(probe'.of \ probe'.todo)
      <3>1. Advertised(probe'.of \ probe'.todo) = Advertised((probe.of \ probe.todo) \cup {k})
        BY <2>1, <2>3
      <3>2. Advertised((probe.of \ probe.todo) \cup {k})
              = Advertised(probe.of \ probe.todo) \cup Offers[k]
        BY AdvertisedOne, Zenon
      <3> QED BY <2>1, <2>2, <3>1, <3>2
    <2>5. Known'
      BY <2>1 DEF GuardInv, Advertised
    <2>6. Probed'
      BY <2>1, <2>2, <2>4 DEF Advertised
    <2> QED BY <2>5, <2>6, LookingKept DEF GuardInv
  <1> QED BY <1>1, <1>2, <1>3, <1>4, <1>5, <1>6, ModelSteps, LookingKept DEF GuardInv

\* What the catalogue says is what a whole round of relays said.
THEOREM CatalogInvariant == CredSpec => []GuardInv
  <1>1. CredInit => GuardInv
    <2> SUFFICES ASSUME CredInit PROVE GuardInv
      OBVIOUS
    <2>1. ~catalog.known /\ ~probe.on /\ probe.todo = {}
      BY DEF CredInit, Idle
    <2>2. ASSUME NEW r \in Request PROVE req[r].stage # "looking"
      BY DEF CredInit, Blank
    <2> QED BY <2>1, <2>2 DEF GuardInv
  <1>2. CredTypeOK /\ BearerInv /\ GuardInv /\ [CredNext]_credVars => GuardInv'
    BY GuardKept
  <1> QED BY <1>1, <1>2, BearerInvariant, PTL DEF CredSpec

\* The only way from "looking" to "refused".
LEMMA RefusalsComeFromConsult ==
  ASSUME CredTypeOK, BearerInv, CredNext, NEW q \in Request,
         req[q].stage = "looking", req'[q].stage = "refused"
  PROVE  Consult(q) /\ catalog.known /\ ~Servable(req[q].model, catalog.names)
  <1>0. ReqType
    BY TypeParts
  <1>1. PICK r \in Request : Serves(r)
    BY DEF CredNext, Probes, Publish, ProbeAnswers, ProbeFails, Surroundings, Age,
       DialFails, RestEnds, Switch, Delete, Upload, Add, ClearFailure, ClearQuota, CreateAPIKey,
       LimitReached, Invalidated, OperatorRefresh, FinishLogin
  <1>2. CASE r # q
    <2>1. req'[q] = req[q]
      BY <1>0, <1>1, <1>2 DEF ReqType, Serves, Look, Consult, Send, Exhausted, ClientFault, StatusLine,
         Whole, HangUp, CutShort, RelayFails, WithoutUsage, Rejected, EnterGate, Compare, Mint, MintFails,
         To, Ends
    <2> QED BY <2>1
  <1>3. CASE r = q
    <2>1. Consult(q)
      BY <1>1, <1>3 DEF Serves, Look, Send, Exhausted, ClientFault, StatusLine,
         Whole, HangUp, CutShort, RelayFails, WithoutUsage, Rejected, EnterGate, Compare, Mint, MintFails
    <2>2. CASE req' = [req EXCEPT ![q] = [Blank EXCEPT !.stage = "routed", !.keyOnly = TRUE]]
      BY <1>0, <2>2 DEF ReqType, Blank
    <2> QED BY <2>1, <2>2 DEF Consult
  <1> QED BY <1>2, <1>3

\* A model is refused only on the word of a whole round, none of which offers
\* it, for any number of relays and however their answers interleave with
\* failures (guardCodexModel, refreshAPIKeyModels).
THEOREM RefusalsAreInformed == CredSpec => RefusalIsInformed
  <1> DEFINE Informed ==
        \A r \in Request :
          (req[r].stage = "looking" /\ req'[r].stage = "refused") =>
            /\ polled # {}
            /\ \A k \in polled : ~Servable(req[r].model, Offers[k])
  <1>1. ASSUME CredTypeOK, BearerInv, GuardInv, CredNext PROVE Informed
    <2> SUFFICES ASSUME NEW r \in Request, req[r].stage = "looking", req'[r].stage = "refused"
                 PROVE  /\ polled # {}
                        /\ \A k \in polled : ~Servable(req[r].model, Offers[k])
      OBVIOUS
    <2>1. catalog.known /\ ~Servable(req[r].model, catalog.names)
      BY <1>1, RefusalsComeFromConsult
    <2>2. polled # {} /\ catalog.names = Advertised(polled)
      BY <1>1, <2>1 DEF GuardInv
    <2> QED BY <2>1, <2>2 DEF Servable, Advertised
  <1>2. CredTypeOK /\ BearerInv /\ GuardInv /\ [CredNext]_credVars => [Informed]_credVars
    BY <1>1
  <1> QED BY <1>2, BearerInvariant, CatalogInvariant, PTL DEF CredSpec, RefusalIsInformed

-----------------------------------------------------------------------------
(***************************************************************************)
(* Strikes.                                                                *)
(***************************************************************************)
\* Every fault since a relay last served anyone is still on its slate.
SlateInv == \A k \in Key : broken[k] <= strikes[k]

LEMMA FaultSlate ==
  ASSUME HealthType, SlateInv, NEW k \in Key, NEW why, Fault(k, why)
  PROVE  /\ SlateInv'
         /\ \A c \in Key : broken'[c] > broken[c] => c = k
         /\ broken'[k] > broken[k] /\ broken'[k] >= BreakAfter => k \in resting'
  <1>1. strikes \in [Cred -> Nat] /\ broken \in [Cred -> Nat] /\ Key \subseteq Cred
        /\ BreakAfter \in Nat
    BY CredAssumption DEF HealthType, Cred
  <1>2. CASE UNCHANGED <<resting, strikes, broken>>
    BY <1>1, <1>2 DEF SlateInv
  <1>3. CASE /\ strikes' = [strikes EXCEPT ![k] = @ + 0] /\ broken' = [broken EXCEPT ![k] = @ + 0]
    BY <1>1, <1>3 DEF SlateInv
  <1>4. CASE /\ strikes' = [strikes EXCEPT ![k] = @ + 1] /\ broken' = [broken EXCEPT ![k] = @ + 1]
             /\ strikes'[k] >= BreakAfter => k \in resting'
    <2>1. /\ strikes'[k] = strikes[k] + 1 /\ broken'[k] = broken[k] + 1
          /\ \A c \in Key \ {k} : strikes'[c] = strikes[c] /\ broken'[c] = broken[c]
          /\ \A c \in Key : /\ strikes[c] \in Nat /\ broken[c] \in Nat /\ broken[c] <= strikes[c]
      BY <1>1, <1>4 DEF SlateInv
    <2>2. SlateInv'
      BY <2>1 DEF SlateInv
    <2>3. broken'[k] <= strikes'[k]
      BY <2>1
    <2> QED BY <1>1, <1>4, <2>1, <2>2, <2>3
  <1>5. CASE why = "strike"
    BY <1>2, <1>4, <1>5 DEF Fault
  <1>6. CASE why # "strike"
    BY <1>2, <1>3, <1>6 DEF Fault
  <1> QED BY <1>5, <1>6

\* A clean slate has no faults left on it either.
Wiped(c) == strikes' = [strikes EXCEPT ![c] = 0] /\ broken' = [broken EXCEPT ![c] = 0]

LEMMA WipedSlate ==
  ASSUME HealthType, SlateInv, NEW c, Wiped(c)
  PROVE  SlateInv' /\ \A k \in Key : ~(broken'[k] > broken[k])
  <1>1. strikes \in [Cred -> Nat] /\ broken \in [Cred -> Nat] /\ Key \subseteq Cred
    BY DEF HealthType, Cred
  <1> QED BY <1>1 DEF SlateInv, Wiped

\* 401s count against subscriptions.
LEMMA RejectedSlate ==
  ASSUME HealthType, SlateInv, NEW r \in Request, Rejected(r)
  PROVE  SlateInv' /\ UNCHANGED broken
  <1>1. /\ req[r].cred \notin Key /\ UNCHANGED broken
        /\ strikes' = [strikes EXCEPT ![req[r].cred] = @ + 1]
    BY CredAssumption DEF Rejected
  <1>2. strikes \in [Cred -> Nat] /\ Key \subseteq Cred
    BY DEF HealthType, Cred
  <1>3. \A k \in Key : strikes'[k] = strikes[k]
    BY <1>1, <1>2
  <1> QED BY <1>1, <1>3 DEF SlateInv

\* Every step, by what it does to the slates.
LEMMA SlateSteps ==
  ASSUME ReqType, [CredNext]_credVars
  PROVE  \/ UNCHANGED <<strikes, broken>>
         \/ \E r \in Request : Rejected(r)
         \/ \E c \in Cred \cup {0} : Wiped(c)
         \/ \E k \in Key, why \in {"rest", "strike"} : Fault(k, why)
  <1>1. ASSUME NEW r \in Request, Serves(r)
        PROVE  \/ UNCHANGED <<strikes, broken>> \/ Rejected(r) \/ Wiped(req[r].cred)
               \/ \E k \in Key, why \in {"rest", "strike"} : Fault(k, why)
    <2>1. CASE WithoutUsage(r) \/ \E why \in {"rest", "strike"} : RelayFails(r, why)
      BY <2>1 DEF WithoutUsage, RelayFails
    <2>2. CASE Whole(r) \/ HangUp(r)
      BY <2>2 DEF Whole, HangUp, MarkSuccess, Wiped
    <2>3. CASE \/ \E m \in Asked : Look(r, m)
               \/ Consult(r) \/ \E k \in Cred : Send(r, k)
               \/ Exhausted(r) \/ ClientFault(r) \/ StatusLine(r) \/ CutShort(r)
               \/ EnterGate(r) \/ Compare(r) \/ Mint(r)
               \/ \E dead \in BOOLEAN : MintFails(r, dead)
      BY <2>3 DEF Look, Consult, Send, Exhausted, ClientFault, StatusLine, CutShort, EnterGate,
         Compare, Mint, MintFails, healthVars
    <2> QED BY <1>1, <2>1, <2>2, <2>3 DEF Serves
  <1>2. CASE Probes \/ UNCHANGED credVars
    BY <1>2 DEF Probes, Publish, ProbeAnswers, ProbeFails, healthVars, credVars
  <1>3. CASE Surroundings
    <2>1. ASSUME NEW c \in Cred, NEW why \in {"rest", "strike"}, DialFails(c, why)
          PROVE  \/ UNCHANGED <<strikes, broken>>
                 \/ \E k \in Key, w \in {"rest", "strike"} : Fault(k, w)
      BY <2>1 DEF DialFails
    <2>2. ASSUME NEW c \in Cred, ClearFailure(c) \/ Add(c) PROVE Wiped(c)
      BY <2>2 DEF ClearFailure, Add, Wiped
    <2>3. ASSUME NEW c \in Cred, RestEnds(c) \/ Switch(c) \/ Delete(c) \/ ClearQuota(c)
          PROVE  UNCHANGED <<strikes, broken>>
      BY <2>3 DEF RestEnds, Switch, Delete, ClearQuota, healthVars
    <2>4. ASSUME NEW c \in Sub, LimitReached(c) \/ Invalidated(c) \/ OperatorRefresh(c)
          PROVE  UNCHANGED <<strikes, broken>>
      BY <2>4 DEF LimitReached, Invalidated, OperatorRefresh, healthVars
    <2>5. Age => UNCHANGED <<strikes, broken>>
      BY DEF Age, healthVars
    <2>6. \A c \in Cred : Upload(c) => Add(c)
      BY DEF Upload
    <2>7. /\ \A k \in Key : CreateAPIKey(k) => Add(k) /\ k \in Cred
          /\ \A k \in Sub : FinishLogin(k) => Add(k) /\ k \in Cred
      BY DEF CreateAPIKey, FinishLogin, Cred
    <2> QED BY <1>3, <2>1, <2>2, <2>3, <2>4, <2>5, <2>6, <2>7 DEF Surroundings
  <1>4. \A r \in Request : req[r].cred \in Cred \cup {0}
    BY CredOf
  <1> QED BY <1>1, <1>2, <1>3, <1>4 DEF CredNext

\* However requests and handshakes on one relay interleave, and whatever
\* operators clear meanwhile, the fault that makes it BreakAfter in a row
\* pauses the relay (doForwardCodex, reportCodexAPIKeyFault).
THEOREM BrokenRelaysArePaused == CredSpec => BrokenRelaysRest
  <1> DEFINE Rests == \A k \in Key :
                        (broken'[k] > broken[k] /\ broken'[k] >= BreakAfter) => k \in resting'
  <1>1. CredInit => SlateInv
    BY DEF CredInit, SlateInv, Cred
  <1>2. ASSUME CredTypeOK, SlateInv, [CredNext]_credVars PROVE SlateInv' /\ Rests
    <2>1. HealthType /\ ReqType
      BY <1>2, TypeParts
    <2>2. \A k \in Key : broken[k] \in Nat
      BY <2>1 DEF HealthType, Cred
    <2>3. CASE UNCHANGED <<strikes, broken>>
      BY <1>2, <2>2, <2>3 DEF SlateInv
    <2>4. ASSUME NEW r \in Request, Rejected(r) PROVE SlateInv' /\ Rests
      BY <1>2, <2>1, <2>2, <2>4, RejectedSlate
    <2>5. ASSUME NEW c, Wiped(c) PROVE SlateInv' /\ Rests
      BY <1>2, <2>1, <2>5, WipedSlate
    <2>6. ASSUME NEW k \in Key, NEW why, Fault(k, why) PROVE SlateInv' /\ Rests
      BY <1>2, <2>1, <2>6, FaultSlate
    <2> QED BY <1>2, <2>1, <2>3, <2>4, <2>5, <2>6, SlateSteps
  <1>3. CredTypeOK /\ SlateInv /\ [CredNext]_credVars => SlateInv' /\ [Rests]_credVars
    BY <1>2
  <1> QED BY <1>1, <1>3, BearerInvariant, PTL DEF CredSpec, BrokenRelaysRest
=============================================================================
