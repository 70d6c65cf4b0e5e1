----------------------- MODULE CredentialEndpoint_proofs -----------------------
(***************************************************************************)
(* Proofs about the nonce and credential endpoints, for any number of      *)
(* handlers, tokens, nonces and requests, any batch size, capacity and     *)
(* lifetimes: nonces and status indices are never shared, every credential *)
(* is bound to a proven key, and every response is authorized.             *)
(***************************************************************************)
EXTENDS CredentialEndpoint, SequenceTheorems, TLAPS

-------------------------------------------------------------------------------
\* The inductive invariant, in parts.

Response == [request : Requests, config : SupportedConfigs, credentials : Seq(Credential)]

\* Things handed out one by one: Held[w] is what the handler on w has taken,
\* Given[i] what went into the i-th response, and Used contains all of it.  No
\* thing is in two places.
Separate(Held, n, Given, Used) ==
    /\ \A w \in Workers : Held[w] \subseteq Used
    /\ \A i \in 1..n : Given[i] \subseteq Used
    /\ \A v, w \in Workers : v # w => Held[v] \cap Held[w] = {}
    /\ \A i, j \in 1..n : i # j => Given[i] \cap Given[j] = {}
    /\ \A w \in Workers, i \in 1..n : Held[w] \cap Given[i] = {}

\* Nonces: those a handler has consumed so far, and those that are gone.
SpentBy(j) ==
    CASE j.at = "nonces" -> NoncesOf(j.request) \ j.pending
      [] j.at = "issue" -> NoncesOf(j.request)
      [] OTHER -> {}

NoncesHeld == [w \in Workers |-> SpentBy(job[w])]
NoncesGiven == [i \in 1..Len(responses) |-> NoncesOf(responses[i].request)]
NoncesGone == handed_out \ DOMAIN c_nonces

NoncesSeparate == Separate(NoncesHeld, Len(responses), NoncesGiven, NoncesGone)

\* Status indices: those of the credentials a handler has made so far.
IndicesOf(credentials) ==
    {<<credentials[k].format, credentials[k].idx>> : k \in 1..Len(credentials)}

Made(j) == IF j.at = "issue" THEN j.credentials ELSE <<>>

IndicesHeld == [w \in Workers |-> IndicesOf(Made(job[w]))]
IndicesGiven == [i \in 1..Len(responses) |-> IndicesOf(responses[i].credentials)]
IndicesDrawn == {d \in SupportedFormats \X Indices : d[2] \in allocated[d[1]]}

IndicesSeparate == Separate(IndicesHeld, Len(responses), IndicesGiven, IndicesDrawn)

\* ... and within one batch.
Distinct(credentials) ==
    \A k, l \in 1..Len(credentials) :
        /\ credentials[k].format = credentials[l].format
        /\ credentials[k].idx = credentials[l].idx
        => k = l

\* A request that got past its checks: what the token was granted for and how
\* the proofs were verified, whatever happens to the token afterwards.
Admitted(r) ==
    /\ r.token \in DOMAIN Grants
    /\ SchemeAccepted(Grants[r.token], r)

Granted(r, config) ==
    /\ Admitted(r)
    /\ config \in Grants[r.token].configs
    /\ Grants[r.token].by_identifier => r.credential_identifier = <<r.token, config>>

Proven(r, config) ==
    /\ r.proofs # <<>>
    /\ Len(r.proofs) <= BATCH_SIZE
    /\ \A i \in 1..Len(r.proofs) :
        /\ Genuine(r.proofs[i])
        /\ AlgorithmForJwk(r.proofs[i].header.jwk) \in ConfigurationsSupported[config].proof_algs

\* Credentials follow the proofs of their request, one by one.
BoundTo(credentials, r) ==
    /\ Len(credentials) <= Len(r.proofs)
    /\ \A k \in 1..Len(credentials) : credentials[k].key = r.proofs[k].header.jwk
    /\ Distinct(credentials)

GoodJob(j) ==
    /\ j.at = "process" => Admitted(j.request)
    /\ j.at = "nonces" =>
        /\ Granted(j.request, j.config) /\ Proven(j.request, j.config)
        /\ j.pending \subseteq NoncesOf(j.request)
    /\ j.at = "issue" =>
        /\ Granted(j.request, j.config) /\ Proven(j.request, j.config)
        /\ BoundTo(j.credentials, j.request)
        /\ Len(j.credentials) < Len(j.request.proofs)

GoodResponse(resp) ==
    /\ Granted(resp.request, resp.config) /\ Proven(resp.request, resp.config)
    /\ BoundTo(resp.credentials, resp.request)
    /\ Len(resp.credentials) = Len(resp.request.proofs)

JobsGood == \A w \in Workers : GoodJob(job[w])
ResponsesGood ==
    responses \in Seq(Response) /\ \A i \in 1..Len(responses) : GoodResponse(responses[i])

\* A token that is there has the grant it was minted with.
GrantsKept == \A t \in DOMAIN access_tokens : access_tokens[t].grant = Grants[t]

EndpointInv ==
    /\ TypeOK /\ GrantsKept
    /\ JobsGood /\ ResponsesGood
    /\ NoncesSeparate /\ IndicesSeparate

-------------------------------------------------------------------------------
\* Keeping things apart.

\* Handlers may drop what they hold, and more may be used up.
LEMMA SeparateShrinks ==
    ASSUME NEW Held, NEW n \in Nat, NEW Given, NEW Used, NEW Held2, NEW Used2,
           Separate(Held, n, Given, Used),
           \A w \in Workers : Held2[w] \subseteq Held[w],
           Used \subseteq Used2
    PROVE  Separate(Held2, n, Given, Used2)
BY DEF Separate

\* The handler on w takes e, and nothing else changes hands.
Takes(w, e, Held, Held2) ==
    /\ Held2[w] = Held[w] \cup {e}
    /\ \A v \in Workers \ {w} : Held2[v] = Held[v]

\* A handler takes one thing that was not used.
LEMMA SeparateTakes ==
    ASSUME NEW Held, NEW n \in Nat, NEW Given, NEW Used, NEW Held2, NEW Used2,
           Separate(Held, n, Given, Used),
           NEW w \in Workers, NEW e, e \notin Used, Takes(w, e, Held, Held2),
           Used \cup {e} \subseteq Used2
    PROVE  Separate(Held2, n, Given, Used2)
<1>1. \A v \in Workers : Held2[v] \subseteq Used2
  BY DEF Separate, Takes
<1>2. \A u, v \in Workers : u # v => Held2[u] \cap Held2[v] = {}
  BY DEF Separate, Takes
<1>3. \A v \in Workers, i \in 1..n : Held2[v] \cap Given[i] = {}
  BY DEF Separate, Takes
<1> QED
  BY <1>1, <1>2, <1>3 DEF Separate

\* All that the handler on w holds goes into response n + 1.
Gives(w, Held, Held2, n, Given, Given2) ==
    /\ Held2[w] = {}
    /\ \A v \in Workers \ {w} : Held2[v] = Held[v]
    /\ \A i \in 1..n : Given2[i] = Given[i]
    /\ Given2[n + 1] = Held[w]

\* A handler ends with a response that contains what it held.
LEMMA SeparateGives ==
    ASSUME NEW Held, NEW n \in Nat, NEW Given, NEW Used, NEW Held2, NEW Given2,
           Separate(Held, n, Given, Used),
           NEW w \in Workers, Gives(w, Held, Held2, n, Given, Given2)
    PROVE  Separate(Held2, n + 1, Given2, Used)
<1> USE DEF Gives
<1>1. \A i \in 1..(n + 1) : i \in 1..n \/ i = n + 1
  OBVIOUS
<1>2. \A v \in Workers : Held2[v] \subseteq Held[v]
  OBVIOUS
<1>3. \A i \in 1..(n + 1) : Given2[i] \subseteq Used
  BY <1>1 DEF Separate
<1>4. \A i, j \in 1..(n + 1) : i # j => Given2[i] \cap Given2[j] = {}
  BY <1>1 DEF Separate
<1>5. \A v \in Workers, i \in 1..(n + 1) : Held2[v] \cap Given2[i] = {}
  BY <1>1 DEF Separate
<1> QED
  BY <1>2, <1>3, <1>4, <1>5 DEF Separate

-------------------------------------------------------------------------------
\* Jobs.

\* The shape of a job is given by the step it is at.
LEMMA JobShape ==
    ASSUME NEW j \in Jobs
    PROVE  /\ j.at \in {"idle", "process", "nonces", "issue"}
           /\ j.at = "idle" => j = Idle
           /\ j.at = "process" => j \in [at : {"process"}, request : Requests]
           /\ j.at = "nonces" =>
                j \in [at : {"nonces"}, request : Requests, config : SupportedConfigs,
                       pending : SUBSET UNION {NoncesOf(r) : r \in Requests}]
           /\ j.at = "issue" =>
                j \in [at : {"issue"}, request : Requests, config : SupportedConfigs,
                       credentials : Seq(Credential)]
BY DEF Jobs, Idle

\* Goto changes the one worker it is given.
LEMMA GotoFacts ==
    ASSUME job \in [Workers -> Jobs], NEW w \in Workers, NEW j \in Jobs, Goto(w, j)
    PROVE  /\ job' \in [Workers -> Jobs]
           /\ job'[w] = j
           /\ \A v \in Workers \ {w} : job'[v] = job[v]
BY DEF Goto

\* An idle handler holds nothing.
LEMMA IdleFacts ==
    /\ Idle \in Jobs /\ Idle.at = "idle" /\ GoodJob(Idle)
    /\ SpentBy(Idle) = {} /\ IndicesOf(Made(Idle)) = {}
<1>1. Idle \in Jobs /\ Idle.at = "idle" /\ GoodJob(Idle)
  BY DEF Idle, Jobs, GoodJob
<1>2. SpentBy(Idle) = {}
  BY <1>1 DEF SpentBy
<1>3. Made(Idle) = <<>>
  BY <1>1 DEF Made
<1>4. IndicesOf(<<>>) = {}
  BY DEF IndicesOf
<1> QED
  BY <1>1, <1>2, <1>3, <1>4

\* A handler moves on and no response goes out.
LEMMA HandlerMoves ==
    ASSUME EndpointInv, NEW w \in Workers, NEW j \in Jobs, Goto(w, j), GoodJob(j),
           UNCHANGED responses
    PROVE  job' \in [Workers -> Jobs] /\ JobsGood' /\ ResponsesGood'
<1>1. /\ job' \in [Workers -> Jobs]
      /\ job'[w] = j
      /\ \A v \in Workers \ {w} : job'[v] = job[v]
  BY GotoFacts DEF EndpointInv, TypeOK
<1>2. \A v \in Workers : GoodJob(job'[v])
  BY <1>1 DEF EndpointInv, JobsGood
<1>3. JobsGood'
  BY <1>2 DEF JobsGood
<1>4. ResponsesGood'
  BY DEF EndpointInv, ResponsesGood
<1> QED
  BY <1>1, <1>3, <1>4

\* ... and takes no nonce.
LEMMA NoncesKeptApart ==
    ASSUME EndpointInv, NEW w \in Workers, NEW j \in Jobs, Goto(w, j),
           SpentBy(j) \subseteq SpentBy(job[w]),
           NoncesGone \subseteq NoncesGone', UNCHANGED responses
    PROVE  NoncesSeparate'
<1>1. \A v \in Workers : NoncesHeld'[v] \subseteq NoncesHeld[v]
  <2>1. job'[w] = j /\ \A v \in Workers \ {w} : job'[v] = job[v]
    BY GotoFacts DEF EndpointInv, TypeOK
  <2>2. \A v \in Workers : SpentBy(job'[v]) \subseteq SpentBy(job[v])
    BY <2>1
  <2> QED
    BY <2>2 DEF NoncesHeld, SpentBy, NoncesOf
<1>2. Len(responses) \in Nat /\ responses' = responses /\ NoncesGiven' = NoncesGiven
  BY LenProperties DEF EndpointInv, ResponsesGood, NoncesGiven, NoncesOf
<1>3. Separate(NoncesHeld', Len(responses), NoncesGiven, NoncesGone')
  BY <1>1, <1>2, SeparateShrinks DEF EndpointInv, NoncesSeparate
<1> QED
  BY <1>2, <1>3 DEF NoncesSeparate, Separate

\* ... and no index.
LEMMA IndicesKeptApart ==
    ASSUME EndpointInv, NEW w \in Workers, NEW j \in Jobs, Goto(w, j),
           IndicesOf(Made(j)) \subseteq IndicesOf(Made(job[w])),
           IndicesDrawn \subseteq IndicesDrawn', UNCHANGED responses
    PROVE  IndicesSeparate'
<1>1. \A v \in Workers : IndicesHeld'[v] \subseteq IndicesHeld[v]
  <2>1. job'[w] = j /\ \A v \in Workers \ {w} : job'[v] = job[v]
    BY GotoFacts DEF EndpointInv, TypeOK
  <2>2. \A v \in Workers : IndicesOf(Made(job'[v])) \subseteq IndicesOf(Made(job[v]))
    BY <2>1
  <2> QED
    BY <2>2 DEF IndicesHeld, IndicesOf, Made
<1>2. Len(responses) \in Nat /\ responses' = responses /\ IndicesGiven' = IndicesGiven
  BY LenProperties DEF EndpointInv, ResponsesGood, IndicesGiven, IndicesOf
<1>3. Separate(IndicesHeld', Len(responses), IndicesGiven, IndicesDrawn')
  BY <1>1, <1>2, SeparateShrinks DEF EndpointInv, IndicesSeparate
<1> QED
  BY <1>2, <1>3 DEF IndicesSeparate, Separate

-------------------------------------------------------------------------------
\* The steps.

\* Reading, revoking or expiring a token removes at most that one.
LEMMA TokensOnlyGo ==
    ASSUME EndpointInv, NEW t,
           access_tokens' = Drop(access_tokens, t) \/ access_tokens' = access_tokens
    PROVE  DOMAIN access_tokens' \subseteq DOMAIN Grants /\ GrantsKept'
BY DEF EndpointInv, TypeOK, GrantsKept, Drop

\* A new nonce is in nobody's hands.
LEMMA NonceKeeps ==
    ASSUME EndpointInv, Nonce
    PROVE  EndpointInv'
<1>1. PICK n \in Nonces \ handed_out :
        c_nonces' = Put(c_nonces, n, now) /\ handed_out' = handed_out \cup {n}
  BY DEF Nonce
<1>2. UNCHANGED <<access_tokens, allocated, job, now, responses>>
  BY DEF Nonce
<1>3. /\ DOMAIN c_nonces' = DOMAIN c_nonces \cup {n}
      /\ \A m \in DOMAIN c_nonces' : c_nonces'[m] \in 0..now
  BY <1>1 DEF Put, EndpointInv, TypeOK
<1>4. NoncesGone' = NoncesGone
  BY <1>1, <1>3 DEF NoncesGone, EndpointInv, TypeOK
<1>5. TypeOK' /\ GrantsKept'
  BY <1>1, <1>2, <1>3 DEF EndpointInv, TypeOK, GrantsKept
<1>6. JobsGood' /\ ResponsesGood'
  BY <1>2 DEF EndpointInv, JobsGood, ResponsesGood
<1>7. NoncesSeparate' /\ IndicesSeparate'
  BY <1>2, <1>4 DEF EndpointInv, NoncesSeparate, IndicesSeparate, NoncesHeld, NoncesGiven,
                    IndicesHeld, IndicesGiven, IndicesDrawn
<1> QED
  BY <1>5, <1>6, <1>7 DEF EndpointInv

\* A step that touches no job, no nonce and no index.
LEMMA ElsewhereKeeps ==
    ASSUME EndpointInv, DOMAIN access_tokens' \subseteq DOMAIN Grants, GrantsKept',
           now' \in 0..MaxTime, now <= now',
           UNCHANGED <<c_nonces, allocated, job, history>>
    PROVE  EndpointInv'
<1>1. \A n \in DOMAIN c_nonces : c_nonces[n] \in 0..now'
  BY DEF EndpointInv, TypeOK
<1>2. TypeOK'
  BY <1>1 DEF EndpointInv, TypeOK, history
<1>3. JobsGood' /\ ResponsesGood'
  BY DEF EndpointInv, JobsGood, ResponsesGood, history
<1>4. NoncesSeparate' /\ IndicesSeparate'
  BY DEF EndpointInv, NoncesSeparate, IndicesSeparate, NoncesHeld, NoncesGiven, NoncesGone,
         IndicesHeld, IndicesGiven, IndicesDrawn, history
<1> QED
  BY <1>2, <1>3, <1>4 DEF EndpointInv

\* A step of a handler that takes neither nonce nor index; it may spoil some.
LEMMA MovesKeep ==
    ASSUME EndpointInv, NEW w \in Workers, NEW j \in Jobs, Goto(w, j), GoodJob(j),
           SpentBy(j) \subseteq SpentBy(job[w]),
           IndicesOf(Made(j)) \subseteq IndicesOf(Made(job[w])),
           DOMAIN access_tokens' \subseteq DOMAIN Grants, GrantsKept',
           DOMAIN c_nonces' \subseteq DOMAIN c_nonces,
           \A n \in DOMAIN c_nonces' : c_nonces'[n] = c_nonces[n],
           allocated' \in [SupportedFormats -> SUBSET Indices],
           \A f \in SupportedFormats : allocated[f] \subseteq allocated'[f],
           UNCHANGED <<now, history>>
    PROVE  EndpointInv'
<1>1. job' \in [Workers -> Jobs] /\ JobsGood' /\ ResponsesGood'
  BY HandlerMoves DEF history
<1>2. NoncesSeparate'
  <2>1. NoncesGone \subseteq NoncesGone'
    BY DEF NoncesGone, history
  <2> QED
    BY <2>1, NoncesKeptApart DEF history
<1>3. IndicesSeparate'
  <2>1. IndicesDrawn \subseteq IndicesDrawn'
    BY DEF IndicesDrawn
  <2> QED
    BY <2>1, IndicesKeptApart DEF history
<1>4. TypeOK'
  BY <1>1 DEF EndpointInv, TypeOK, history
<1> QED
  BY <1>1, <1>2, <1>3, <1>4 DEF EndpointInv

\* authorize_resource admits a request with a live token.
LEMMA AuthorizeKeeps ==
    ASSUME EndpointInv, NEW w \in Workers, NEW r \in Requests, Authorize(w, r)
    PROVE  EndpointInv'
<1> DEFINE j == [at |-> "process", request |-> r]
<1>1. Admitted(r)
  BY DEF Authorize, Live, Admitted, EndpointInv, TypeOK, GrantsKept
<1>2. j \in Jobs /\ GoodJob(j)
  BY <1>1 DEF Jobs, GoodJob
<1>3. SpentBy(j) = {} /\ IndicesOf(Made(j)) = {}
  BY DEF SpentBy, Made, IndicesOf
<1>4. Goto(w, j) /\ UNCHANGED <<access_tokens, c_nonces, allocated, now, history>>
  BY DEF Authorize
<1>5. DOMAIN access_tokens' \subseteq DOMAIN Grants /\ GrantsKept'
  BY <1>4, TokensOnlyGo
<1> HIDE DEF j
<1> QED
  BY <1>2, <1>3, <1>4, <1>5, MovesKeep DEF EndpointInv, TypeOK

\* What resolve_configuration finds is granted, in the way it was granted.
LEMMA ResolvedIsGranted ==
    ASSUME NEW r, Admitted(r),
           NEW config, config = ResolveConfiguration(Grants[r.token], r), config # NONE
    PROVE  config \in SupportedConfigs /\ Granted(r, config)
<1> DEFINE grant == Grants[r.token]
           identifiers == CredentialIdentifiers(r.token, grant)
           named == IF r.credential_identifier # NONE
                    THEN {i[2] : i \in identifiers \cap {r.credential_identifier}}
                    ELSE IF identifiers = {} THEN {r.credential_configuration_id} ELSE {}
           covered == named \cap SupportedConfigs \cap grant.configs
<1>1. covered # {} /\ config = CHOOSE c \in covered : TRUE
  BY DEF ResolveConfiguration
<1>2. config \in covered
  BY <1>1
<1>3. ASSUME grant.by_identifier PROVE r.credential_identifier = <<r.token, config>>
  <2>1. identifiers = {r.token} \X grant.configs
    BY <1>3 DEF CredentialIdentifiers
  <2>2. <<r.token, config>> \in identifiers
    <3>1. config \in grant.configs
      BY <1>2
    <3> QED
      BY <2>1, <3>1
  <2>3. PICK i \in identifiers \cap {r.credential_identifier} : config = i[2]
    BY <1>2, <2>2
  <2> QED
    BY <2>1, <2>3
<1> QED
  BY <1>2, <1>3 DEF Granted

\* The proofs that verify_proof_jwt lets through are genuine.
LEMMA VerifiedAreProven ==
    ASSUME NEW r, NEW config, ProofsVerified(r, config)
    PROVE  Proven(r, config)
<1>1. ASSUME NEW i \in 1..Len(r.proofs)
      PROVE  /\ Genuine(r.proofs[i])
             /\ AlgorithmForJwk(r.proofs[i].header.jwk) \in ConfigurationsSupported[config].proof_algs
  <2>1. VerifyProofJwt(r.proofs[i], config)
    BY DEF ProofsVerified
  <2> QED
    BY <2>1 DEF VerifyProofJwt, VerifyWithPublicJwk, VerifyCompact, VerifyWithJwk, KeySign, Genuine
<1> QED
  BY <1>1 DEF ProofsVerified, Proven

\* process_credential_request up to the nonces.
LEMMA ProcessKeeps ==
    ASSUME EndpointInv, NEW w \in Workers, Process(w)
    PROVE  EndpointInv'
<1> DEFINE r == job[w].request
           config == Resolved(r)
           j == [at |-> "nonces", request |-> r, config |-> config, pending |-> NoncesOf(r)]
<1>1. job[w] \in Jobs /\ job[w].at = "process" /\ GoodJob(job[w])
  BY DEF Process, EndpointInv, TypeOK, JobsGood
<1>2. r \in Requests /\ Admitted(r)
  BY <1>1, JobShape DEF GoodJob
<1>3. /\ r.token \in DOMAIN access_tokens /\ config # NONE /\ ProofsVerified(r, config)
      /\ Goto(w, j) /\ UNCHANGED <<access_tokens, c_nonces, allocated, now, history>>
  BY DEF Process, Processable, Live
<1>4. config = ResolveConfiguration(Grants[r.token], r)
  BY <1>3 DEF Resolved, EndpointInv, GrantsKept
<1>5. config \in SupportedConfigs /\ Granted(r, config) /\ Proven(r, config)
  BY <1>2, <1>3, <1>4, ResolvedIsGranted, VerifiedAreProven
<1>6. DOMAIN access_tokens' \subseteq DOMAIN Grants /\ GrantsKept'
  BY <1>3, TokensOnlyGo
<1> HIDE DEF config
<1>7. j \in Jobs
  BY <1>2, <1>5 DEF Jobs
<1>8. GoodJob(j)
  BY <1>5 DEF GoodJob
<1>9. SpentBy(j) = {} /\ IndicesOf(Made(j)) = {}
  BY DEF SpentBy, Made, IndicesOf
<1>10. Goto(w, j)
  BY <1>3
<1> HIDE DEF j
<1> QED
  BY <1>3, <1>6, <1>7, <1>8, <1>9, <1>10, MovesKeep DEF EndpointInv, TypeOK

\* A handler that gives up holds nothing any more.
LEMMA GivesUpKeeps ==
    ASSUME EndpointInv, NEW w \in Workers, Goto(w, Idle),
           DOMAIN access_tokens' \subseteq DOMAIN Grants, GrantsKept',
           DOMAIN c_nonces' \subseteq DOMAIN c_nonces,
           \A n \in DOMAIN c_nonces' : c_nonces'[n] = c_nonces[n],
           allocated' \in [SupportedFormats -> SUBSET Indices],
           \A f \in SupportedFormats : allocated[f] \subseteq allocated'[f],
           UNCHANGED <<now, history>>
    PROVE  EndpointInv'
BY IdleFacts, MovesKeep

\* A request that is refused.
LEMMA ProcessRefusedKeeps ==
    ASSUME EndpointInv, NEW w \in Workers, ProcessRefused(w)
    PROVE  EndpointInv'
<1>1. DOMAIN access_tokens' \subseteq DOMAIN Grants /\ GrantsKept'
  BY TokensOnlyGo DEF ProcessRefused, TokensAfterRead
<1> QED
  BY <1>1, GivesUpKeeps DEF ProcessRefused, EndpointInv, TypeOK

\* IssueFull and IssueFailed end a request with what it has consumed spent.
LEMMA IssueEndsKeeps ==
    ASSUME EndpointInv, NEW w \in Workers, IssueFull(w) \/ IssueFailed(w)
    PROVE  EndpointInv'
<1>1. access_tokens' = access_tokens /\ c_nonces' = c_nonces /\ Goto(w, Idle)
      /\ UNCHANGED <<now, history>>
  BY DEF IssueFull, IssueFailed
<1>2. DOMAIN access_tokens' \subseteq DOMAIN Grants /\ GrantsKept'
  BY <1>1, TokensOnlyGo
<1>3. /\ allocated' \in [SupportedFormats -> SUBSET Indices]
      /\ \A f \in SupportedFormats : allocated[f] \subseteq allocated'[f]
  BY DEF IssueFull, IssueFailed, FreeIndices, EndpointInv, TypeOK
<1> QED
  BY <1>1, <1>2, <1>3, GivesUpKeeps

\* A handler consumes a nonce that nobody has consumed.
LEMMA TakesNonceKeeps ==
    ASSUME EndpointInv, NEW w \in Workers, NEW n \in DOMAIN c_nonces,
           NEW j \in Jobs, Goto(w, j), GoodJob(j),
           SpentBy(j) = SpentBy(job[w]) \cup {n}, IndicesOf(Made(j)) = {},
           c_nonces' = Drop(c_nonces, n),
           UNCHANGED <<access_tokens, allocated, now, history>>
    PROVE  EndpointInv'
<1>1. job' \in [Workers -> Jobs] /\ JobsGood' /\ ResponsesGood'
  BY HandlerMoves DEF history
<1>2. /\ DOMAIN c_nonces' = DOMAIN c_nonces \ {n}
      /\ \A m \in DOMAIN c_nonces' : c_nonces'[m] = c_nonces[m]
  BY DEF Drop
<1>3. NoncesSeparate'
  <2>1. n \notin NoncesGone /\ NoncesGone \cup {n} \subseteq NoncesGone'
    BY <1>2 DEF NoncesGone, history, EndpointInv, TypeOK
  <2>2. job'[w] = j /\ \A v \in Workers \ {w} : job'[v] = job[v]
    BY GotoFacts DEF EndpointInv, TypeOK
  <2>3. Takes(w, n, NoncesHeld, NoncesHeld')
    BY <2>2 DEF NoncesHeld, Takes
  <2>4. Len(responses) \in Nat /\ responses' = responses /\ NoncesGiven' = NoncesGiven
    BY LenProperties DEF EndpointInv, ResponsesGood, NoncesGiven, history
  <2>5. Separate(NoncesHeld', Len(responses), NoncesGiven, NoncesGone')
    BY <2>1, <2>3, <2>4, SeparateTakes DEF EndpointInv, NoncesSeparate
  <2> QED
    BY <2>4, <2>5 DEF NoncesSeparate
<1>4. IndicesSeparate'
  <2>1. IndicesDrawn' = IndicesDrawn
    BY DEF IndicesDrawn
  <2> QED
    BY <2>1, IndicesKeptApart DEF history
<1>5. TypeOK' /\ GrantsKept'
  BY <1>1, <1>2 DEF EndpointInv, TypeOK, GrantsKept, history
<1> QED
  BY <1>1, <1>3, <1>4, <1>5 DEF EndpointInv

\* consume_c_nonce: the nonce is gone whatever the verdict, and only a handler
\* that found it valid goes on.
LEMMA ConsumeNonceKeeps ==
    ASSUME EndpointInv, NEW w \in Workers, ConsumeNonce(w)
    PROVE  EndpointInv'
<1> DEFINE old == job[w]
           next(n) == [at |-> "nonces", request |-> old.request, config |-> old.config,
                       pending |-> old.pending \ {n}]
           issue == [at |-> "issue", request |-> old.request, config |-> old.config,
                     credentials |-> <<>>]
<1>1. old \in Jobs /\ old.at = "nonces" /\ GoodJob(old)
  BY DEF ConsumeNonce, EndpointInv, TypeOK, JobsGood
<1>2. old \in [at : {"nonces"}, request : Requests, config : SupportedConfigs,
               pending : SUBSET UNION {NoncesOf(r) : r \in Requests}]
  BY <1>1, JobShape
<1>3. /\ Granted(old.request, old.config) /\ Proven(old.request, old.config)
      /\ old.pending \subseteq NoncesOf(old.request)
  BY <1>1 DEF GoodJob
<1>4. PICK n \in old.pending :
        /\ c_nonces' = NoncesAfterConsume(n)
        /\ Goto(w, IF ~NonceValid(n) THEN Idle
                   ELSE IF old.pending # {n} THEN [old EXCEPT !.pending = @ \ {n}] ELSE issue)
  BY DEF ConsumeNonce
<1>5. c_nonces' = Drop(c_nonces, n) /\ UNCHANGED <<access_tokens, allocated, now, history>>
  BY <1>4 DEF NoncesAfterConsume, ConsumeNonce
<1>6. CASE ~NonceValid(n)
  <2>1. Goto(w, Idle)
    BY <1>4, <1>6
  <2>2. /\ DOMAIN c_nonces' \subseteq DOMAIN c_nonces
        /\ \A m \in DOMAIN c_nonces' : c_nonces'[m] = c_nonces[m]
    BY <1>5 DEF Drop
  <2>3. DOMAIN access_tokens' \subseteq DOMAIN Grants /\ GrantsKept'
    BY <1>5, TokensOnlyGo
  <2> QED
    BY <1>5, <2>1, <2>2, <2>3, GivesUpKeeps DEF EndpointInv, TypeOK
<1>7. SpentBy(old) = NoncesOf(old.request) \ old.pending
  BY <1>1 DEF SpentBy
<1>8. CASE NonceValid(n) /\ old.pending # {n}
  <2>1. [old EXCEPT !.pending = @ \ {n}] = next(n)
    <3>1. old = [at |-> "nonces", request |-> old.request, config |-> old.config,
                 pending |-> old.pending]
      BY <1>2
    <3> QED
      BY <3>1
  <2>2. Goto(w, next(n))
    BY <1>4, <1>8, <2>1
  <2>3. next(n) \in Jobs
    BY <1>2 DEF Jobs
  <2>4. GoodJob(next(n))
    BY <1>3 DEF GoodJob
  <2>5. SpentBy(next(n)) = NoncesOf(old.request) \ (old.pending \ {n})
    BY DEF SpentBy
  <2>6. SpentBy(next(n)) = SpentBy(old) \cup {n}
    BY <1>3, <1>7, <2>5
  <2>7. IndicesOf(Made(next(n))) = {}
    BY DEF Made, IndicesOf
  <2>8. n \in DOMAIN c_nonces
    BY <1>8 DEF NonceValid
  <2> HIDE DEF next
  <2> QED
    BY <1>5, <2>2, <2>3, <2>4, <2>6, <2>7, <2>8, TakesNonceKeeps
<1>9. CASE NonceValid(n) /\ old.pending = {n}
  <2>1. Goto(w, issue)
    BY <1>4, <1>9
  <2>2. issue \in Jobs
    BY <1>2 DEF Jobs
  <2>3. Len(old.request.proofs) > 0
    <3>1. old.request \in Requests /\ old.request.proofs # <<>>
      BY <1>2, <1>3 DEF Proven
    <3> QED
      BY <3>1, RequestAssumption, EmptySeq, LenProperties
  <2>4. GoodJob(issue)
    BY <1>3, <2>3 DEF GoodJob, BoundTo, Distinct
  <2>5. SpentBy(issue) = NoncesOf(old.request)
    BY DEF SpentBy
  <2>6. SpentBy(issue) = SpentBy(old) \cup {n}
    BY <1>3, <1>7, <1>9, <2>5
  <2>7. IndicesOf(Made(issue)) = {}
    BY DEF Made, IndicesOf
  <2>8. n \in DOMAIN c_nonces
    BY <1>9 DEF NonceValid
  <2> HIDE DEF issue
  <2> QED
    BY <1>5, <2>1, <2>2, <2>4, <2>6, <2>7, <2>8, TakesNonceKeeps
<1> QED
  BY <1>6, <1>8, <1>9

\* The credential for the next proof of a batch.
NextCredential(j, i) ==
    [key |-> j.request.proofs[Len(j.credentials) + 1].header.jwk,
     format |-> FormatOf(j.config), idx |-> i]

LEMMA NextCredentialType ==
    ASSUME EndpointInv, NEW w \in Workers, job[w].at = "issue",
           NEW i \in FreeIndices(FormatOf(job[w].config))
    PROVE  /\ job[w].request \in Requests /\ job[w].config \in SupportedConfigs
           /\ job[w].credentials \in Seq(Credential)
           /\ Len(job[w].credentials) \in Nat /\ Len(job[w].request.proofs) \in Nat
           /\ BoundTo(job[w].credentials, job[w].request)
           /\ Len(job[w].credentials) < Len(job[w].request.proofs)
           /\ NextCredential(job[w], i) \in Credential
           /\ NextCredential(job[w], i).idx \notin allocated[NextCredential(job[w], i).format]
<1> DEFINE j == job[w]
           r == job[w].request
           n == Len(job[w].credentials) + 1
<1>1. j \in [at : {"issue"}, request : Requests, config : SupportedConfigs,
             credentials : Seq(Credential)]
  BY JobShape DEF EndpointInv, TypeOK
<1>2. /\ r \in Requests /\ j.config \in SupportedConfigs /\ j.credentials \in Seq(Credential)
      /\ Len(j.credentials) \in Nat /\ Len(r.proofs) \in Nat
  BY <1>1, RequestAssumption, LenProperties
<1>3. BoundTo(j.credentials, r) /\ Len(j.credentials) < Len(r.proofs)
  BY DEF EndpointInv, JobsGood, GoodJob
<1>4. n \in 1..Len(r.proofs)
  BY <1>2, <1>3
<1>5. r.proofs[n].header.jwk \in HolderKeys
  <2>1. r.proofs[n].header.jwk \in {r.proofs[l].header.jwk : l \in 1..Len(r.proofs)}
    BY <1>4
  <2> QED
    BY <1>2, <2>1 DEF HolderKeys
<1>6. FormatOf(j.config) \in SupportedFormats
  BY <1>2 DEF FormatOf, SupportedFormats
<1>7. i \in Indices /\ i \notin allocated[FormatOf(j.config)]
  BY DEF FreeIndices
<1> QED
  BY <1>2, <1>3, <1>5, <1>6, <1>7 DEF NextCredential, Credential

\* A batch with one more credential, and the index of that one.
Extends(done, cs, c) ==
    /\ done \in Seq(Credential) /\ Len(done) = Len(cs) + 1
    /\ \A l \in 1..Len(cs) : done[l] = cs[l]
    /\ done[Len(cs) + 1] = c

IndexOf(j, i) == <<FormatOf(j.config), i>>

\* One more credential, with an index nobody has: the batch stays well formed.
LEMMA BatchGrows ==
    ASSUME NEW r, NEW cs, NEW done, NEW c, Extends(done, cs, c),
           Len(cs) \in Nat, Len(r.proofs) \in Nat, Len(cs) < Len(r.proofs), BoundTo(cs, r),
           c.key = r.proofs[Len(cs) + 1].header.jwk,
           IndicesOf(cs) \subseteq IndicesDrawn,
           c.idx \notin allocated[c.format]
    PROVE  /\ BoundTo(done, r)
           /\ <<c.format, c.idx>> \notin IndicesDrawn
           /\ IndicesOf(done) = IndicesOf(cs) \cup {<<c.format, c.idx>>}
<1> USE DEF Extends
<1>1. \A l \in 1..Len(done) : l \in 1..Len(cs) \/ l = Len(cs) + 1
  OBVIOUS
<1>2. 1..Len(cs) \subseteq 1..Len(done) /\ Len(cs) + 1 \in 1..Len(done)
  OBVIOUS
<1>3. <<c.format, c.idx>> \notin IndicesDrawn
  BY DEF IndicesDrawn
<1>4. \A l \in 1..Len(cs) : <<cs[l].format, cs[l].idx>> # <<c.format, c.idx>>
  BY <1>3 DEF IndicesOf
<1>5. Distinct(done)
  <2> SUFFICES ASSUME NEW l \in 1..Len(done), NEW m \in 1..Len(done),
                      done[l].format = done[m].format, done[l].idx = done[m].idx
               PROVE  l = m
    BY DEF Distinct
  <2>1. CASE l \in 1..Len(cs) /\ m \in 1..Len(cs)
    BY <2>1 DEF BoundTo, Distinct
  <2>2. CASE l = Len(cs) + 1 /\ m \in 1..Len(cs)
    BY <1>4, <2>2
  <2>3. CASE l \in 1..Len(cs) /\ m = Len(cs) + 1
    BY <1>4, <2>3
  <2> QED
    BY <1>1, <2>1, <2>2, <2>3
<1>6. BoundTo(done, r)
  <2>1. \A l \in 1..Len(done) : done[l].key = r.proofs[l].header.jwk
    BY <1>1 DEF BoundTo
  <2> QED
    BY <1>5, <2>1 DEF BoundTo
<1>7. IndicesOf(done) = IndicesOf(cs) \cup {<<c.format, c.idx>>}
  <2>1. ASSUME NEW x \in IndicesOf(done) PROVE x \in IndicesOf(cs) \cup {<<c.format, c.idx>>}
    BY <1>1 DEF IndicesOf
  <2>2. ASSUME NEW x \in IndicesOf(cs) PROVE x \in IndicesOf(done)
    BY <1>2 DEF IndicesOf
  <2>3. <<c.format, c.idx>> \in IndicesOf(done)
    BY <1>2 DEF IndicesOf
  <2> QED
    BY <2>1, <2>2, <2>3
<1> QED
  BY <1>3, <1>6, <1>7

\* What a credential adds, whether or not it is the last of its batch.
LEMMA IssueOneFacts ==
    ASSUME EndpointInv, NEW w \in Workers, job[w].at = "issue",
           NEW i \in FreeIndices(FormatOf(job[w].config)),
           NEW done, Extends(done, job[w].credentials, NextCredential(job[w], i)),
           allocated' = [allocated EXCEPT ![FormatOf(job[w].config)] = @ \cup {i}]
    PROVE  /\ done \in Seq(Credential) /\ Len(done) = Len(job[w].credentials) + 1
           /\ Len(job[w].request.proofs) \in Nat /\ Len(done) \in Nat
           /\ Len(done) <= Len(job[w].request.proofs)
           /\ BoundTo(done, job[w].request)
           /\ IndicesOf(done) = IndicesHeld[w] \cup {IndexOf(job[w], i)}
           /\ IndexOf(job[w], i) \notin IndicesDrawn
           /\ IndicesDrawn \cup {IndexOf(job[w], i)} \subseteq IndicesDrawn'
           /\ allocated' \in [SupportedFormats -> SUBSET Indices]
<1> DEFINE cs == job[w].credentials
           c == NextCredential(job[w], i)
           r == job[w].request
<1>1. /\ cs \in Seq(Credential) /\ Len(cs) \in Nat /\ Len(r.proofs) \in Nat
      /\ BoundTo(cs, r) /\ Len(cs) < Len(r.proofs)
      /\ c \in Credential /\ c.idx \notin allocated[c.format]
  BY NextCredentialType
<1>2. /\ c.format = FormatOf(job[w].config) /\ c.idx = i
      /\ c.key = r.proofs[Len(cs) + 1].header.jwk
      /\ c.format \in SupportedFormats /\ i \in Indices
  BY <1>1 DEF NextCredential, Credential
<1>3. IndicesHeld[w] = IndicesOf(cs)
  BY DEF IndicesHeld, Made
<1>4. IndicesOf(cs) \subseteq IndicesDrawn
  BY <1>3 DEF EndpointInv, IndicesSeparate, Separate
<1> HIDE DEF c, cs, r
<1>5. /\ Extends(done, cs, c)
      /\ done \in Seq(Credential) /\ Len(done) = Len(cs) + 1
  BY DEF c, cs, Extends
<1>6. /\ BoundTo(done, r)
      /\ <<c.format, c.idx>> \notin IndicesDrawn
      /\ IndicesOf(done) = IndicesOf(cs) \cup {<<c.format, c.idx>>}
  BY <1>1, <1>2, <1>4, <1>5, BatchGrows
<1>7. /\ allocated' \in [SupportedFormats -> SUBSET Indices]
      /\ i \in allocated'[c.format]
      /\ \A f \in SupportedFormats : allocated[f] \subseteq allocated'[f]
  BY <1>2 DEF EndpointInv, TypeOK
<1>8. IndexOf(job[w], i) = <<c.format, c.idx>>
  BY <1>2 DEF IndexOf
<1>9. IndicesDrawn \cup {IndexOf(job[w], i)} \subseteq IndicesDrawn'
  <2>1. IndicesDrawn \subseteq IndicesDrawn'
    BY <1>7 DEF IndicesDrawn
  <2>2. <<c.format, c.idx>> \in IndicesDrawn'
    BY <1>2, <1>7 DEF IndicesDrawn
  <2> QED
    BY <1>8, <2>1, <2>2
<1> QED
  BY <1>1, <1>3, <1>5, <1>6, <1>7, <1>8, <1>9 DEF cs, r

\* A credential that is not the last of its batch.
LEMMA IssueNextKeeps ==
    ASSUME EndpointInv, NEW w \in Workers, job[w].at = "issue",
           NEW i \in FreeIndices(FormatOf(job[w].config)),
           NEW done, Extends(done, job[w].credentials, NextCredential(job[w], i)),
           allocated' = [allocated EXCEPT ![FormatOf(job[w].config)] = @ \cup {i}],
           Len(done) # Len(job[w].request.proofs),
           Goto(w, [job[w] EXCEPT !.credentials = done]),
           UNCHANGED <<access_tokens, c_nonces, now, history>>
    PROVE  EndpointInv'
<1> DEFINE old == job[w]
           e == IndexOf(job[w], i)
           j == [at |-> "issue", request |-> old.request, config |-> old.config,
                 credentials |-> done]
<1>1. /\ done \in Seq(Credential) /\ Len(done) = Len(old.credentials) + 1
      /\ Len(old.request.proofs) \in Nat /\ Len(done) \in Nat
      /\ Len(done) <= Len(old.request.proofs)
      /\ BoundTo(done, old.request)
      /\ IndicesOf(done) = IndicesHeld[w] \cup {e}
      /\ e \notin IndicesDrawn /\ IndicesDrawn \cup {e} \subseteq IndicesDrawn'
      /\ allocated' \in [SupportedFormats -> SUBSET Indices]
  BY IssueOneFacts
<1>2. old \in [at : {"issue"}, request : Requests, config : SupportedConfigs,
               credentials : Seq(Credential)]
  BY JobShape DEF EndpointInv, TypeOK
<1>3. Goto(w, j)
  <2>1. old = [at |-> "issue", request |-> old.request, config |-> old.config,
               credentials |-> old.credentials]
    BY <1>2
  <2>2. [old EXCEPT !.credentials = done] = j
    BY <2>1
  <2> QED
    BY <2>2
<1>4. j \in Jobs
  BY <1>1, <1>2 DEF Jobs
<1>5. GoodJob(j)
  <2>1. Granted(old.request, old.config) /\ Proven(old.request, old.config)
    BY DEF EndpointInv, JobsGood, GoodJob
  <2>2. Len(done) < Len(old.request.proofs)
    BY <1>1
  <2> QED
    BY <1>1, <2>1, <2>2 DEF GoodJob
<1>6. SpentBy(j) = SpentBy(old) /\ Made(j) = done
  BY DEF SpentBy, Made
<1> HIDE DEF j, e
<1>7. job' \in [Workers -> Jobs] /\ JobsGood' /\ ResponsesGood'
  BY <1>3, <1>4, <1>5, HandlerMoves DEF history
<1>8. NoncesSeparate'
  <2>1. NoncesGone' = NoncesGone
    BY DEF NoncesGone, history
  <2> QED
    BY <1>3, <1>4, <1>6, <2>1, NoncesKeptApart DEF history
<1>9. IndicesSeparate'
  <2>1. job'[w] = j /\ \A v \in Workers \ {w} : job'[v] = job[v]
    BY <1>3, <1>4, GotoFacts DEF EndpointInv, TypeOK
  <2>2. Takes(w, e, IndicesHeld, IndicesHeld')
    BY <1>1, <1>6, <2>1 DEF IndicesHeld, Takes
  <2>3. Len(responses) \in Nat /\ responses' = responses /\ IndicesGiven' = IndicesGiven
    BY LenProperties DEF EndpointInv, ResponsesGood, IndicesGiven, history
  <2>4. Separate(IndicesHeld', Len(responses), IndicesGiven, IndicesDrawn')
    BY <1>1, <2>2, <2>3, SeparateTakes DEF EndpointInv, IndicesSeparate
  <2> QED
    BY <2>3, <2>4 DEF IndicesSeparate
<1>10. TypeOK' /\ GrantsKept'
  BY <1>1, <1>7 DEF EndpointInv, TypeOK, GrantsKept, history
<1> QED
  BY <1>7, <1>8, <1>9, <1>10 DEF EndpointInv

\* The last credential of a batch: the response goes out with all that its
\* handler held.
LEMMA IssueLastKeeps ==
    ASSUME EndpointInv, NEW w \in Workers, job[w].at = "issue",
           NEW i \in FreeIndices(FormatOf(job[w].config)),
           NEW done, Extends(done, job[w].credentials, NextCredential(job[w], i)),
           allocated' = [allocated EXCEPT ![FormatOf(job[w].config)] = @ \cup {i}],
           Len(done) = Len(job[w].request.proofs),
           responses' = Append(responses, [request |-> job[w].request, config |-> job[w].config,
                                           credentials |-> done]),
           Goto(w, Idle),
           UNCHANGED <<access_tokens, c_nonces, now, handed_out>>
    PROVE  EndpointInv'
<1> DEFINE old == job[w]
           e == IndexOf(job[w], i)
           n == Len(responses)
           resp == [request |-> old.request, config |-> old.config, credentials |-> done]
<1>1. /\ done \in Seq(Credential)
      /\ BoundTo(done, old.request)
      /\ IndicesOf(done) = IndicesHeld[w] \cup {e}
      /\ e \notin IndicesDrawn /\ IndicesDrawn \cup {e} \subseteq IndicesDrawn'
      /\ allocated' \in [SupportedFormats -> SUBSET Indices]
  BY IssueOneFacts
<1>2. old \in [at : {"issue"}, request : Requests, config : SupportedConfigs,
               credentials : Seq(Credential)]
  BY JobShape DEF EndpointInv, TypeOK
<1>3. resp \in Response
  BY <1>1, <1>2 DEF Response
<1>4. GoodResponse(resp)
  <2>1. Granted(old.request, old.config) /\ Proven(old.request, old.config)
    BY DEF EndpointInv, JobsGood, GoodJob
  <2> QED
    BY <1>1, <2>1 DEF GoodResponse
<1>5. /\ responses \in Seq(Response) /\ n \in Nat
      /\ responses' \in Seq(Response) /\ Len(responses') = n + 1
      /\ \A l \in 1..n : responses'[l] = responses[l]
      /\ responses'[n + 1] = resp
  BY <1>3, LenProperties DEF EndpointInv, ResponsesGood
<1>6. resp.request = old.request /\ resp.credentials = done
  OBVIOUS
<1> HIDE DEF resp, e
<1>7. \A l \in 1..(n + 1) : l \in 1..n \/ l = n + 1
  BY <1>5
<1>8. ResponsesGood'
  <2>1. \A l \in 1..(n + 1) : GoodResponse(responses'[l])
    BY <1>4, <1>5, <1>7 DEF EndpointInv, ResponsesGood
  <2> QED
    BY <1>5, <2>1 DEF ResponsesGood
<1>9. job' \in [Workers -> Jobs] /\ job'[w] = Idle /\ \A v \in Workers \ {w} : job'[v] = job[v]
  BY GotoFacts, IdleFacts DEF EndpointInv, TypeOK
<1>10. JobsGood'
  BY <1>9, IdleFacts DEF EndpointInv, JobsGood
<1>11. NoncesSeparate'
  <2>1. NoncesGone' = NoncesGone
    BY DEF NoncesGone
  <2>2. NoncesHeld[w] = NoncesOf(old.request)
    BY DEF NoncesHeld, SpentBy
  <2>3. NoncesHeld'[w] = {} /\ \A v \in Workers \ {w} : NoncesHeld'[v] = NoncesHeld[v]
    BY <1>9, IdleFacts DEF NoncesHeld
  <2>4. /\ \A l \in 1..n : NoncesGiven'[l] = NoncesGiven[l]
        /\ NoncesGiven'[n + 1] = NoncesHeld[w]
    BY <1>5, <1>6, <2>2 DEF NoncesGiven
  <2>5. Gives(w, NoncesHeld, NoncesHeld', n, NoncesGiven, NoncesGiven')
    BY <2>3, <2>4 DEF Gives
  <2>6. Separate(NoncesHeld, n, NoncesGiven, NoncesGone)
    BY DEF EndpointInv, NoncesSeparate
  <2> HIDE DEF n
  <2>7. Separate(NoncesHeld', n + 1, NoncesGiven', NoncesGone)
    BY <1>5, <2>5, <2>6, SeparateGives
  <2> QED
    BY <1>5, <2>1, <2>7 DEF NoncesSeparate
<1>12. IndicesSeparate'
  <2> DEFINE Mid == [v \in Workers |-> IF v = w THEN IndicesHeld[w] \cup {e} ELSE IndicesHeld[v]]
  <2>1. Mid[w] = IndicesHeld[w] \cup {e} /\ \A v \in Workers \ {w} : Mid[v] = IndicesHeld[v]
    OBVIOUS
  <2>2. Takes(w, e, IndicesHeld, Mid)
    BY <2>1 DEF Takes
  <2>3. Separate(IndicesHeld, n, IndicesGiven, IndicesDrawn)
    BY DEF EndpointInv, IndicesSeparate
  <2> HIDE DEF Mid, n
  <2>4. Separate(Mid, n, IndicesGiven, IndicesDrawn')
    BY <1>1, <1>5, <2>2, <2>3, SeparateTakes
  <2>5. IndicesHeld'[w] = {} /\ \A v \in Workers \ {w} : IndicesHeld'[v] = Mid[v]
    BY <1>9, <2>1, IdleFacts DEF IndicesHeld
  <2>6. /\ \A l \in 1..n : IndicesGiven'[l] = IndicesGiven[l]
        /\ IndicesGiven'[n + 1] = Mid[w]
    BY <1>1, <1>5, <1>6, <2>1 DEF IndicesGiven, n
  <2>7. Gives(w, Mid, IndicesHeld', n, IndicesGiven, IndicesGiven')
    BY <2>5, <2>6 DEF Gives
  <2>8. Separate(IndicesHeld', n + 1, IndicesGiven', IndicesDrawn')
    BY <1>5, <2>4, <2>7, SeparateGives
  <2> QED
    BY <1>5, <2>8 DEF IndicesSeparate
<1>13. TypeOK' /\ GrantsKept'
  BY <1>1, <1>9 DEF EndpointInv, TypeOK, GrantsKept
<1> QED
  BY <1>8, <1>10, <1>11, <1>12, <1>13 DEF EndpointInv

\* One credential, with the next proof's key and an index of its own.
LEMMA IssueOneKeeps ==
    ASSUME EndpointInv, NEW w \in Workers, IssueOne(w)
    PROVE  EndpointInv'
<1>1. PICK i \in FreeIndices(FormatOf(job[w].config)) :
        LET done == Append(job[w].credentials, NextCredential(job[w], i))
        IN  /\ allocated' = [allocated EXCEPT ![FormatOf(job[w].config)] = @ \cup {i}]
            /\ IF Len(done) = Len(job[w].request.proofs)
               THEN /\ responses' = Append(responses, [request |-> job[w].request,
                                              config |-> job[w].config, credentials |-> done])
                    /\ Goto(w, Idle)
               ELSE /\ Goto(w, [job[w] EXCEPT !.credentials = done])
                    /\ UNCHANGED responses
  BY DEF IssueOne, NextCredential
<1>2. job[w].at = "issue" /\ UNCHANGED <<access_tokens, c_nonces, now, handed_out>>
  BY DEF IssueOne
<1> DEFINE done == Append(job[w].credentials, NextCredential(job[w], i))
<1>3. /\ allocated' = [allocated EXCEPT ![FormatOf(job[w].config)] = @ \cup {i}]
      /\ Extends(done, job[w].credentials, NextCredential(job[w], i))
  <2>1. /\ job[w].credentials \in Seq(Credential) /\ Len(job[w].credentials) \in Nat
        /\ NextCredential(job[w], i) \in Credential
    BY <1>2, NextCredentialType
  <2> QED
    BY <1>1, <2>1 DEF Extends
<1>4. CASE Len(done) = Len(job[w].request.proofs)
  <2>1. /\ responses' = Append(responses, [request |-> job[w].request,
                                           config |-> job[w].config, credentials |-> done])
        /\ Goto(w, Idle)
    BY <1>1, <1>4
  <2> QED
    BY <1>2, <1>3, <1>4, <2>1, IssueLastKeeps
<1>5. CASE Len(done) # Len(job[w].request.proofs)
  <2>1. Goto(w, [job[w] EXCEPT !.credentials = done]) /\ UNCHANGED responses
    BY <1>1, <1>5
  <2> QED
    BY <1>2, <1>3, <1>5, <2>1, IssueNextKeeps DEF history
<1> QED
  BY <1>4, <1>5

-------------------------------------------------------------------------------
LEMMA InitEndpointInv == Init => EndpointInv
<1> SUFFICES ASSUME Init PROVE EndpointInv
  OBVIOUS
<1> USE DEF Init, InitEndpoint
<1>1. job \in [Workers -> Jobs] /\ \A w \in Workers : job[w] = Idle
  BY IdleFacts
<1>2. /\ DOMAIN access_tokens = DOMAIN Grants
      /\ \A t \in DOMAIN access_tokens : access_tokens[t].grant = Grants[t]
  OBVIOUS
<1>3. DOMAIN c_nonces = {}
  BY DEF EmptyMap
<1>4. TypeOK /\ GrantsKept
  BY <1>1, <1>2, <1>3, BoundAssumption DEF TypeOK, GrantsKept
<1>5. responses \in Seq(Response) /\ Len(responses) = 0
  OBVIOUS
<1>6. JobsGood /\ ResponsesGood
  BY <1>1, <1>5, IdleFacts DEF JobsGood, ResponsesGood
<1>7. NoncesSeparate
  <2>1. \A w \in Workers : NoncesHeld[w] = {}
    BY <1>1, IdleFacts DEF NoncesHeld
  <2> QED
    BY <1>5, <2>1 DEF NoncesSeparate, Separate
<1>8. IndicesSeparate
  <2>1. \A w \in Workers : IndicesHeld[w] = {}
    BY <1>1, IdleFacts DEF IndicesHeld
  <2> QED
    BY <1>5, <2>1 DEF IndicesSeparate, Separate
<1> QED
  BY <1>4, <1>6, <1>7, <1>8 DEF EndpointInv

LEMMA NextKeeps == EndpointInv /\ [Next]_vars => EndpointInv'
<1> SUFFICES ASSUME EndpointInv, [Next]_vars PROVE EndpointInv'
  OBVIOUS
<1>0. now \in 0..MaxTime /\ now <= now /\ MaxTime \in Nat
  BY BoundAssumption DEF EndpointInv, TypeOK
<1>1. CASE Nonce
  BY <1>1, NonceKeeps
<1>2. ASSUME NEW t \in DOMAIN Grants, TokenRevoked(t) \/ AuthorizeExpired(t)
      PROVE  EndpointInv'
  <2>1. access_tokens' = Drop(access_tokens, t) \/ access_tokens' = access_tokens
    BY <1>2 DEF TokenRevoked, AuthorizeExpired, TokensAfterRead
  <2>2. UNCHANGED <<c_nonces, allocated, job, now, history>>
    BY <1>2 DEF TokenRevoked, AuthorizeExpired
  <2>3. DOMAIN access_tokens' \subseteq DOMAIN Grants /\ GrantsKept'
    BY <2>1, TokensOnlyGo
  <2> QED
    BY <1>0, <2>2, <2>3, ElsewhereKeeps
<1>3. ASSUME NEW w \in Workers, Handler(w)
      PROVE  EndpointInv'
  BY <1>3, ProcessKeeps, ProcessRefusedKeeps, ConsumeNonceKeeps, IssueOneKeeps, IssueEndsKeeps
     DEF Handler
<1>4. ASSUME NEW w \in Workers, NEW r \in Requests, Authorize(w, r)
      PROVE  EndpointInv'
  BY <1>4, AuthorizeKeeps
<1>5. CASE Tick
  <2>1. now' \in 0..MaxTime /\ now <= now' /\ UNCHANGED <<access_tokens, c_nonces, allocated, job, history>>
    BY <1>0, <1>5 DEF Tick
  <2>2. DOMAIN access_tokens' \subseteq DOMAIN Grants /\ GrantsKept'
    BY <2>1, TokensOnlyGo
  <2> QED
    BY <2>1, <2>2, ElsewhereKeeps
<1>6. CASE UNCHANGED vars
  <2>1. UNCHANGED <<access_tokens, c_nonces, allocated, job, now, history>>
    BY <1>6 DEF vars
  <2>2. DOMAIN access_tokens' \subseteq DOMAIN Grants /\ GrantsKept'
    BY <2>1, TokensOnlyGo
  <2> QED
    BY <1>0, <2>1, <2>2, ElsewhereKeeps
<1> QED
  BY <1>1, <1>2, <1>3, <1>4, <1>5, <1>6 DEF Next

LEMMA EndpointInvariant == Spec => []EndpointInv
<1> QED
  BY InitEndpointInv, NextKeeps, PTL DEF Spec

-------------------------------------------------------------------------------
\* Every variable of the endpoint keeps its type, for any number of handlers.
THEOREM TypeCorrect == Spec => []TypeOK
<1>1. EndpointInv => TypeOK
  BY DEF EndpointInv
<1> QED
  BY <1>1, EndpointInvariant, PTL

\* consume_c_nonce: no two responses rest on the same nonce, whatever handlers
\* run side by side and wherever requests are given up.
THEOREM NoncesAreSingleUse == Spec => []NonceSingleUse
<1>1. EndpointInv => NonceSingleUse
  <2> SUFFICES ASSUME EndpointInv,
                      NEW i \in 1..Len(responses), NEW j \in 1..Len(responses), i # j
               PROVE  NoncesOf(responses[i].request) \cap NoncesOf(responses[j].request) = {}
    BY DEF NonceSingleUse
  <2>1. NoncesGiven[i] \cap NoncesGiven[j] = {}
    BY DEF EndpointInv, NoncesSeparate, Separate
  <2> QED
    BY <2>1 DEF NoncesGiven
<1> QED
  BY <1>1, EndpointInvariant, PTL

\* Every credential handed out is bound to the key that signed its proof, over
\* a nonce this issuer had given out, with an algorithm the configuration
\* advertises; and every proof of the batch has its credential.
THEOREM CredentialKeysAreProven == Spec => []CredentialKeyProven
<1>1. EndpointInv => CredentialKeyProven
  <2> SUFFICES ASSUME EndpointInv, NEW i \in 1..Len(responses)
               PROVE  LET r == responses[i].request
                          cs == responses[i].credentials
                      IN  /\ Len(cs) = Len(r.proofs)
                          /\ \A k \in 1..Len(cs) :
                                /\ cs[k].key = r.proofs[k].signature.key
                                /\ Genuine(r.proofs[k])
                                /\ r.proofs[k].payload.nonce \in handed_out
                                /\ AlgorithmForJwk(cs[k].key)
                                      \in ConfigurationsSupported[responses[i].config].proof_algs
    BY DEF CredentialKeyProven
  <2> DEFINE r == responses[i].request
             cs == responses[i].credentials
  <2>1. /\ Proven(r, responses[i].config) /\ BoundTo(cs, r) /\ Len(cs) = Len(r.proofs)
    BY DEF EndpointInv, ResponsesGood, GoodResponse
  <2>2. NoncesOf(r) \subseteq handed_out
    BY DEF EndpointInv, NoncesSeparate, Separate, NoncesGiven, NoncesGone
  <2> HIDE DEF r, cs
  <2>3. ASSUME NEW k \in 1..Len(cs)
        PROVE  /\ cs[k].key = r.proofs[k].signature.key
               /\ Genuine(r.proofs[k])
               /\ r.proofs[k].payload.nonce \in handed_out
               /\ AlgorithmForJwk(cs[k].key)
                     \in ConfigurationsSupported[responses[i].config].proof_algs
    <3>1. k \in 1..Len(r.proofs)
      BY <2>1
    <3>2. /\ Genuine(r.proofs[k])
          /\ AlgorithmForJwk(r.proofs[k].header.jwk)
                \in ConfigurationsSupported[responses[i].config].proof_algs
      BY <2>1, <3>1 DEF Proven
    <3>3. cs[k].key = r.proofs[k].header.jwk
      BY <2>1 DEF BoundTo
    <3>4. r.proofs[k].payload.nonce \in handed_out
      BY <2>2, <3>1 DEF NoncesOf
    <3> QED
      BY <3>2, <3>3, <3>4 DEF Genuine
  <2> QED
    BY <2>1, <2>3 DEF r, cs
<1> QED
  BY <1>1, EndpointInvariant, PTL

\* draw_index: no two credentials of one format share a status index, neither
\* within a batch nor across responses and batches still being issued.
THEOREM StatusIndicesAreUnique == Spec => []StatusIndexUnique
<1>1. EndpointInv => StatusIndexUnique
  <2> SUFFICES ASSUME EndpointInv,
                      NEW x \in Issued, x[3] <= Len(CredentialsAt(x)),
                      NEW y \in Issued, y[3] <= Len(CredentialsAt(y)),
                      CredentialsAt(x)[x[3]].format = CredentialsAt(y)[y[3]].format,
                      CredentialsAt(x)[x[3]].idx = CredentialsAt(y)[y[3]].idx
               PROVE  x = y
    BY DEF StatusIndexUnique
  <2>0. BATCH_SIZE \in Nat
    BY BoundAssumption
  <2>1. /\ \A z \in Issued : z[3] \in 1..BATCH_SIZE
        /\ \A z \in Issued : z = <<z[1], z[2], z[3]>>
        /\ \A z \in Issued : \/ z[1] = "response" /\ z[2] \in 1..Len(responses)
                             \/ z[1] = "job" /\ z[2] \in Workers
    BY DEF Issued
  <2>2. ASSUME NEW z \in Issued
        PROVE  /\ z[1] = "response" => CredentialsAt(z) = responses[z[2]].credentials
               /\ z[1] = "job" => CredentialsAt(z) = Made(job[z[2]])
    BY DEF CredentialsAt, Made
  <2>3. ASSUME NEW z \in Issued
        PROVE  Len(CredentialsAt(z)) \in Nat /\ Distinct(CredentialsAt(z))
    <3>1. CASE z[1] = "response"
      <4>1. z[2] \in 1..Len(responses)
        BY <2>1, <3>1
      <4>2. /\ responses[z[2]] \in Response
            /\ Distinct(responses[z[2]].credentials)
        BY <4>1, ElementOfSeq DEF EndpointInv, ResponsesGood, GoodResponse, BoundTo
      <4>3. responses[z[2]].credentials \in Seq(Credential)
        BY <4>2 DEF Response
      <4> QED
        BY <2>2, <3>1, <4>2, <4>3, LenProperties
    <3>2. CASE z[1] = "job"
      <4>1. z[2] \in Workers
        BY <2>1, <3>2
      <4>2. CASE job[z[2]].at = "issue"
        <5>1. /\ job[z[2]].credentials \in Seq(Credential)
              /\ Distinct(job[z[2]].credentials)
          BY <4>1, <4>2, JobShape DEF EndpointInv, TypeOK, JobsGood, GoodJob, BoundTo
        <5> QED
          BY <2>2, <3>2, <4>2, <5>1, LenProperties DEF Made
      <4>3. CASE job[z[2]].at # "issue"
        <5>1. CredentialsAt(z) = <<>>
          BY <2>2, <3>2, <4>3 DEF Made
        <5> QED
          BY <5>1 DEF Distinct
      <4> QED
        BY <4>2, <4>3
    <3> QED
      BY <2>1, <3>1, <3>2
  <2>4. x[3] \in 1..Len(CredentialsAt(x)) /\ y[3] \in 1..Len(CredentialsAt(y))
    BY <2>0, <2>1, <2>3
  <2> DEFINE d == <<CredentialsAt(x)[x[3]].format, CredentialsAt(x)[x[3]].idx>>
  <2>5. d \in IndicesOf(CredentialsAt(x)) /\ d \in IndicesOf(CredentialsAt(y))
    BY <2>4 DEF IndicesOf
  <2> HIDE DEF d
  <2>6. ASSUME NEW z \in Issued, d \in IndicesOf(CredentialsAt(z))
        PROVE  /\ z[1] = "response" => d \in IndicesGiven[z[2]]
               /\ z[1] = "job" => d \in IndicesHeld[z[2]]
    BY <2>1, <2>2, <2>6 DEF IndicesGiven, IndicesHeld
  <2>7. x[1] = y[1] /\ x[2] = y[2]
    <3>1. Separate(IndicesHeld, Len(responses), IndicesGiven, IndicesDrawn)
      BY DEF EndpointInv, IndicesSeparate
    <3>2. /\ x[1] = "response" => x[2] \in 1..Len(responses) /\ d \in IndicesGiven[x[2]]
          /\ x[1] = "job" => x[2] \in Workers /\ d \in IndicesHeld[x[2]]
      BY <2>1, <2>5, <2>6
    <3>3. /\ y[1] = "response" => y[2] \in 1..Len(responses) /\ d \in IndicesGiven[y[2]]
          /\ y[1] = "job" => y[2] \in Workers /\ d \in IndicesHeld[y[2]]
      BY <2>1, <2>5, <2>6
    <3>4. x[1] \in {"response", "job"} /\ y[1] \in {"response", "job"}
      BY <2>1
    <3> QED
      BY <3>1, <3>2, <3>3, <3>4 DEF Separate
  <2>8. CredentialsAt(x) = CredentialsAt(y)
    BY <2>1, <2>2, <2>7
  <2>9. x[3] = y[3]
    BY <2>3, <2>4, <2>8 DEF Distinct
  <2> QED
    BY <2>1, <2>7, <2>9
<1> QED
  BY <1>1, EndpointInvariant, PTL

\* authorize_resource and resolve_configuration: whatever happens to the token
\* while the request is handled, a response is within what it was granted.
THEOREM ResponsesAreAuthorized == Spec => []ResponseAuthorized
<1>1. EndpointInv => ResponseAuthorized
  BY DEF EndpointInv, ResponsesGood, GoodResponse, Granted, Admitted, SchemeAccepted,
         ResponseAuthorized
<1> QED
  BY <1>1, EndpointInvariant, PTL

\* Only a handler that verified every proof of its request takes a nonce away.
THEOREM BadProofsSpareNonces == Spec => BadProofSparesNonce
<1> DEFINE Spared == \A n \in DOMAIN c_nonces \ DOMAIN c_nonces' :
                        \E w \in Workers :
                           /\ job[w].at = "nonces"
                           /\ n \in job[w].pending
                           /\ \A i \in 1..Len(job[w].request.proofs) :
                                 Genuine(job[w].request.proofs[i])
<1>1. ASSUME EndpointInv, [Next]_vars PROVE [Spared]_vars
  <2>1. ASSUME NEW w \in Workers, ConsumeNonce(w) PROVE Spared
    <3>1. /\ job[w].at = "nonces"
          /\ \A i \in 1..Len(job[w].request.proofs) : Genuine(job[w].request.proofs[i])
      BY <1>1, <2>1 DEF ConsumeNonce, EndpointInv, JobsGood, GoodJob, Proven
    <3>2. PICK n \in job[w].pending : c_nonces' = Drop(c_nonces, n)
      BY <2>1 DEF ConsumeNonce, NoncesAfterConsume
    <3>3. \A m \in DOMAIN c_nonces \ DOMAIN c_nonces' : m = n
      BY <3>2 DEF Drop
    <3> QED
      BY <3>1, <3>2, <3>3
  <2>2. CASE \A w \in Workers : ~ConsumeNonce(w)
    <3>1. DOMAIN c_nonces \subseteq DOMAIN c_nonces' \/ UNCHANGED vars
      BY <1>1, <2>2 DEF Next, Handler, Nonce, TokenRevoked, AuthorizeExpired, Process,
                        ProcessRefused, IssueOne, IssueFull, IssueFailed, Authorize, Tick, Put
    <3> QED
      BY <3>1
  <2> QED
    BY <2>1, <2>2
<1>2. Spec => [][Spared]_vars
  BY <1>1, EndpointInvariant, PTL DEF Spec
<1> QED
  BY <1>2 DEF BadProofSparesNonce

===============================================================================
