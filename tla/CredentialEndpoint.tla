--------------------------- MODULE CredentialEndpoint ---------------------------
(***************************************************************************)
(* The issuer's nonce and credential endpoints: a request is authorized by *)
(* its access token, its proofs are verified, its nonces are consumed one  *)
(* by one, and one credential per proof is issued, each with a status      *)
(* index of its own.  Requests run on several workers; a request that      *)
(* fails keeps what it has already consumed or allocated.                  *)
(*                                                                         *)
(* The tokens are those the token endpoint has minted (AuthorizationFlow), *)
(* which can be revoked at any time; alone, the endpoint starts with the   *)
(* tokens of Grants.  DPoP verification (ReplayCache) is abstracted to the *)
(* key thumbprint it yields.                                               *)
(***************************************************************************)
EXTENDS Integers, Sequences, FiniteSets, HashMaps, Jose, IssuerMetadata

CONSTANTS
    Workers,            \* request handlers that can be in progress at once
    Grants,             \* access token -> [configs, by_identifier, dpop_jkt]
    Nonces,             \* c_nonce values that can be generated
    Requests,           \* the credential requests wallets send
    ISSUER_URL,         \* this Credential Issuer's identifier
    BATCH_SIZE,         \* most proofs in one request
    LIST_CAPACITY,      \* entries of each status list
    TicksPerSecond,     \* clock resolution
    C_NONCE_TTL, ACCESS_TOKEN_TTL, PROOF_MAX_AGE,    \* seconds
    MaxTime             \* bound on the clock, in ticks

ASSUME BoundAssumption ==
    /\ BATCH_SIZE \in Nat \ {0} /\ LIST_CAPACITY \in Nat
    /\ TicksPerSecond \in Nat \ {0} /\ MaxTime \in Nat
    /\ C_NONCE_TTL \in Nat /\ ACCESS_TOKEN_TTL \in Nat /\ PROOF_MAX_AGE \in Nat

\* The proofs of a request are a list.
ASSUME RequestAssumption ==
    \A r \in Requests : r.proofs \in Seq({r.proofs[i] : i \in DOMAIN r.proofs})

FormatOf(c) == ConfigurationsSupported[c].format
Indices == 0..LIST_CAPACITY-1

VARIABLES
    access_tokens,      \* access token -> grant and expiry
    c_nonces,           \* unused nonce -> when it was created
    allocated,          \* format -> status indices drawn
    job,                \* worker -> what its handler still has to do
    now,                \* the clock
    handed_out,         \* history: nonces the nonce endpoint has returned
    responses           \* history: the successful responses, in order

history == <<handed_out, responses>>
vars == <<access_tokens, c_nonces, allocated, job, now, history>>

Idle == [at |-> "idle"]

InitEndpoint ==
    /\ c_nonces = EmptyMap
    /\ allocated = [f \in SupportedFormats |-> {}]
    /\ job = [w \in Workers |-> Idle]
    /\ handed_out = {}
    /\ responses = <<>>

Init ==
    /\ InitEndpoint
    /\ access_tokens = [t \in DOMAIN Grants |->
                           [grant |-> Grants[t],
                            expires_at |-> ACCESS_TOKEN_TTL * TicksPerSecond]]
    /\ now = 0

Seconds(ticks) == ticks \div TicksPerSecond
Goto(w, j) == job' = [job EXCEPT ![w] = j]

-------------------------------------------------------------------------------
\* Mutant of Nonce: the time the nonce ends is stored as the time it was created.
NonceDatedAhead ==
    /\ \E n \in Nonces \ handed_out :
        /\ c_nonces' = Put(c_nonces, n, now + C_NONCE_TTL * TicksPerSecond)
        /\ handed_out' = handed_out \cup {n}
    /\ UNCHANGED <<access_tokens, allocated, job, now, responses>>

\* POST /nonce
Nonce ==
    /\ \E n \in Nonces \ handed_out :
        /\ c_nonces' = Put(c_nonces, n, now)
        /\ handed_out' = handed_out \cup {n}
    /\ UNCHANGED <<access_tokens, allocated, job, now, responses>>

\* revoke_tokens_for_code, by the token endpoint.
TokenRevoked(t) ==
    /\ t \in DOMAIN access_tokens
    /\ access_tokens' = Drop(access_tokens, t)
    /\ UNCHANGED <<c_nonces, allocated, job, now, history>>

\* get_access_grant: a live token has its grant; an expired one is removed
\* when it is read.
Live(t) == t \in DOMAIN access_tokens /\ now < access_tokens[t].expires_at

TokensAfterRead(t) ==
    IF t \in DOMAIN access_tokens /\ ~Live(t) THEN Drop(access_tokens, t) ELSE access_tokens

-------------------------------------------------------------------------------
\* POST /credential

\* Mutant of SchemeAccepted: a bound token is accepted from any key.
SchemeOnly(grant, r) == r.is_dpop <=> grant.dpop_jkt # NONE

\* A bound token needs the DPoP scheme and a proof of the bound key; an unbound
\* one needs the Bearer scheme.
SchemeAccepted(grant, r) ==
    IF grant.dpop_jkt # NONE THEN r.is_dpop /\ r.jkt = grant.dpop_jkt ELSE ~r.is_dpop

\* authorize_resource.
Authorize(w, r) ==
    /\ job[w] = Idle
    /\ Live(r.token)
    /\ SchemeAccepted(access_tokens[r.token].grant, r)
    /\ Goto(w, [at |-> "process", request |-> r])
    /\ UNCHANGED <<access_tokens, c_nonces, allocated, now, history>>

\* ... and its only effect on a token that has expired.
AuthorizeExpired(t) ==
    /\ t \in DOMAIN access_tokens /\ ~Live(t)
    /\ access_tokens' = TokensAfterRead(t)
    /\ UNCHANGED <<c_nonces, allocated, job, now, history>>

\* The identifiers issue_access_token draws: fresh ones, one per configuration,
\* when the grant was made by authorization_details.
CredentialIdentifiers(t, grant) == IF grant.by_identifier THEN {t} \X grant.configs ELSE {}

\* Mutant of ResolveConfiguration: the grant is not asked.
ResolveUnchecked(grant, r) ==
    CASE r.credential_identifier # NONE -> r.credential_identifier[2]
      [] r.credential_configuration_id \in SupportedConfigs -> r.credential_configuration_id
      [] OTHER -> NONE

\* resolve_configuration: the configuration a request names, by exactly one of
\* identifier and configuration ID, if the grant covers it; NONE otherwise.  A
\* grant with identifiers can only be used through them.
ResolveConfiguration(grant, r) ==
    LET identifiers == CredentialIdentifiers(r.token, grant)
        named == IF r.credential_identifier # NONE
                 THEN {i[2] : i \in identifiers \cap {r.credential_identifier}}
                 ELSE IF identifiers = {} THEN {r.credential_configuration_id} ELSE {}
        covered == named \cap SupportedConfigs \cap grant.configs
    IN  IF covered = {} \/ NONE \notin {r.credential_identifier, r.credential_configuration_id}
        THEN NONE ELSE CHOOSE c \in covered : TRUE

Distance(a, b) == IF a > b THEN a - b ELSE b - a

\* Mutant of VerifyProofJwt: the signature is left to the caller.
VerifyProofUnsigned(jwt, config) ==
    /\ jwt.header.typ = "openid4vci-proof+jwt"
    /\ jwt.header.jwk # NONE
    /\ jwt.header.alg \in ConfigurationsSupported[config].proof_algs
    /\ jwt.payload.aud = ISSUER_URL
    /\ Distance(Seconds(now), jwt.payload.iat) <= PROOF_MAX_AGE
    /\ jwt.payload.nonce # NONE

\* verify_proof_jwt: signed by the key in its header, with that key's algorithm,
\* which the configuration advertises, for this issuer and recently.
VerifyProofJwt(jwt, config) ==
    /\ jwt.header.typ = "openid4vci-proof+jwt"
    /\ jwt.header.jwk # NONE
    /\ jwt.header.alg \in ConfigurationsSupported[config].proof_algs
    /\ VerifyWithPublicJwk(jwt, jwt.header.jwk)
    /\ jwt.payload.aud = ISSUER_URL
    /\ Distance(Seconds(now), jwt.payload.iat) <= PROOF_MAX_AGE
    /\ jwt.payload.nonce # NONE

\* Mutant of ProofsVerified: only the first proof of a batch is verified.
FirstProofVerified(r, config) ==
    /\ r.proofs # <<>> /\ Len(r.proofs) <= BATCH_SIZE
    /\ VerifyProofJwt(r.proofs[1], config)

\* Every proof of the batch verifies, before any nonce is touched.
ProofsVerified(r, config) ==
    /\ r.proofs # <<>> /\ Len(r.proofs) <= BATCH_SIZE
    /\ \A i \in 1..Len(r.proofs) : VerifyProofJwt(r.proofs[i], config)

NoncesOf(r) == {r.proofs[i].payload.nonce : i \in 1..Len(r.proofs)}

Resolved(r) == ResolveConfiguration(access_tokens[r.token].grant, r)

Processable(r) ==
    /\ Live(r.token)
    /\ Resolved(r) # NONE
    /\ ProofsVerified(r, Resolved(r))

\* process_credential_request up to the nonces: the grant is read again.
Process(w) ==
    /\ job[w].at = "process"
    /\ Processable(job[w].request)
    /\ Goto(w, [at |-> "nonces", request |-> job[w].request,
                config |-> Resolved(job[w].request),
                pending |-> NoncesOf(job[w].request)])
    /\ UNCHANGED <<access_tokens, c_nonces, allocated, now, history>>

ProcessRefused(w) ==
    /\ job[w].at = "process"
    /\ ~Processable(job[w].request)
    /\ access_tokens' = TokensAfterRead(job[w].request.token)
    /\ Goto(w, Idle)
    /\ UNCHANGED <<c_nonces, allocated, now, history>>

\* consume_c_nonce's verdict.
NonceValid(n) == n \in DOMAIN c_nonces /\ Seconds(now - c_nonces[n]) <= C_NONCE_TTL

\* Mutant of NoncesAfterConsume: the nonce is only read.
NoncesKept(n) == c_nonces

\* consume_c_nonce removes the nonce whatever the verdict.
NoncesAfterConsume(n) == Drop(c_nonces, n)

\* The nonces are consumed in the order of a HashSet: any order.  The first
\* bad one ends the request.
ConsumeNonce(w) ==
    /\ job[w].at = "nonces"
    /\ \E n \in job[w].pending :
        /\ c_nonces' = NoncesAfterConsume(n)
        /\ Goto(w, IF ~NonceValid(n) THEN Idle
                   ELSE IF job[w].pending # {n}
                        THEN [job[w] EXCEPT !.pending = @ \ {n}]
                        ELSE [at |-> "issue", request |-> job[w].request,
                              config |-> job[w].config, credentials |-> <<>>])
    /\ UNCHANGED <<access_tokens, allocated, now, history>>

\* Mutant of FreeIndices: two handlers can draw the same index.
AnyIndex(format) == Indices

\* draw_index, under the status manager's lock.
FreeIndices(format) == Indices \ allocated[format]

\* One credential for the next proof, bound to its key; after the last one the
\* response goes out.
IssueOne(w) ==
    /\ job[w].at = "issue"
    /\ LET j == job[w]
           format == FormatOf(j.config)
           key == j.request.proofs[Len(j.credentials) + 1].header.jwk
       IN \E i \in FreeIndices(format) :
            LET done == Append(j.credentials, [key |-> key, format |-> format, idx |-> i])
            IN  /\ allocated' = [allocated EXCEPT ![format] = @ \cup {i}]
                /\ IF Len(done) = Len(j.request.proofs)
                   THEN /\ responses' = Append(responses, [request |-> j.request,
                                                config |-> j.config, credentials |-> done])
                        /\ Goto(w, Idle)
                   ELSE /\ Goto(w, [j EXCEPT !.credentials = done])
                        /\ UNCHANGED responses
    /\ UNCHANGED <<access_tokens, c_nonces, now, handed_out>>

\* Mutant of IssueFull: the draw is tried again and again.
IssueFullRetries(w) ==
    /\ job[w].at = "issue"
    /\ FreeIndices(FormatOf(job[w].config)) = {}
    /\ UNCHANGED vars

\* The list is full: the request fails with its nonces and indices spent.
IssueFull(w) ==
    /\ job[w].at = "issue"
    /\ FreeIndices(FormatOf(job[w].config)) = {}
    /\ Goto(w, Idle)
    /\ UNCHANGED <<access_tokens, c_nonces, allocated, now, history>>

\* An mdoc can fail to be signed after its index was drawn (an unusable
\* validity period).
IssueFailed(w) ==
    /\ job[w].at = "issue"
    /\ FormatOf(job[w].config) = "mso_mdoc"
    /\ \E i \in FreeIndices("mso_mdoc") :
           allocated' = [allocated EXCEPT !["mso_mdoc"] = @ \cup {i}]
    /\ Goto(w, Idle)
    /\ UNCHANGED <<access_tokens, c_nonces, now, history>>

Tick ==
    /\ now < MaxTime
    /\ now' = now + 1
    /\ UNCHANGED <<access_tokens, c_nonces, allocated, job, history>>

Handler(w) ==
    \/ Process(w) \/ ProcessRefused(w) \/ ConsumeNonce(w)
    \/ IssueOne(w) \/ IssueFull(w) \/ IssueFailed(w)

Next ==
    \/ Nonce
    \/ \E t \in DOMAIN Grants : TokenRevoked(t) \/ AuthorizeExpired(t)
    \/ \E w \in Workers : Handler(w) \/ \E r \in Requests : Authorize(w, r)
    \/ Tick

Spec == Init /\ [][Next]_vars

\* A handler never waits: once started it runs to its response.
FairSpec == Spec /\ \A w \in Workers : WF_vars(Handler(w))

-------------------------------------------------------------------------------
\* Properties.

HolderKeys == UNION {{r.proofs[i].header.jwk : i \in 1..Len(r.proofs)} : r \in Requests}

Credential == [key : HolderKeys, format : SupportedFormats, idx : Indices]

Jobs ==
    {Idle}
      \cup [at : {"process"}, request : Requests]
      \cup [at : {"nonces"}, request : Requests, config : SupportedConfigs, pending : SUBSET UNION {NoncesOf(r) : r \in Requests}]
      \cup [at : {"issue"}, request : Requests, config : SupportedConfigs, credentials : Seq(Credential)]

TypeOK ==
    /\ DOMAIN access_tokens \subseteq DOMAIN Grants
    /\ DOMAIN c_nonces \subseteq handed_out
    /\ handed_out \subseteq Nonces
    /\ \A n \in DOMAIN c_nonces : c_nonces[n] \in 0..now
    /\ allocated \in [SupportedFormats -> SUBSET Indices]
    /\ job \in [Workers -> Jobs]
    /\ now \in 0..MaxTime

\* No two responses rest on the same nonce, however their handlers interleave
\* (README: "`c_nonce` is single-use").
NonceSingleUse ==
    \A i, j \in 1..Len(responses) :
        i # j => NoncesOf(responses[i].request) \cap NoncesOf(responses[j].request) = {}

\* A proof the holder of the key it carries made for this issuer.
Genuine(jwt) ==
    /\ jwt.signature.key = jwt.header.jwk
    /\ jwt.signature.over = <<jwt.header, jwt.payload>>
    /\ jwt.payload.aud = ISSUER_URL

\* A nonce is only ever spent by a request all of whose proofs are genuine, so "a
\* bad proof in a batch does not burn the nonce for a retry" (credential.rs).
BadProofSparesNonce ==
    [][\A n \in DOMAIN c_nonces \ DOMAIN c_nonces' :
          \E w \in Workers :
             /\ job[w].at = "nonces"
             /\ n \in job[w].pending
             /\ \A i \in 1..Len(job[w].request.proofs) : Genuine(job[w].request.proofs[i])]_vars

\* Every credential handed out is bound to a key whose holder signed, for this
\* issuer, a nonce this issuer had given out, and no proof of a batch is left
\* without its credential (credential.rs: "one credential per proof, each bound
\* to that proof's key").
CredentialKeyProven ==
    \A i \in 1..Len(responses) :
        LET r == responses[i].request
            cs == responses[i].credentials
        IN  /\ Len(cs) = Len(r.proofs)
            /\ \A k \in 1..Len(cs) :
                  /\ cs[k].key = r.proofs[k].signature.key
                  /\ Genuine(r.proofs[k])
                  /\ r.proofs[k].payload.nonce \in handed_out
                  /\ AlgorithmForJwk(cs[k].key)
                        \in ConfigurationsSupported[responses[i].config].proof_algs

\* All status indices given to credentials of one format, delivered or still
\* in a handler.
Issued ==
    {<<"response", i, k>> : i \in 1..Len(responses), k \in 1..BATCH_SIZE}
      \cup {<<"job", w, k>> : w \in Workers, k \in 1..BATCH_SIZE}

CredentialsAt(x) ==
    CASE x[1] = "response" -> responses[x[2]].credentials
      [] x[1] = "job" -> IF job[x[2]].at = "issue" THEN job[x[2]].credentials ELSE <<>>

\* No two credentials share a status index, across responses and batches still
\* being issued by other workers, so revoking one never revokes another.
StatusIndexUnique ==
    \A x, y \in {z \in Issued : z[3] <= Len(CredentialsAt(z))} :
        LET c == CredentialsAt(x)[x[3]]
            d == CredentialsAt(y)[y[3]]
        IN  c.format = d.format /\ c.idx = d.idx => x = y

\* Every response was authorized: its token covers the configuration, by the
\* way it was granted, and a bound token was used with its key.
ResponseAuthorized ==
    \A i \in 1..Len(responses) :
        LET r == responses[i].request
            g == Grants[r.token]
        IN  /\ responses[i].config \in g.configs
            /\ g.by_identifier => r.credential_identifier = <<r.token, responses[i].config>>
            /\ g.dpop_jkt # NONE => r.jkt = g.dpop_jkt

\* Every request that is being handled is answered.
RequestsAreAnswered == \A w \in Workers : job[w].at # "idle" ~> job[w].at = "idle"

===============================================================================
