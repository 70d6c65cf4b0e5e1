# A TLA+ model of oid4vc-rs

oid4vc-rs is an OpenID4VCI issuer, an OpenID4VP verifier and a credential status
service behind one axum server. This directory models its stateful core in TLA+
and the cryptographic checks it rests on, checks it with TLC on small instances, and
proves part of it with TLAPS for every value of the constants.

## 1. The system

| Component | State | Operations | Interacts with |
|---|---|---|---|
| Authorization and tokens (`issuer/authorization.rs`, `token.rs`, `offer.rs`, `server/routes/issuer.rs`) | in the issuer store: `sessions`, `code_to_uri`, `pre_auth_codes`, `access_tokens`, `tokens_by_code` | PAR, decision (approve, deny), token (code and pre-authorized grants), offer | proofs of clients and DPoP keys; its tokens open the credential endpoint |
| DPoP and client attestation (`dpop.rs`, `client_attestation.rs`) | `seen_jtis` | verify, record | called first by PAR, token and credential endpoints |
| Nonce and credential endpoints (`credential.rs`) | `c_nonces`, a read of `access_tokens` | nonce, credential (single, batch) | draws status indices from the status manager |
| Status (`status/*.rs`, `server/routes/status.rs`) | per list two encodings and the drawn indices; an mdoc list | allocate, revoke, suspend, reinstate, publish | read by relying parties through the status claim of a credential |
| Verifier (`verifier/*.rs`, `crypto/sd_jwt.rs`) | `sessions`, `state_to_id` | create request, fetch request, process response | the issuer's key, the wallet's key binding |
| Start-up (`server/state.rs`, `crypto/x509.rs`) | key files, certificate bundle, trust anchor file | load or create each, in order | everything that signs |
| Keys, JWS, COSE, certificates, mdoc, SD-JWT (`crypto/*.rs`) | none | sign, verify, mint, validate, issue, present | called by every endpoint; the bundle of start-up signs mdocs and status lists |
| Issuer metadata (`issuer/metadata.rs`) | none | build | its configurations decide what PAR and the credential endpoint accept |
| Routing, extractors, middleware, types | none | parse, serialise | - |

What is hard about it. Handlers run on several threads; every store method is
atomic (it holds its mutexes for its whole body), but a handler makes several
calls and decides on copies of what it has read. Some methods hold two mutexes.
Tokens, codes, nonces, proofs and sessions all expire, some judged in whole
seconds, some not. The status lists exist twice, packed differently, and are lost
on a restart while keys and credentials survive. Start-up writes several files
that have to fit together and can die in between. `PROJECT.json` lists each such
point at its line under `hazards`.

## 2. Modules

| Module | Models |
|---|---|
| `HashMaps` | insert and remove on a `HashMap` |
| `Jose` | keys, algorithms, JWKs, thumbprints, JWS (`keys.rs`, `jwk.rs`, `jws.rs`) |
| `Cose` | COSE_Sign1 and COSE keys (`cose.rs`) |
| `Certificates` | minting and validating the issuer's certificates (`x509.rs`) |
| `SdJwt` | SD-JWT issuance, disclosure, verification, key binding (`sd_jwt.rs`) |
| `Mdoc` | mdoc issuance, presentation, verification, the MSO revocation list (`mdoc.rs`) |
| `IssuerMetadata` | the credential configurations (`metadata.rs`) |
| `ClientProofs` | every check of a DPoP proof and of a client attestation with its PoP |
| `AuthorizationFlow` | PAR, decisions, both token grants, replay revocation, offers |
| `ReplayCache` | `ClientProofs` over time: the windows of the proofs, and the jti cache |
| `CredentialEndpoint` | nonces, resource authorization, proof JWTs, batch issuance, index allocation |
| `IssuerSystem` | `AuthorizationFlow` and `CredentialEndpoint` over one store and one clock |
| `MdocCredentials` | an mDL from issuance to expiry: `Mdoc` under `Certificates` that expire and are minted anew |
| `StatusArray` / `StatusLists` | an array of entries / the two packed encodings that implement it |
| `RevocationRegistry` / `StatusManager` | what revocation promises / the manager, the admin endpoints, a restart |
| `StatusPublication` | `StatusManager` up to a relying party: signed lists, fetches, a cache |
| `VerifierSessions` | presentation sessions and response processing, over `SdJwt` |
| `StoreLocks` | the mutexes of both stores |
| `Startup` | key and certificate files over starts, crashes and deletions |
| `MC*` | constants for the runs of the module of that name |
| `*_proofs` | theorems about the module of that name and the modules it extends: `IssuerSystem_proofs` also holds those about `AuthorizationFlow`, `StatusPublication_proofs` those about `StatusManager` |

**How a handler is modelled.** A worker has a `job`: the step its handler is at and
the local values it has read. Each action is one store call with the pure code
around it, so any other handler can run between two calls and nowhere else.
Requests that are refused before the first write leave no trace and are no action.
UUIDs are fresh members of a finite set. Variables marked *history* record what
has been handed out and by which worker; no action reads them except to keep
identifiers fresh.

**AuthorizationFlow.** `Par`, `CredentialOffer` and the start of each handler
(`DecisionResolve`, `TokenLookup`, `RedeemPreAuthorizedCode`) take a request;
`TokenLookup -> TokenAccept | TokenReject -> TokenConsume -> TokenStore ->
TokenRecord` are the store calls of `process_authorization_code_grant` in order, and
`TokenLookup -> RevokeTake -> RevokeDrop` a replay. `ExpireAccessToken` is the side
effect of reading an expired token. PKCE is the injective pair `<<"S256", v>>`.
The clock ticks in fractions of a second where truncation matters.

**Signatures.** A signature is the record of the key and of what was signed, a hash
the thing hashed, a thumbprint the public members of a key. Who can make a record is
then a matter of the model: a run enumerates what wallets, issuers and the network
can put together from keys they hold. Every check of the code remains, in its order
where the order shows: algorithm against key type, `typ`, critical headers, the
embedded key, claims and times. An encoding (base64, CBOR, DER, JSON) is the record
it encodes, and what the encoding distinguishes is kept: a protected COSE header is
signed and an unprotected one is not.

**ClientProofs, ReplayCache.** `DpopProofVerified` and `AttestationVerified` are the
checks without the clock. A URL is what parsing yields and its query, a server's name
what trimming its trailing slashes yields and how many there were, and only the first
part of either is compared (`NormalizeHtu`, `SameIssuer`). `Verify` adds the time window of a proof, up to its cache
lookup, and `RecordJti` is the atomic prune, lookup and insert. The proofs of a run
include ones sent on to an endpoint or a server, with a token or with an attestation that
they were not made for; `Meant` are those sent where their signer meant them, and
`SameUse` says when what is accepted is used as one of those.

**CredentialEndpoint.** `Authorize`, `Process` (the grant is read again, the proof
JWTs are verified by `VerifyProofJwt`), one `ConsumeNonce` per distinct nonce in any
order, one `IssueOne` per proof. A full list (`IssueFull`) and an mdoc that cannot be
signed (`IssueFailed`) end a request with what it has consumed spent. Alone, the module
starts with minted tokens and `TokenRevoked` is the token endpoint's part.

**IssuerSystem.** Both parts unchanged, `INSTANCE CredentialEndpoint` reading the
tokens and the clock of `AuthorizationFlow`. Tokens now come from codes and offers and
are revoked by replays, so a credential can be followed back to a consent.

**MdocCredentials.** `Issue` is the mdoc branch of `credential.rs` with the elements,
the digests and the validity it computes; `Present` a wallet's response to one
request; `Verify` the crypto crate's verification by an external relying party. The
network repeats, delays and misroutes responses, loses items and puts the items or the
device signature of one into another. The device signature covers the request and not
the items, so `AcceptedWasPresented` says that nothing is read which the holder did not
reveal, not that all of it is. One namespace. The code draws digest identifiers at random; the model
takes them to be the same in every mdoc, the worst case, so items of two mdocs are told
apart by their salts only. `Remint` is a restart
that found no bundle.

**StatusLists.** Bytes as numbers with the shifts and masks of the code: MSB first
for StatusList2021, LSB first with 1, 2, 4 or 8 bits for the Token Status List. What the
lists mean is told by two readers of the published bytes that share nothing with
`get` and `set` (`PublishedBit`, `PublishedStatus`), so an error that both make alike,
such as the other bit order, is seen.

**StatusManager.** One action per operation, all under one lock. Writes name any
index, allocated or not, as the admin endpoints allow.

**StatusPublication.** `CopyList` is the part of a publishing handler under the
manager's lock, `SignToken` the part after it, which reads the clock. The relying party
(external) follows the status claim of one kind of credential, waits `FETCH_TIMEOUT`
for an answer and keeps it for its `ttl`. Time is relative: the clock stands at 0, a
tick moves every instant back by one, and instants older than anything compares are
one, so the state space is finite without a bound on the clock.

**VerifierSessions.** `Lookup` copies the session, `Pass`, `Fail` and `Expire` judge
the presentation against the copy, `Finish` deletes and accepts. `Verified` has the
code's two paths, SD-JWT and plain JWT; the presentations are what a holder builds with
`SdJwt` and what the network makes of it by dropping, adding and exchanging
disclosures and key bindings.

**StoreLocks.** A method is its sequence of lock and unlock steps, with a second,
shorter one where it returns early.

**Startup.** One action per file read, truncation and write; a crash in the middle
of the bundle's write leaves any prefix of it; the operator may delete files while
the server is down. Paths that are not configured give ephemeral keys and roots. A
behaviour starts with no files, or with a key and the one-certificate bundle of a
server from before mdoc support; that server has run, so its key and its root
(`LEGACY_ROOT`) count as served. `load_or_create_pki` replaces such a bundle, and with it
the root: `RootSurvives` states this exception.

## 3. Runs

`tlc -config <cfg> <module>`. State counts are distinct states.

| Run | cfg (module) | States | Shows |
|---|---|---|---|
| authorization_concurrent | AuthorizationFlowConcurrent (MCAuthorizationFlow) | 679k | with two handlers: tokens match their sessions, codes are consumed first, pre-authorized codes are single use, every code leads to its session, revocation is targeted; overlapping requests get at most one code and one token each, and a replay finds the live token of a code unless the code minted two |
| issuer_system | IssuerSystem (MCIssuerSystem) | 294k | with two handlers of the authorization server and one of the credential endpoint: every credential goes back to a consent or an offer; issuance ends for a token that a replay has taken |
| replay_cache | ReplayCache (MCReplayCache) | 129k | no pruning loses a live jti; acceptances of one proof are a full lifetime apart; a proof is accepted only for what it was made for |
| credential_endpoint | CredentialEndpoint (MCCredentialEndpoint) | 169k | nonces are single use, a bad proof costs no nonce, a credential's key was proven by its holder, unique status indices, responses within the grant, every started request ends |
| status_lists | StatusLists (StatusLists) | 10k | to a reader of the published bytes both encodings are arrays; padding stays zero |
| status_manager | StatusManager (StatusManager) | 19k | the encodings agree, the registry is implemented |
| status_publication | StatusPublication (MCStatusPublication) | 12k | a revocation is seen within `ttl` and one fetch, and is seen at all |
| verifier_sessions | VerifierSessions (MCVerifierSessions) | 50k | the maps stay inverse, no key-bound presentation passes in two sessions, what is accepted is what a holder made for that session |
| mdoc_credentials | MdocCredentials (MCMdocCredentials) | 131k | an mdoc that was signed verifies throughout its period; only what a holder presented to a request is accepted for it, and no claim that the holder did not reveal |
| startup | Startup (MCStartup) | 57k | keys and root survive crashes and restarts, but for the root of a bundle from before mdoc support; what is served is whole and fits the key |
| verifier_race | VerifierSessionsRace (MCVerifierSessions) | - | *violated*, SessionSingleUse: two responses in flight are both accepted |
| store_locks_issuer | StoreLocksIssuer (MCStoreLocks) | - | *violated*, NoCircularWait: approval and token request lock in opposite orders |

### Findings

The last two runs above are counterexamples to what a document says. Further ones are
kept as configurations beside the runs (a `...Findings.cfg` serves several properties, of
which its INVARIANT names one). Each is a finding in `PROJECT.json` with the quoted line:

| cfg (module) | Property | What happens |
|---|---|---|
| AuthorizationFlowFindings (MCAuthorizationFlow) | ReplayedCodeHasNoToken | a replay between consume and record revokes nothing |
| AuthorizationFlowFindings (MCAuthorizationFlow) | CodeSingleUse | two redemptions of one code in flight mint two tokens, of which a replay revokes one |
| AuthorizationFlowFindings (MCAuthorizationFlow) | DeniedIsSpent | a denied request_uri can be approved later |
| AuthorizationFlowFindings (MCAuthorizationFlow) | RequestUriSingleUse | two approvals in flight give two codes |
| AuthorizationFlowCodeAge (MCAuthorizationFlow) | CodeLivesItsTtl | the TTL is exceeded by up to a second |
| ReplayCacheBoundary (MCReplayCache) | AcceptedOnce | a proof dated ahead passes again in its last second |
| StatusManagerFindings (StatusManager) | SuspensionIsSeen | the status claim never names the suspension list |
| StatusManagerFindings (StatusManager) | RevocationHitsAllocated | unallocated indices can be revoked |
| StatusManagerRestart (StatusManager) | RevocationIsPermanent | lists are lost on restart |
| StartupCrash (MCStartup) | AnchorPublished | the trust anchor is never written after a crash |
| VerifierSessionsPlainJwt (MCVerifierSessions) | AcceptedIsKeyBound | a bare issuer JWT answers a query without claims: nonce and key binding are skipped |

**Bounds.** Two handlers are enough for every race listed, since each one is
between two; two codes, tokens, clients and keys let one be confused with the
other; the clock runs past every expiry that the run is about. The lists have
capacities that do not fill their last byte, so padding exists. TTLs are scaled
down to one or two seconds (days for certificates) and keep their comparisons and
truncations. `Startup` has three starts: one to create, one to be interrupted, one
to see the result; the certificates expire in between. Generated keys and minted
roots are symmetric there. `IssuerSystem` has two handlers of the authorization server and one
of the credential endpoint; its state constraint lets the two overlap until an offer is
made and leaves one of them afterwards. The constraint cuts off starts of handlers and
offers only, which are not fair, so the fair behaviours that remain are behaviours of the
system. In `MdocCredentials` a day is two ticks, so that
truncation to the start of a day shows; leaf and MSO last two days, a root three, and
the clock runs past all of them from any time of day; holders and the verifier's
nonces are symmetric; wallets reveal one element, so an item is lost or not. `StatusPublication` keeps the order of the code's 300 s and 24 h
(`STATUS_LIST_TTL < TOKEN_LIFETIME`) and scales a handler to one tick and the relying
party's patience to two, so an answer can be late. Each module names its bounds (`Max...`) in its
constants.

**Deadlock.** Runs whose model can stop say so in their cfg: identifiers, starts
and the clock are finite, and a model that has used them up stops where the
program would go on.

**Fairness.** `FairSpec` of `CredentialEndpoint` and `FairSystemSpec` of `IssuerSystem` are
weak fairness of each handler's next step. Handlers contain no `await` between their
store calls and no loop that waits for another handler, so a handler that has
started is scheduled again and is always able to continue; the one exception is
the lock order shown by store_locks_issuer, which both modules leave out. Nothing
is assumed there about new requests or about the clock. In `StatusPublication` time
passes and the relying party asks when its copy has run out (weak fairness, `Tick` and
`Ask`), and the publishing handler and the answer are strongly fair: a fetch may be late
any number of times, not every time. The last is an assumption about the network
and the relying party, the rest is the scheduling above.

## 4. Proofs

`tlapm <module>.tla` checks each of the `_proofs` modules.

* **`IssuerSystem_proofs`**, first part: `AuthorizationFlow`
  * `TypeCorrect`: `Spec => [](TypeOK /\ JobsKnown)`. `JobsKnown` is needed beside the
    type: a handler remembers codes and URIs, and its next step is only well
    formed if they are still in the store, which holds as nothing is removed
    from `sessions` or `code_to_uri`.
  * `TokensAreOwed`: `Spec => [](TokenMatchesSession /\ MintedMeansConsumed)`. Neither is
    inductive: a token gets its grant from a snapshot. The strengthening says that
    the snapshot (`MatchingJob`) agrees with the store in the client, the
    configurations and the bound key, that the grant of a handler past its checks
    is owed to its session, and that the session of a handler about to mint is
    consumed. It rests on `SessionsKept`: no step changes those fields of a session
    or resets `consumed`.
  * `MintedTokensAreConsumed`: `Spec => []MintedMeansConsumed`, its second half, stated
    for the reader who looks for it by name.
  * `PreAuthorizedCodesAreSingleUse`: `Spec => []PreAuthorizedCodeSingleUse`. `PreAuthInv`
    counts handlers about to mint together with tokens: at most one of either per
    code, and none while the code is unconsumed.
  * `CodesLeadBack`: `Spec => []CodesLeadToTheirSession`. `CodesInv` adds that a session
    which some code leads to holds a code (not always that one, after two approvals) and
    that no session is from the future.
  * `RevocationHitsItsCode`: `Spec => RevocationIsTargeted`, an action property.
    `TracedInv`: what is recorded under a code, and what a replay has taken from there,
    was minted with that code.
  * `CodesNeedOverlap`: `Spec => []OneCodePerWorker`, `TokensNeedOverlap`: `Spec =>
    []OneTokenPerWorker`, `LiveTokensAreRevocable`: `Spec => []LiveTokenIsRevocable`. The documents'
    single use of request_uris and codes and their revocation on replay are false when
    requests overlap (Findings); these theorems say exactly how far the damage goes, for
    any number of handlers. A worker runs one handler at a time and the workers are
    alike, so "one per worker" means that two codes, or two tokens, of one pushed request come
    from handlers that were in progress together. `DecidesInv`: a worker that has given
    out a code for a session is not deciding on it again, as the session then has a code
    and keeps one. `MintsInv`: the same for a redemption: a worker that has
    minted for a request is not redeeming for it again, as its session is consumed and
    stays so. `LiveIsFound`: a live
    token is recorded, about to be, or about to be removed, unless its code has minted
    another; a replay between consume and record does not put it out of reach of the next
    replay.
* **`CredentialEndpoint_proofs`**: `TypeCorrect`, `NoncesAreSingleUse`,
  `CredentialKeysAreProven`, `StatusIndicesAreUnique`, `ResponsesAreAuthorized` and the action
  property `BadProofsSpareNonces`, for any number of handlers. One invariant,
  `EndpointInv`: grants are those of the start or removed; what a handler has found out
  (grant, configuration, proven keys, consumed nonces) is true; and nonces and status
  indices are separate, stated once for both: what two handlers hold, what handlers hold
  and responses used, and what two responses used do not meet, and none of it can be
  given out again (`Separate`).
* **`IssuerSystem_proofs`**, second part: the composition
  * `SystemImplementsAuthorization`: `SystemSpec => Spec`. A step of the credential endpoint is
    a step of the authorization server (it only reads and expires tokens) or leaves it
    alone, so every theorem about `AuthorizationFlow` holds of the composition;
    `SystemBoundsOverlap` states the last three above there, with any number of handlers of
    either endpoint.
  * `CredentialsGoBackToConsent`: `SystemSpec => []CredentialsTraceToConsent`. `CoveredInv`: what a
    handler was let in with covers the configuration it issues, by a token that was
    minted; `TokensMatch` and `OfferedInv` lead from the token to the session or offer it
    came from. The token may have been revoked or have expired by then, so the
    invariant is about the history and not about the store.
* **`ReplayCache_proofs`**: `TypeCorrect`; `ReplaysAreFarApart`: `Spec =>
  []AcceptedFarApart`; `AcceptancesAreRemembered`: `Spec => []Remembered`. Both follow from
  one invariant (lemma `CacheInvariant`), `RememberedUntil`: an entry in the cache is
  dated no earlier than the end of the lifetime of every acceptance of its key, and an
  acceptance whose key is not in the cache has outlived it.
  `AcceptedProofsAreMeant`: `Spec => []AcceptedAsMeant`, for any proofs that are sent. A
  handler between its checks and the cache holds a proof that was meant
  (`CheckedAsMeant`), since the checks of `ClientProofs` leave nothing else: a DPoP proof names
  method, URL and token, and a PoP is signed by the key that the attestation beside it
  gives to one client. It rests on what is known of clients and attesters:
  `DpopAssumption` (a proof says what it was made for, and a URL is used with a token or
  without, as the routes do), `AttesterAssumption` (a key is attested for one client) and
  `SignatureAssumption` (what a key signs for this server its owner sent here).
* **`StatusLists_proofs`**: `ListTypes`, `PaddingStaysZero`, and the two refinements
  `TokenListIsArray` and `BitstringIsArray`, for every size, capacity and entry width, as seen
  by the readers of the published bytes (`GetIsPublished`, `StatusIsPublished`). `TypeOK` is
  inductive and enough for all of them. The lemmas go from quotients and remainders
  (`DivDiv`, `DivThenMod`, `ModMod`: shifts and masks compose) to one byte (`FieldWritten`,
  `FieldKept`: a write changes its field and no field apart from it) to a list
  (`TokenSetWrites`, `BitSetWrites`: two indices of one byte have fields apart, two bytes
  are separate). The widths are the four the code allows; `2^n` is only ever needed up to
  eight and hidden behind `Bit`, whose nine values are computed.
* **`MdocCredentials_proofs`**: for any keys, requests, lifetimes in days, ticks a day,
  number of roots, mdocs and responses.
  * `IssuedVerifies`: `Spec => []IssuedMdocVerifies`. `IssuedInv`: an mdoc that was signed was
    signed while its certificate was valid (`issue` refuses otherwise) and under a root
    minted no later. With that the property is arithmetic in days: `signed`, rounded down
    to a day, is not before the certificate's `notBefore`, which is a day early, and
    `validUntil`, the earlier of two ends rounded down, is not after its `notAfter`.
  * `AcceptedIsPresented`: `Spec => []AcceptedWasPresented`. `KnownInv`: what is sent is of mdocs
    that exist, and what is trusted are minted roots; no step changes either
    (`MdocsKept`, `AnswerKept`). A delivered response has the issuer's signature of one sent
    response, items of another and a device signature of a third (`DeliverableShape`);
    verification then forces them together: the digest of an item contains its salt,
    which names the mdoc, the device signature is by the key in the MSO and over the
    request, and the chain names its root. A first form of the property, that exactly
    what the holder revealed is read, was found false in the attempt: items can be
    dropped. The property and the run's network were corrected.
* **`StatusPublication_proofs`**, first part, `StatusManager`: `TypeCorrect`, `EncodingsAlwaysAgree`, and
  `RegistryImplemented`: `Spec => Registry!Spec`, by the invariant that every handle
  given to a credential is allocated (`HandlesAllocated`), so a drawn index is new.
* **`StatusPublication_proofs`**, second part: `PublicationImplementsManager`: `PublicationSpec => Spec` of
  the manager, which brings in `EncodingsAgree`; and `RevocationsAreSeenInTime`:
  `PublicationSpec => []RevocationSeenInTime`, for every `ttl`, handler time and timeout.
  `PublicationInv` gives every station of a list an instant before which all revocations
  show in it: the time of copying, then the later of `iat` less a handler's time and the
  time of asking, then the time of receipt less the timeout. Each step to the next
  station loses at most the time it may take.
* **`VerifierSessions_proofs`**
  * `TypeCorrect`, `MapsStayInverse`, `PresentationsAreNotReplayed`. `VerifierInv`: a
    handler's copy of a session is the session as it was created, also after another
    handler has deleted it; and what has passed is bound to the nonce of its session.
  * `AcceptedIsMade`: `Spec => []AcceptedIsWhatHolderMade`, for any tokens. What has passed
    passed every check (`ResultsChecked`); its key binding JWT is then a holder's, the JWT
    contains the hash of the presentation it was made for, and equal hashes with equal
    last parts make equal presentations. It rests on `WalletAssumption`: what the
    constant `Made` records of a presentation is what is in it, and a holder's key is only
    used for its own presentations. Tokens cut, extended or mixed from those of the
    holders satisfy the assumption, and the run's are such.
* **`Startup_proofs`**: `KeysSurviveRestarts`, `RootsSurviveRestarts` and
  `ServersAreCertified`, for any configuration, number of starts and crashes. `StartupInv`:
  what has been signed with is what is in the file; a file being written has never been
  used; a bundle that has been served since is whole, so it is never taken for the
  one-certificate bundle that start-up replaces, and the root of such a bundle is the
  one exception in `RootSurvives`; and what is in memory is whole and on disk where a
  path is configured.

The assumptions are those the modules state: bounds and TTLs are natural numbers,
`NONE` is none of the values it stands beside (in `Startup`: no file is not a bundle),
codes of the two kinds differ, requests carry values of the right kind and their
proofs are a list, wallets are those of `WalletAssumption`, clients and attesters those of
`DpopAssumption`, `AttesterAssumption` and `SignatureAssumption`, and the issuer's and holders' keys are
P-256 keys (`MdocAssumption`). TLC evaluates them in
the runs.

Only model-checked: the liveness properties (`RequestsAreAnswered`,
`ReplayStopsIssuance`, `RevokedIsEventuallyRejected`), which are out of this prover's reach.
Every invariant and every other action or refinement property of a passing run is
stated by a theorem. The violated properties have their counterexamples.

## 5. Not modelled

* Routing, extractors, middleware, the types crate, the consent page, display texts
  and log output keep no state, and nothing is decided there that an endpoint does not
  decide again. The admin token is a comparison with a constant.
* Encodings: base64url, CBOR, PEM and DER, JSON, URL parsing. A malformed encoding is
  refused before any state changes.
* X.509 extensions that nothing in the repository checks; key generation; file
  permissions.
* The unsigned StatusList2021 document (a view of a list whose two encodings are
  compared already), compression and `decode` of lists, which only relying parties use.
* DCQL: nested claim paths and the query builder. Claims are top-level names.
* Forms refused without an effect: the legacy `proof` parameter, other proof types, a
  private key in a JWK. The replay key of a PoP joins issuer and jti with a colon; two
  pairs that give one key can only cause a refusal, and are left out.

## 6. State and plan

Done: the flows of the issuer and the verifier and their composition, the status service
up to a relying party, the life of an mdoc, the cryptographic checks, start-up, and a
theorem for every safety property that the passing runs check.

Open: DCQL with nested paths against a reference definition; a proof that store calls
which take their mutexes in the order of a rank never wait in a circle, once the code
has such an order; `decode` of published lists.
