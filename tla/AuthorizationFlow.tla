--------------------------- MODULE AuthorizationFlow ---------------------------
(***************************************************************************)
(* The issuer's authorization server: pushed authorization requests, the   *)
(* user's decision, and the token endpoint with its two grants, over the   *)
(* in-memory IssuerState.                                                  *)
(*                                                                         *)
(* Every IssuerState method holds its mutexes for its whole body, so one   *)
(* call is one atomic step; between two calls of a handler any other       *)
(* handler may run.  job[w] is what the handler running on worker w still  *)
(* has to do, with the local values it has read: those are what can be     *)
(* stale.  A request that is refused before it changes anything leaves no  *)
(* trace and is not an action.                                             *)
(*                                                                         *)
(* UUIDs are drawn from finite sets and are always fresh.  One Option::None *)
(* is the constant NONE.                                                   *)
(***************************************************************************)
EXTENDS Integers, FiniteSets, HashMaps

CONSTANTS
    Workers,            \* request handlers that can be in progress at once
    Uris,               \* request_uri values PAR can generate
    Codes,              \* authorization codes that can be generated
    PreAuthCodes,       \* pre-authorized codes that can be generated
    Tokens,             \* access tokens that can be generated
    Clients, Keys,      \* wallet clients; DPoP key thumbprints
    Redirects,          \* redirect URIs
    Verifiers,          \* PKCE code verifiers
    TxCodes,            \* transaction codes
    Configs, Scopes,    \* credential configuration IDs and scope values
    ScopeOf,            \* the scope of each supported configuration
    ParRequests,        \* pushed requests the clients send
    TokenRequests,      \* token requests, without the code they present
    Offers,             \* pre-authorized offers: [tx_code, configs]
    NONE,               \* Option::None
    TicksPerSecond,     \* clock resolution
    REQUEST_URI_TTL, AUTHORIZATION_CODE_TTL, ACCESS_TOKEN_TTL,   \* seconds
    MaxTime             \* bound on the clock, in ticks

ASSUME TimeAssumption ==
    /\ TicksPerSecond \in Nat \ {0}
    /\ REQUEST_URI_TTL \in Nat /\ AUTHORIZATION_CODE_TTL \in Nat
    /\ ACCESS_TOKEN_TTL \in Nat /\ MaxTime \in Nat

ASSUME NoneAssumption ==
    NONE \notin Uris \cup Codes \cup PreAuthCodes \cup Tokens \cup Clients \cup Keys

\* What a request can carry.
ASSUME RequestAssumption ==
    /\ \A r \in ParRequests :
        /\ r.redirect_uri \in Redirects
        /\ r.attested_client \in Clients \cup {NONE}
        /\ r.dpop_jkt \in Keys \cup {NONE} /\ r.proof_jkt \in Keys \cup {NONE}
        /\ r.code_challenge \in {<<"S256", v>> : v \in Verifiers} \cup {NONE}
    /\ \A r \in TokenRequests :
        /\ r.authenticated_client \in Clients \cup {NONE}
        /\ r.dpop_jkt \in Keys \cup {NONE}
    /\ \A o \in Offers : o.tx_code \in TxCodes \cup {NONE}

\* No UUID is both an authorization code and a pre-authorized code.
ASSUME CodesAssumption == Codes \cap PreAuthCodes = {}

Option(S) == S \cup {NONE}

VARIABLES
    sessions,           \* request_uri -> AuthorizationSession
    code_to_uri,        \* authorization code -> request_uri
    pre_auth_codes,     \* pre-authorized code -> PreAuthEntry
    access_tokens,      \* access token -> grant and expiry
    tokens_by_code,     \* authorization code -> token to revoke on replay
    job,                \* worker -> what its handler still has to do
    now,                \* the clock
    origin,             \* history: token -> how and on which worker it was obtained
    approver,           \* history: authorization code -> worker that gave it out
    replayed,           \* history: codes refused with CodeConsumed
    denied              \* history: request_uris the user has denied

store == <<sessions, code_to_uri, pre_auth_codes, access_tokens, tokens_by_code>>
history == <<origin, approver, replayed, denied>>
vars == <<store, job, now, history>>

-------------------------------------------------------------------------------
\* What the store and the handlers hold.

Grant == [configs : SUBSET Configs, by_identifier : BOOLEAN, dpop_jkt : Option(Keys)]

\* PKCE S256 of a verifier: SHA-256 is taken to be injective.
S256(verifier) == <<"S256", verifier>>

AuthorizationSession ==
    [request_uri : Uris, client_id : Clients, redirect_uri : Redirects,
     code_challenge : {S256(v) : v \in Verifiers}, configs : SUBSET Configs,
     via_authorization_details : BOOLEAN, dpop_jkt : Option(Keys),
     created_at : Nat, authorization_code : Option(Codes),
     code_issued_at : Nat \cup {-1}, consumed : BOOLEAN]

PreAuthEntry == [tx_code : Option(TxCodes), configs : SUBSET Configs, consumed : BOOLEAN]

TokenEntry == [grant : Grant, expires_at : Nat]

IdleJob == [at |-> "idle"]

DecideJob  == [at : {"decide"}, uri : Uris]
CheckJob   == [at : {"check"}, code : Codes, request : TokenRequests,
               session : AuthorizationSession]
ConsumeJob == [at : {"consume"}, code : Codes, client : Clients, grant : Grant]
StoreJob   == [at : {"store"}, code : Codes \cup PreAuthCodes,
               client : Option(Clients), grant : Grant]
RecordJob  == [at : {"record"}, code : Codes, token : Tokens]
RevokeJob  == [at : {"revoke"}, code : Codes]
DropJob    == [at : {"drop"}, code : Codes, token : Tokens]

Job == {IdleJob} \cup DecideJob \cup CheckJob \cup ConsumeJob \cup StoreJob
         \cup RecordJob \cup RevokeJob \cup DropJob

Origin == [code : Codes \cup PreAuthCodes, client : Option(Clients), grant : Grant,
           by : Workers]

Init ==
    /\ sessions = EmptyMap
    /\ code_to_uri = EmptyMap
    /\ pre_auth_codes = EmptyMap
    /\ access_tokens = EmptyMap
    /\ tokens_by_code = EmptyMap
    /\ job = [w \in Workers |-> IdleJob]
    /\ now = 0
    /\ origin = EmptyMap
    /\ approver = EmptyMap
    /\ replayed = {}
    /\ denied = {}

\* chrono's num_seconds(): whole seconds, truncated.
Seconds(ticks) == ticks \div TicksPerSecond

Goto(w, j) == job' = [job EXCEPT ![w] = j]

-------------------------------------------------------------------------------
\* Pushed authorization requests.

\* The configurations a request asks for, by authorization_details or by
\* scope; {} when the request is to be refused.
RequestedConfigurations(r) ==
    IF r.authorization_details # NONE
    THEN IF r.authorization_details \subseteq Configs THEN r.authorization_details ELSE {}
    ELSE {c \in Configs : ScopeOf[c] \in r.scope}

\* A DPoP proof and a dpop_jkt parameter must name the same key.
DpopJktAgrees(r) == r.dpop_jkt = NONE \/ r.proof_jkt = NONE \/ r.dpop_jkt = r.proof_jkt

ParAccepted(r) ==
    /\ r.attested_client # NONE
    /\ r.request_uri = NONE
    /\ r.client_id = r.attested_client
    /\ DpopJktAgrees(r)
    /\ r.response_type = "code"
    /\ r.code_challenge_method = "S256"
    /\ r.code_challenge # NONE
    /\ RequestedConfigurations(r) # {}

NewSession(r, uri) ==
    [request_uri |-> uri, client_id |-> r.client_id, redirect_uri |-> r.redirect_uri,
     code_challenge |-> r.code_challenge, configs |-> RequestedConfigurations(r),
     via_authorization_details |-> r.authorization_details # NONE,
     dpop_jkt |-> IF r.proof_jkt # NONE THEN r.proof_jkt ELSE r.dpop_jkt,
     created_at |-> now, authorization_code |-> NONE, code_issued_at |-> -1,
     consumed |-> FALSE]

\* POST /authorize/par: its only write is the new session.
Par(r) ==
    /\ ParAccepted(r)
    /\ \E uri \in Uris \ DOMAIN sessions :
           sessions' = Put(sessions, uri, NewSession(r, uri))
    /\ UNCHANGED <<code_to_uri, pre_auth_codes, access_tokens, tokens_by_code,
                   job, now, history>>

-------------------------------------------------------------------------------
\* The user's decision.

\* Mutant of Resolvable: a request_uri with a code is not spent.
ResolvableAgain(uri, client) ==
    /\ uri \in DOMAIN sessions
    /\ sessions[uri].client_id = client
    /\ now - sessions[uri].created_at < REQUEST_URI_TTL * TicksPerSecond

\* A request_uri that can still be decided on: right client, young enough,
\* and no code given out for it.
Resolvable(uri, client) ==
    /\ uri \in DOMAIN sessions
    /\ sessions[uri].client_id = client
    /\ now - sessions[uri].created_at < REQUEST_URI_TTL * TicksPerSecond
    /\ sessions[uri].authorization_code = NONE

\* POST /authorize/decision, first step: read the session and check it.
DecisionResolve(w, uri, client) ==
    /\ job[w].at = "idle"
    /\ Resolvable(uri, client)
    /\ Goto(w, [at |-> "decide", uri |-> uri])
    /\ UNCHANGED <<store, now, history>>

\* Mutant of SetAuthorizationCode: the code is not indexed.
SetAuthorizationCodeUnindexed(uri, code) ==
    /\ sessions' = [sessions EXCEPT ![uri].authorization_code = code,
                                    ![uri].code_issued_at = now]
    /\ UNCHANGED code_to_uri

\* set_authorization_code: overwrites whatever code the session had.
SetAuthorizationCode(uri, code) ==
    /\ sessions' = [sessions EXCEPT ![uri].authorization_code = code,
                                    ![uri].code_issued_at = now]
    /\ code_to_uri' = Put(code_to_uri, code, uri)

\* ... and the decision itself: approval generates a code.
DecisionApprove(w) ==
    /\ job[w].at = "decide"
    /\ \E code \in Codes \ DOMAIN code_to_uri :
        /\ SetAuthorizationCode(job[w].uri, code)
        /\ approver' = Put(approver, code, w)
    /\ Goto(w, IdleJob)
    /\ UNCHANGED <<pre_auth_codes, access_tokens, tokens_by_code, now, origin, replayed,
                   denied>>

\* Denial only redirects: nothing is written.
DecisionDeny(w) ==
    /\ job[w].at = "decide"
    /\ denied' = denied \cup {job[w].uri}
    /\ Goto(w, IdleJob)
    /\ UNCHANGED <<store, now, origin, approver, replayed>>

-------------------------------------------------------------------------------
\* The token endpoint, authorization_code grant.

\* process_token_request's client check and the two requirements checked
\* before the store is read.
ClientAuthenticated(r) ==
    /\ r.authenticated_client # NONE
    /\ r.client_id \in {NONE, r.authenticated_client}

\* get_session_by_code: a snapshot of the session; a consumed one is a replay.
TokenLookup(w, r, code) ==
    /\ job[w].at = "idle"
    /\ r.grant_type = "authorization_code"
    /\ ClientAuthenticated(r)
    /\ code \in DOMAIN code_to_uri
    /\ LET session == sessions[code_to_uri[code]]
       IN  Goto(w, IF session.consumed
                   THEN [at |-> "revoke", code |-> code]
                   ELSE [at |-> "check", code |-> code, request |-> r, session |-> session])
    /\ UNCHANGED <<store, now, history>>

\* The code's age, against the snapshot.
CodeAlive(session) == Seconds(now - session.code_issued_at) <= AUTHORIZATION_CODE_TTL

\* Mutant of DpopKeyAccepted: the key bound at PAR is ignored.
DpopKeyPresent(session, jkt) == jkt # NONE

\* HAIP: a DPoP key is required, and the one bound at PAR if there was one.
DpopKeyAccepted(session, jkt) ==
    /\ jkt # NONE
    /\ session.dpop_jkt \in {NONE, jkt}

CodeAccepted(session, r) ==
    /\ CodeAlive(session)
    /\ session.client_id = r.authenticated_client
    /\ r.redirect_uri = session.redirect_uri
    /\ r.code_verifier # NONE /\ S256(r.code_verifier) = session.code_challenge
    /\ DpopKeyAccepted(session, r.dpop_jkt)

TokenAccept(w) ==
    /\ job[w].at = "check"
    /\ CodeAccepted(job[w].session, job[w].request)
    /\ Goto(w, [at |-> "consume", code |-> job[w].code,
                client |-> job[w].request.authenticated_client,
                grant |-> [configs |-> job[w].session.configs,
                           by_identifier |-> job[w].session.via_authorization_details,
                           dpop_jkt |-> job[w].request.dpop_jkt]])
    /\ UNCHANGED <<store, now, history>>

TokenReject(w) ==
    /\ job[w].at = "check"
    /\ ~CodeAccepted(job[w].session, job[w].request)
    /\ Goto(w, IdleJob)
    /\ UNCHANGED <<store, now, history>>

\* Mutant of ConsumeAuthorizationCode: the flag is set on a copy.
ConsumeACopy(code) == UNCHANGED sessions

\* consume_authorization_code: sets the flag whatever it was.
ConsumeAuthorizationCode(code) ==
    sessions' = [sessions EXCEPT ![code_to_uri[code]].consumed = TRUE]

TokenConsume(w) ==
    /\ job[w].at = "consume"
    /\ ConsumeAuthorizationCode(job[w].code)
    /\ Goto(w, [at |-> "store", code |-> job[w].code, client |-> job[w].client,
                grant |-> job[w].grant])
    /\ UNCHANGED <<code_to_uri, pre_auth_codes, access_tokens, tokens_by_code,
                   now, history>>

\* Mutant of TokenStore: a token of either grant is recorded under its code.
TokenStoreRecordsBoth(w) ==
    /\ job[w].at = "store"
    /\ \E token \in Tokens \ DOMAIN origin :
        /\ access_tokens' =
               Put(access_tokens, token,
                   [grant |-> job[w].grant,
                    expires_at |-> now + ACCESS_TOKEN_TTL * TicksPerSecond])
        /\ origin' = Put(origin, token, [code |-> job[w].code, client |-> job[w].client,
                                         grant |-> job[w].grant, by |-> w])
        /\ Goto(w, [at |-> "record", code |-> job[w].code, token |-> token])
    /\ UNCHANGED <<sessions, code_to_uri, pre_auth_codes, tokens_by_code, now,
                   approver, replayed, denied>>

\* issue_access_token, for either grant; a pre-authorized grant ends here.
TokenStore(w) ==
    /\ job[w].at = "store"
    /\ \E token \in Tokens \ DOMAIN origin :
        /\ access_tokens' =
               Put(access_tokens, token,
                   [grant |-> job[w].grant,
                    expires_at |-> now + ACCESS_TOKEN_TTL * TicksPerSecond])
        /\ origin' = Put(origin, token, [code |-> job[w].code, client |-> job[w].client,
                                         grant |-> job[w].grant, by |-> w])
        /\ Goto(w, IF job[w].code \in Codes
                   THEN [at |-> "record", code |-> job[w].code, token |-> token]
                   ELSE IdleJob)
    /\ UNCHANGED <<sessions, code_to_uri, pre_auth_codes, tokens_by_code, now,
                   approver, replayed, denied>>

\* Mutant of TokenRecord: the token is not recorded for revocation.
TokenRecordSkipped(w) ==
    /\ job[w].at = "record"
    /\ Goto(w, IdleJob)
    /\ UNCHANGED <<store, now, history>>

\* record_token_for_code: one token per code, the last one recorded.
TokenRecord(w) ==
    /\ job[w].at = "record"
    /\ tokens_by_code' = Put(tokens_by_code, job[w].code, job[w].token)
    /\ Goto(w, IdleJob)
    /\ UNCHANGED <<sessions, code_to_uri, pre_auth_codes, access_tokens, now, history>>

\* revoke_tokens_for_code takes the recorded token out under one mutex ...
RevokeTake(w) ==
    /\ job[w].at = "revoke"
    /\ LET code == job[w].code IN
        \/ /\ code \in DOMAIN tokens_by_code
           /\ Goto(w, [at |-> "drop", code |-> code, token |-> tokens_by_code[code]])
           /\ UNCHANGED replayed
        \/ /\ code \notin DOMAIN tokens_by_code
           /\ Goto(w, IdleJob)
           /\ replayed' = replayed \cup {code}
    /\ tokens_by_code' = Drop(tokens_by_code, job[w].code)
    /\ UNCHANGED <<sessions, code_to_uri, pre_auth_codes, access_tokens, now,
                   origin, approver, denied>>

\* Mutant of RevokeDrop: every token for the same configurations is removed.
RevokeDropSimilar(w) ==
    /\ job[w].at = "drop"
    /\ access_tokens' =
           [t \in {u \in DOMAIN access_tokens :
                      origin[u].grant.configs # origin[job[w].token].grant.configs}
              |-> access_tokens[t]]
    /\ replayed' = replayed \cup {job[w].code}
    /\ Goto(w, IdleJob)
    /\ UNCHANGED <<sessions, code_to_uri, pre_auth_codes, tokens_by_code, now,
                   origin, approver, denied>>

\* Mutant of RevokeDrop: the token is only forgotten, not removed.
RevokeDropNothing(w) ==
    /\ job[w].at = "drop"
    /\ replayed' = replayed \cup {job[w].code}
    /\ Goto(w, IdleJob)
    /\ UNCHANGED <<store, now, origin, approver, denied>>

\* ... and removes it from the live tokens under another.
RevokeDrop(w) ==
    /\ job[w].at = "drop"
    /\ access_tokens' = Drop(access_tokens, job[w].token)
    /\ replayed' = replayed \cup {job[w].code}
    /\ Goto(w, IdleJob)
    /\ UNCHANGED <<sessions, code_to_uri, pre_auth_codes, tokens_by_code, now,
                   origin, approver, denied>>

-------------------------------------------------------------------------------
\* Credential offers and the pre-authorized_code grant.

CredentialOffer(o) ==
    /\ o.configs \subseteq Configs
    /\ \E code \in PreAuthCodes \ DOMAIN pre_auth_codes :
           pre_auth_codes' = Put(pre_auth_codes, code,
                                 [tx_code |-> o.tx_code, configs |-> o.configs,
                                  consumed |-> FALSE])
    /\ UNCHANGED <<sessions, code_to_uri, access_tokens, tokens_by_code, job, now, history>>

\* Mutant of Redeemable: a consumed code is accepted again.
RedeemableAgain(code, tx_code) ==
    /\ code \in DOMAIN pre_auth_codes
    /\ pre_auth_codes[code].tx_code = tx_code

\* redeem_pre_authorized_code's test, made under the same lock as its write.
Redeemable(code, tx_code) ==
    /\ code \in DOMAIN pre_auth_codes
    /\ ~pre_auth_codes[code].consumed
    /\ pre_auth_codes[code].tx_code = tx_code

RedeemPreAuthorizedCode(w, r, code) ==
    /\ job[w].at = "idle"
    /\ r.grant_type = "pre-authorized_code"
    /\ r.client_id = NONE \/ r.authenticated_client = NONE \/ r.client_id = r.authenticated_client
    /\ Redeemable(code, r.tx_code)
    /\ pre_auth_codes' = [pre_auth_codes EXCEPT ![code].consumed = TRUE]
    /\ Goto(w, [at |-> "store", code |-> code, client |-> r.authenticated_client,
                grant |-> [configs |-> pre_auth_codes[code].configs, by_identifier |-> FALSE,
                           dpop_jkt |-> r.dpop_jkt]])
    /\ UNCHANGED <<sessions, code_to_uri, access_tokens, tokens_by_code, now, history>>

-------------------------------------------------------------------------------
\* get_access_grant: reading an expired token removes it.
ExpireAccessToken(token) ==
    /\ token \in DOMAIN access_tokens
    /\ now >= access_tokens[token].expires_at
    /\ access_tokens' = Drop(access_tokens, token)
    /\ UNCHANGED <<sessions, code_to_uri, pre_auth_codes, tokens_by_code, job, now, history>>

Tick ==
    /\ now < MaxTime
    /\ now' = now + 1
    /\ UNCHANGED <<store, job, history>>

Handler(w) ==
    \/ DecisionApprove(w) \/ DecisionDeny(w)
    \/ TokenAccept(w) \/ TokenReject(w) \/ TokenConsume(w) \/ TokenStore(w) \/ TokenRecord(w)
    \/ RevokeTake(w) \/ RevokeDrop(w)

Next ==
    \/ \E r \in ParRequests : Par(r)
    \/ \E o \in Offers : CredentialOffer(o)
    \/ \E w \in Workers :
        \/ Handler(w)
        \/ \E uri \in Uris, client \in Clients : DecisionResolve(w, uri, client)
        \/ \E r \in TokenRequests, code \in Codes : TokenLookup(w, r, code)
        \/ \E r \in TokenRequests, code \in PreAuthCodes : RedeemPreAuthorizedCode(w, r, code)
    \/ \E token \in Tokens : ExpireAccessToken(token)
    \/ Tick

Spec == Init /\ [][Next]_vars

-------------------------------------------------------------------------------
\* Properties.

TypeOK ==
    /\ DOMAIN sessions \subseteq Uris
    /\ sessions \in [DOMAIN sessions -> AuthorizationSession]
    /\ DOMAIN code_to_uri \subseteq Codes
    /\ code_to_uri \in [DOMAIN code_to_uri -> DOMAIN sessions]
    /\ DOMAIN pre_auth_codes \subseteq PreAuthCodes
    /\ pre_auth_codes \in [DOMAIN pre_auth_codes -> PreAuthEntry]
    /\ DOMAIN access_tokens \subseteq DOMAIN origin
    /\ access_tokens \in [DOMAIN access_tokens -> TokenEntry]
    /\ DOMAIN tokens_by_code \subseteq DOMAIN code_to_uri
    /\ tokens_by_code \in [DOMAIN tokens_by_code -> DOMAIN origin]
    /\ job \in [Workers -> Job]
    /\ now \in Nat
    /\ DOMAIN origin \subseteq Tokens
    /\ origin \in [DOMAIN origin -> Origin]
    /\ approver \in [DOMAIN code_to_uri -> Workers]
    /\ replayed \subseteq DOMAIN code_to_uri
    /\ denied \subseteq DOMAIN sessions

\* The tokens that came from an authorization code (code_to_uri never forgets one).
FromCode(t) == origin[t].code \in Codes

SessionOf(t) == sessions[code_to_uri[origin[t].code]]

\* A token obtained with a code went to the client that pushed the request, for
\* the configurations the user saw, and is bound to a DPoP key: the one bound at
\* PAR when there was one.  The handler decides this from a snapshot it took
\* several steps before it stores the token (token.rs, process_authorization_code_grant).
TokenMatchesSession ==
    \A t \in DOMAIN origin : FromCode(t) =>
        /\ origin[t].code \in DOMAIN code_to_uri
        /\ origin[t].client = SessionOf(t).client_id
        /\ origin[t].grant.configs = SessionOf(t).configs
        /\ origin[t].grant.dpop_jkt # NONE
        /\ SessionOf(t).dpop_jkt \in {NONE, origin[t].grant.dpop_jkt}

\* The session behind every token in existence is already consumed, so a request
\* that starts later is refused (token.rs consumes before it mints).
MintedMeansConsumed ==
    \A t \in DOMAIN origin : FromCode(t) => SessionOf(t).consumed

\* A pre-authorized code yields at most one token, whatever the interleaving:
\* redeem_pre_authorized_code tests and sets under one lock.
PreAuthorizedCodeSingleUse ==
    \A t, u \in DOMAIN origin :
        origin[t].code = origin[u].code /\ origin[t].code \in PreAuthCodes => t = u

\* code_to_uri and the sessions agree: the code a session holds leads back to it,
\* and a session can only have been consumed through a code.
CodesLeadToTheirSession ==
    \A u \in DOMAIN sessions :
        /\ sessions[u].authorization_code # NONE =>
              /\ sessions[u].authorization_code \in DOMAIN code_to_uri
              /\ code_to_uri[sessions[u].authorization_code] = u
              /\ sessions[u].code_issued_at >= sessions[u].created_at
        /\ sessions[u].consumed => sessions[u].authorization_code # NONE

\* A live token only ever disappears because it expired or because the code it
\* came from was presented again: a replay never revokes somebody else's token.
RevocationIsTargeted ==
    [][\A t \in DOMAIN access_tokens \ DOMAIN access_tokens' :
          \/ now >= access_tokens[t].expires_at
          \/ \E w \in Workers : job[w].at = "drop" /\ job[w].code = origin[t].code]_vars

\* Of one pushed request a worker gives out at most one code: decisions that are
\* not in progress together cannot both give one out, since the one that begins
\* later finds authorization_code set (routes/issuer.rs, resolve_request_uri; the
\* workers are alike, so a later decision could have run on the same one).
OneCodePerWorker ==
    \A c, d \in DOMAIN code_to_uri :
        code_to_uri[c] = code_to_uri[d] /\ approver[c] = approver[d] => c = d

\* Of one pushed request a worker mints at most one token, also when overlapping
\* approvals have given out several codes for it: a redemption that begins after
\* another has consumed the session is refused (token.rs, CodeConsumed), and only
\* redemptions in progress together can both mint.
OneTokenPerWorker ==
    \A t, u \in DOMAIN origin :
        /\ FromCode(t) /\ FromCode(u)
        /\ code_to_uri[origin[t].code] = code_to_uri[origin[u].code]
        /\ origin[t].by = origin[u].by
        => t = u

\* A replay can still find every live token minted with a code: it is recorded
\* under the code, or its handler is about to record it, or a replay has taken it
\* and is about to remove it.  The only ones that escape are those whose code has
\* minted another token (token.rs and state.rs, record_token_for_code).
LiveTokenIsRevocable ==
    \A t \in DOMAIN access_tokens : FromCode(t) =>
        LET code == origin[t].code
        IN  \/ code \in DOMAIN tokens_by_code /\ tokens_by_code[code] = t
            \/ \E w \in Workers : job[w].at \in {"record", "drop"} /\ job[w].token = t
            \/ \E u \in DOMAIN origin \ {t} : origin[u].code = code

-------------------------------------------------------------------------------
\* What the documents say; with two handlers, or a denial, the code breaks each of
\* these (README, "Findings").

\* At most one code is ever given out for a request_uri
\* (README: a request_uri "is single-use").
RequestUriSingleUse ==
    \A c, d \in DOMAIN code_to_uri : code_to_uri[c] = code_to_uri[d] => c = d

\* A request_uri the user denied never yields a code (routes/issuer.rs: it "is
\* spent once a decision is made").
DeniedIsSpent == \A u \in denied : u \notin {code_to_uri[c] : c \in DOMAIN code_to_uri}

\* An authorization code yields at most one token (RFC 6749 single use, TokenError::CodeConsumed).
CodeSingleUse ==
    \A t, u \in DOMAIN origin : origin[t].code = origin[u].code => t = u

\* Once a replay has been answered, no token of that code is alive, unless a
\* request for the code is still running ("a replayed code revokes what it already minted").
ReplayedCodeHasNoToken ==
    \A c \in replayed :
        (\A w \in Workers : job[w].at = "idle" \/ (job[w].at # "decide" => job[w].code # c))
          => \A t \in DOMAIN access_tokens : origin[t].code # c

\* A code is not accepted once it is older than its lifetime (README:
\* "Authorization codes live 60 s"); the code compares whole seconds.
CodeLivesItsTtl ==
    [][\A w \in Workers : job[w].at = "check" /\ job'[w].at = "consume" =>
          now - job[w].session.code_issued_at <= AUTHORIZATION_CODE_TTL * TicksPerSecond]_vars

===============================================================================
