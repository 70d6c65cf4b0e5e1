------------------------------ MODULE IssuerSystem ------------------------------
(***************************************************************************)
(* The issuer as a whole: the authorization server (AuthorizationFlow) and *)
(* the nonce and credential endpoints (CredentialEndpoint) over one        *)
(* IssuerState and one clock.  Access tokens are minted and revoked by the *)
(* first while requests of the second are using them.                      *)
(***************************************************************************)
EXTENDS AuthorizationFlow, Sequences

CONSTANTS
    CredentialWorkers,  \* handlers of the credential endpoint
    CredentialRequests, \* the credential requests wallets send
    Nonces, ISSUER_URL, BATCH_SIZE, LIST_CAPACITY, C_NONCE_TTL, PROOF_MAX_AGE

VARIABLES c_nonces, allocated, credential_job, handed_out, responses

credential_vars == <<c_nonces, allocated, credential_job, handed_out, responses>>
authorization_vars ==
    <<sessions, code_to_uri, pre_auth_codes, tokens_by_code, job, origin, approver,
      replayed, denied>>
system_vars == <<vars, credential_vars>>

\* The tokens and the clock are those of AuthorizationFlow.
CE == INSTANCE CredentialEndpoint
        WITH Workers <- CredentialWorkers, Requests <- CredentialRequests,
             Grants <- EmptyMap, job <- credential_job

SystemInit == Init /\ CE!InitEndpoint

\* A step of the authorization server.
AuthorizationStep ==
    /\ \/ \E r \in ParRequests : Par(r)
       \/ \E o \in Offers : CredentialOffer(o)
       \/ \E w \in Workers :
           \/ Handler(w)
           \/ \E uri \in Uris, client \in Clients : DecisionResolve(w, uri, client)
           \/ \E r \in TokenRequests, code \in Codes : TokenLookup(w, r, code)
           \/ \E r \in TokenRequests, code \in PreAuthCodes : RedeemPreAuthorizedCode(w, r, code)
    /\ UNCHANGED credential_vars

\* A step of the nonce or credential endpoint.
CredentialStep ==
    /\ \/ CE!Nonce
       \/ \E t \in Tokens : CE!AuthorizeExpired(t)
       \/ \E w \in CredentialWorkers :
           CE!Handler(w) \/ \E r \in CredentialRequests : CE!Authorize(w, r)
    /\ UNCHANGED authorization_vars

SystemTick == Tick /\ UNCHANGED credential_vars

SystemNext == AuthorizationStep \/ CredentialStep \/ SystemTick

SystemSpec == SystemInit /\ [][SystemNext]_system_vars

\* Handlers run to their end, those of either endpoint.
FairSystemSpec ==
    /\ SystemSpec
    /\ \A w \in Workers : WF_system_vars(Handler(w) /\ UNCHANGED credential_vars)
    /\ \A w \in CredentialWorkers :
           WF_system_vars(CE!Handler(w) /\ UNCHANGED authorization_vars)

-------------------------------------------------------------------------------
\* Properties.

\* What was consented to behind a token: the configurations of the pushed request
\* the user approved, or those of the offer.
Consented(t) ==
    IF FromCode(t) THEN SessionOf(t).configs ELSE pre_auth_codes[origin[t].code].configs

\* Every credential handed out goes back, through its access token and the code
\* the token came from, to a request the user approved or an offer the issuer
\* made for that configuration, and came to the key that was bound on the way
\* (authorization.rs, token.rs and credential.rs, each checking its own part).
CredentialsTraceToConsent ==
    \A i \in 1..Len(responses) :
        LET t == responses[i].request.token
        IN  /\ t \in DOMAIN origin
            /\ responses[i].config \in Consented(t)
            /\ FromCode(t) =>
                 /\ responses[i].request.is_dpop
                 /\ SessionOf(t).dpop_jkt \in {NONE, responses[i].request.jkt}
                 /\ SessionOf(t).consumed

\* Once a replayed code has led to a token, the credential endpoint comes to a
\* stop for that token: requests in flight end and no other is let in (token.rs:
\* "a replayed code revokes what it already minted").  It is stated for the token
\* the replay takes out of tokens_by_code and not for every token of the code:
\* redemptions in progress together can mint two, of which one is recorded (README,
\* "Findings"); LiveTokenIsRevocable says which tokens a replay finds.
ReplayStopsIssuance ==
    \A t \in Tokens :
        (\E w \in Workers : job[w].at = "drop" /\ job[w].token = t) ~>
            [](\A w \in CredentialWorkers :
                  credential_job[w].at # "idle" => credential_job[w].request.token # t)

===============================================================================
