---------------------------- MODULE VerifierSessions ----------------------------
(***************************************************************************)
(* The OID4VP verifier: presentation sessions and the response endpoint.   *)
(* A session is looked up by the response's state, the presentation is     *)
(* checked against the copy that was read, and the session is deleted;     *)
(* other responses run in between.  The credentials and presentations are  *)
(* those of SdJwt.                                                         *)
(***************************************************************************)
EXTENDS SdJwt, HashMaps

CONSTANTS
    Workers,            \* request handlers that can be in progress at once
    Ids,                \* session ids that can be generated
    VpTokens,           \* vp_tokens that are sent, by name
    Made,               \* of those, the ones holders made: what for, and revealing what
    IssuerKey,          \* the key credentials must be signed with
    ClientId,           \* this verifier's client_id
    Query,              \* claims asked for: claim name -> accepted values, or NONE
    SESSION_EXPIRY,     \* in ticks
    MaxTime,            \* bound on the clock, in ticks
    MaxAccepted         \* bound on the history of accepted responses

ASSUME BoundAssumption ==
    SESSION_EXPIRY \in Nat /\ MaxTime \in Nat /\ MaxAccepted \in Nat

\* A token is a sequence of SdJwt's parts.
InParts(vp) ==
    /\ vp \in Seq({vp[i] : i \in DOMAIN vp})
    /\ \A i \in DOMAIN vp : vp[i].kind = "jwt" => vp[i] = JwtPart(vp[i].jwt)

\* What is known of the wallets (external).  A presentation that was made is bound
\* to what it was made for, and shows what its credential says; and a holder's key
\* signs for the holder's own credential in no other presentation.
MadeAsRecorded(vp, made) ==
    /\ KeyBindingJwt(vp) # NONE
    /\ KeyBindingJwt(vp).payload =
           [nonce |-> made.nonce, aud |-> made.audience, sd_hash |-> SdHash(vp)]
    /\ LET credential == vp[1].jwt.payload
       IN  /\ made.claims = MergedClaims(Disclosures(vp), credential.plain)
           /\ made.valid_from = credential.nbf /\ made.valid_until = credential.exp

SignedByHolder(vp) ==
    LET kb == KeyBindingJwt(vp)
        credential == vp[1].jwt.payload
    IN  /\ kb # NONE /\ vp[1].kind = "jwt"
        /\ kb.signature = KeySign(credential.cnf, <<kb.header, kb.payload>>)
        /\ DisclosuresSigned(Disclosures(vp), credential.sd)

ASSUME WalletAssumption ==
    /\ \A p \in DOMAIN VpTokens : InParts(VpTokens[p])
    /\ \A p, q \in DOMAIN VpTokens : VpTokens[p] = VpTokens[q] => p = q
    /\ \A m \in DOMAIN Made : m \in DOMAIN VpTokens /\ MadeAsRecorded(VpTokens[m], Made[m])
    /\ \A p \in DOMAIN VpTokens :
          SignedByHolder(VpTokens[p]) =>
              \E m \in DOMAIN Made : KeyBindingJwt(VpTokens[m]) = KeyBindingJwt(VpTokens[p])

VARIABLES
    sessions,           \* id -> VerifierSession
    state_to_id,        \* state parameter -> id
    job,                \* worker -> what its handler still has to do
    now,                \* the clock
    created,            \* history: id -> the session as it was created
    accepted            \* history: accepted presentations and their sessions

vars == <<sessions, state_to_id, job, now, created, accepted>>

Idle == [at |-> "idle"]

\* The UUIDs drawn for one request.
NonceOf(id) == <<"nonce", id>>
StateOf(id) == <<"state", id>>

Init ==
    /\ sessions = EmptyMap
    /\ state_to_id = EmptyMap
    /\ job = [w \in Workers |-> Idle]
    /\ now = 0
    /\ created = EmptyMap
    /\ accepted = <<>>

Goto(w, j) == job' = [job EXCEPT ![w] = j]

-------------------------------------------------------------------------------
\* Mutant of NewSession: nonce and state are swapped.
NewSessionSwapped(id) ==
    [id |-> id, nonce |-> StateOf(id), state |-> NonceOf(id),
     expires_at |-> now + SESSION_EXPIRY]

NewSession(id) ==
    [id |-> id, nonce |-> NonceOf(id), state |-> StateOf(id),
     expires_at |-> now + SESSION_EXPIRY]

\* POST /verifier/authorize: store_session writes both maps under both locks.
CreateAuthorization ==
    /\ \E id \in Ids \ DOMAIN created :
        LET session == NewSession(id)
        IN  /\ sessions' = Put(sessions, id, session)
            /\ state_to_id' = Put(state_to_id, session.state, id)
            /\ created' = Put(created, id, session)
    /\ UNCHANGED <<job, now, accepted>>

-------------------------------------------------------------------------------
\* Verification of a presentation.

\* verify_sd_jwt_vp: the claims, or NONE.  A credential without cnf is refused.
VerifySdJwtVp(vp, nonce) ==
    LET verified == VerifySdJwtVc(vp, IssuerKey, now)
    IN  IF /\ verified # NONE
           /\ verified.holder_jwk # NONE
           /\ VerifyKeyBinding(vp, verified.holder_jwk, nonce, ClientId)
        THEN verified.claims ELSE NONE

\* verify_jwt_vp: any JWT of the issuer's, valid now or not, and the claims of its
\* payload.  Of the registered ones only vct matters to a query.
VerifyJwtVp(vp) ==
    LET jwt == vp[1].jwt
    IN  IF vp[1].kind = "jwt" /\ VerifyCompact(jwt, IssuerKey)
        THEN Put(jwt.payload.plain, "vct", jwt.payload.vct)
        ELSE NONE

\* evaluate_credential_query: every claim asked for is there, with one of the
\* accepted values when there are any.
QuerySatisfied(claims) ==
    \A name \in DOMAIN Query :
        /\ name \in DOMAIN claims
        /\ Query[name] # NONE => claims[name] \in Query[name]

\* A token with '~' is taken for an SD-JWT VC and any other string for a plain
\* JWT.  The claims that answer the query, or NONE.
Verified(vp, nonce) ==
    LET claims == IF Len(vp) > 1 THEN VerifySdJwtVp(vp, nonce) ELSE VerifyJwtVp(vp)
    IN  IF claims # NONE /\ QuerySatisfied(claims) THEN claims ELSE NONE

-------------------------------------------------------------------------------
\* POST /verifier/response

\* get_session_by_state: a copy of the session.
Lookup(w, id, p) ==
    /\ job[w] = Idle
    /\ StateOf(id) \in DOMAIN state_to_id
    /\ Goto(w, [at |-> "verify", session |-> sessions[state_to_id[StateOf(id)]], vp |-> p])
    /\ UNCHANGED <<sessions, state_to_id, now, created, accepted>>

\* Mutant of DeleteSession: the index entry is left behind.
DeleteSessionOnly(session) ==
    /\ sessions' = Drop(sessions, session.id)
    /\ UNCHANGED state_to_id

\* delete_session, a no-op for a session that is gone.
DeleteSession(session) ==
    /\ sessions' = Drop(sessions, session.id)
    /\ state_to_id' = IF session.id \in DOMAIN sessions
                      THEN Drop(state_to_id, session.state) ELSE state_to_id

Expire(w) ==
    /\ job[w].at = "verify"
    /\ now > job[w].session.expires_at
    /\ DeleteSession(job[w].session)
    /\ Goto(w, Idle)
    /\ UNCHANGED <<now, created, accepted>>

Pass(w) ==
    /\ job[w].at = "verify"
    /\ now <= job[w].session.expires_at
    /\ LET claims == Verified(VpTokens[job[w].vp], job[w].session.nonce)
       IN  /\ claims # NONE
           /\ Goto(w, [at |-> "finish", session |-> job[w].session,
                       result |-> [id |-> job[w].session.id, vp |-> job[w].vp,
                                   claims |-> claims, at |-> now]])
    /\ UNCHANGED <<sessions, state_to_id, now, created, accepted>>

\* A failed verification leaves the session for another try.
Fail(w) ==
    /\ job[w].at = "verify"
    /\ now <= job[w].session.expires_at
    /\ Verified(VpTokens[job[w].vp], job[w].session.nonce) = NONE
    /\ Goto(w, Idle)
    /\ UNCHANGED <<sessions, state_to_id, now, created, accepted>>

\* The session is deleted, whether or not it was still there, and the result
\* returned.
Finish(w) ==
    /\ job[w].at = "finish"
    /\ Len(accepted) < MaxAccepted
    /\ DeleteSession(job[w].session)
    /\ accepted' = Append(accepted, job[w].result)
    /\ Goto(w, Idle)
    /\ UNCHANGED <<now, created>>

Tick ==
    /\ now < MaxTime
    /\ now' = now + 1
    /\ UNCHANGED <<sessions, state_to_id, job, created, accepted>>

Next ==
    \/ CreateAuthorization
    \/ \E w \in Workers :
        \/ \E id \in Ids, p \in DOMAIN VpTokens : Lookup(w, id, p)
        \/ Expire(w) \/ Pass(w) \/ Fail(w) \/ Finish(w)
    \/ Tick

Spec == Init /\ [][Next]_vars

-------------------------------------------------------------------------------
\* Properties.

Session == [id : Ids, nonce : {NonceOf(id) : id \in Ids}, state : {StateOf(id) : id \in Ids},
            expires_at : Nat]

TypeOK ==
    /\ DOMAIN created \subseteq Ids
    /\ created \in [DOMAIN created -> Session]
    /\ DOMAIN sessions \subseteq DOMAIN created
    /\ \A id \in DOMAIN sessions : sessions[id] = created[id]
    /\ \A w \in Workers :
          \/ job[w] = Idle
          \/ /\ job[w].at \in {"verify", "finish"}
             /\ job[w].session.id \in DOMAIN created
             /\ job[w].session = created[job[w].session.id]
    /\ now \in Nat
    /\ \A i \in 1..Len(accepted) : accepted[i].vp \in DOMAIN VpTokens

\* The two maps of the store stay inverse to each other, so a session that can
\* be found by its state can be deleted and the other way round (session.rs).
IndexMatchesSessions ==
    /\ \A s \in DOMAIN state_to_id :
          /\ state_to_id[s] \in DOMAIN sessions
          /\ sessions[state_to_id[s]].state = s
    /\ \A id \in DOMAIN sessions :
          /\ sessions[id].state \in DOMAIN state_to_id
          /\ state_to_id[sessions[id].state] = id

KeyBound(vp) == Len(VpTokens[vp]) > 1

\* A key-bound presentation is never accepted for two different sessions, even
\* when it is sent to both while they are open (README: "a presentation cannot
\* be replayed").
NoReplayAcrossSessions ==
    \A i, j \in 1..Len(accepted) :
        accepted[i].vp = accepted[j].vp /\ KeyBound(accepted[i].vp)
            => accepted[i].id = accepted[j].id

\* What a session accepts is, to the last part, a presentation that a holder made
\* of a credential still valid then, for that session and this verifier, and it
\* yields the claims the holder chose to reveal: nothing taken out, added or taken
\* from another credential or another presentation gets through (sd_jwt.rs: "ties
\* the KB-JWT to exactly this set of disclosures").
AcceptedIsWhatHolderMade ==
    \A i \in 1..Len(accepted) :
        KeyBound(accepted[i].vp) =>
            /\ accepted[i].vp \in DOMAIN Made
            /\ LET made == Made[accepted[i].vp]
               IN  /\ made.nonce = created[accepted[i].id].nonce
                   /\ made.audience = ClientId
                   /\ accepted[i].claims = made.claims
                   /\ made.valid_from <= accepted[i].at /\ accepted[i].at < made.valid_until

\* One session accepts one presentation (response.rs: "a nonce is good for
\* exactly one presentation").
SessionSingleUse ==
    \A i, j \in 1..Len(accepted) : accepted[i].id = accepted[j].id => i = j

\* Every accepted response proved possession of the holder key for the session's
\* nonce (response.rs: "a returned `VerificationResult` means every check passed").
AcceptedIsKeyBound ==
    \A i \in 1..Len(accepted) :
        /\ KeyBound(accepted[i].vp)
        /\ KeyBindingJwt(VpTokens[accepted[i].vp]).payload.nonce = created[accepted[i].id].nonce

===============================================================================
