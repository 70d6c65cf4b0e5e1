------------------------------ MODULE ReplayCache ------------------------------
(***************************************************************************)
(* One-time proofs at the issuer: DPoP proofs and the proofs of possession *)
(* that go with a client attestation.  Both are checked against the clock  *)
(* first and recorded in the jti cache afterwards, two steps between which *)
(* other handlers run and time passes.  The clock checks work in whole     *)
(* seconds, the cache in the clock's full resolution.                      *)
(***************************************************************************)
EXTENDS Integers, Sequences, HashMaps, ClientProofs

CONSTANTS
    Workers,            \* request handlers that can be in progress at once
    Proofs,             \* what is sent to prove a key: a DPoP proof and the request
                        \* it comes with, or an attestation and its PoP
    Meant,              \* of those, the ones sent where their signer meant them
    Attesters,          \* the trusted attesters' keys
    ISSUER_ID,          \* this server's name
    TicksPerSecond,     \* clock resolution
    MAX_AGE, MAX_SKEW,  \* accepted age and clock skew of a proof, in seconds
    MaxTime             \* bound on the clock, in ticks

ASSUME TimeAssumption ==
    /\ TicksPerSecond \in Nat \ {0}
    /\ MAX_AGE \in Nat /\ MAX_SKEW \in Nat /\ MaxTime \in Nat

\* What is known of clients and attesters (external).
SignedBy(jwt, jwk) == jwt.signature = KeySign(jwk, <<jwt.header, jwt.payload>>)

Dpops == {p \in Proofs : p.kind = "dpop"}
Pops == {p \in Proofs : p.kind # "dpop"}
Endpoints == {NormalizeHtu(p.ctx.htu) : p \in Dpops}
Attested == {p \in Pops : \E a \in Attesters : SignedBy(p.attestation, a.jwk)}

\* A DPoP proof says which request and which access token it is made for, and an
\* endpoint is either used with a token or without.
ASSUME DpopAssumption ==
    /\ Meant \subseteq Proofs
    /\ \A m \in Meant \cap Dpops :
          /\ m.proof.payload.htm = m.ctx.htm
          /\ NormalizeHtu(m.proof.payload.htu) = NormalizeHtu(m.ctx.htu)
          /\ m.ctx.access_token # NONE =>
                m.proof.payload.ath = AccessTokenHash(m.ctx.access_token)
    /\ \A p, q \in Dpops :
          NormalizeHtu(p.ctx.htu) = NormalizeHtu(q.ctx.htu) =>
              (p.ctx.access_token = NONE <=> q.ctx.access_token = NONE)

\* A client sends a PoP with the attestation of the key that signs it, and
\* attesters vouch for a key as one client's only.
ASSUME AttesterAssumption ==
    /\ \A m \in Meant \cap Pops : m \in Attested /\ SignedBy(m.pop, m.attestation.payload.cnf)
    /\ \A p, q \in Attested :
          p.attestation.payload.cnf = q.attestation.payload.cnf =>
              p.attestation.payload.sub = q.attestation.payload.sub

\* Nobody signs with another's key: what a key signs for this server its owner
\* made and sent here.
ASSUME SignatureAssumption ==
    /\ \A p \in Dpops :
          /\ SignedBy(p.proof, p.proof.header.jwk)
          /\ NormalizeHtu(p.proof.payload.htu) \in Endpoints
          => \E m \in Meant \cap Dpops : m.proof = p.proof
    /\ \A p \in Pops :
          SignedBy(p.pop, p.attestation.payload.cnf) /\ AddressedTo(p.pop, ISSUER_ID) =>
              \E m \in Meant \cap Pops : m.pop = p.pop

VARIABLES
    seen_jtis,          \* cache key -> when it may be forgotten
    job,                \* worker -> the proof it has checked and not yet recorded
    now,                \* the clock
    accepted            \* history: keys accepted and when, in order

vars == <<seen_jtis, job, now, accepted>>

Idle == [at |-> "idle"]

Init ==
    /\ seen_jtis = EmptyMap
    /\ job = [w \in Workers |-> Idle]
    /\ now = 0
    /\ accepted = <<>>

\* timestamp(): whole seconds.
Timestamp == now \div TicksPerSecond

\* Mutant of Ttl: the skew is left out.
TtlOfAge == MAX_AGE * TicksPerSecond

\* How long a key is remembered, in ticks.
Ttl == (MAX_AGE + MAX_SKEW) * TicksPerSecond

-------------------------------------------------------------------------------
Claims(p) == IF p.kind = "dpop" THEN p.proof.payload ELSE p.pop.payload

\* The two kinds of proof use separate parts of the cache; a PoP's jti is only
\* compared with those of the same client.  (A jti or client_id with a colon can
\* make two keys the same, and a proof refused.)
Key(p) ==
    IF p.kind = "dpop" THEN <<"dpop", Claims(p).jti>>
    ELSE <<"attestation-pop", p.attestation.payload.sub, Claims(p).jti>>

IatAccepted(p) ==
    Claims(p).iat <= Timestamp + MAX_SKEW /\ Claims(p).iat >= Timestamp - MAX_AGE

\* check_time_window: `exp` is required of the attestation, optional in the PoP.
TimeWindow(claims, exp_required) ==
    /\ IF claims.exp = NONE THEN ~exp_required ELSE claims.exp + MAX_SKEW >= Timestamp
    /\ claims.nbf # NONE => claims.nbf <= Timestamp + MAX_SKEW

\* Everything that is checked before the cache.
Verified(p) ==
    /\ IF p.kind = "dpop" THEN DpopProofVerified(p.proof, p.ctx)
       ELSE /\ AttestationVerified(p.attestation, p.pop, Attesters, ISSUER_ID)
            /\ TimeWindow(p.attestation.payload, TRUE)
            /\ TimeWindow(p.pop.payload, FALSE)
    /\ IatAccepted(p)

\* Mutant of Verify: the bare jti is cached, the same for every kind and client.
VerifyBareJti(w, p) ==
    /\ job[w] = Idle
    /\ Verified(p)
    /\ job' = [job EXCEPT ![w] = [at |-> "record", key |-> <<Claims(p).jti>>, proof |-> p]]
    /\ UNCHANGED <<seen_jtis, now, accepted>>

\* verify_dpop_proof and verify_client_attestation up to the cache.
Verify(w, p) ==
    /\ job[w] = Idle
    /\ Verified(p)
    /\ job' = [job EXCEPT ![w] = [at |-> "record", key |-> Key(p), proof |-> p]]
    /\ UNCHANGED <<seen_jtis, now, accepted>>

\* Mutant of Retained: everything expired or about to is forgotten.
RetainedLonger == {k \in DOMAIN seen_jtis : seen_jtis[k] > now + 1}

\* retain(|_, expires| expires > now)
Retained == {k \in DOMAIN seen_jtis : seen_jtis[k] > now}

\* record_jti: prune, look up and insert under one lock.
RecordJti(w) ==
    /\ job[w].at = "record"
    /\ LET key == job[w].key
           kept == [k \in Retained |-> seen_jtis[k]]
       IN \/ /\ key \in Retained
             /\ seen_jtis' = kept
             /\ UNCHANGED accepted
          \/ /\ key \notin Retained
             /\ seen_jtis' = Put(kept, key, now + Ttl)
             /\ accepted' = Append(accepted, [key |-> key, at |-> now, proof |-> job[w].proof])
    /\ job' = [job EXCEPT ![w] = Idle]
    /\ UNCHANGED now

Tick ==
    /\ now < MaxTime
    /\ now' = now + 1
    /\ UNCHANGED <<seen_jtis, job, accepted>>

Next ==
    \/ \E w \in Workers : RecordJti(w) \/ \E p \in Proofs : Verify(w, p)
    \/ Tick

Spec == Init /\ [][Next]_vars

\* Handlers that finish within one tick of the clock.
PromptSpec ==
    Init /\ [][Next /\ (now' # now => \A w \in Workers : job[w] = Idle)]_vars

-------------------------------------------------------------------------------
\* Properties.

Keys == {Key(p) : p \in Proofs}

Acceptance == [key : Keys, at : Nat, proof : Proofs]

TypeOK ==
    /\ DOMAIN seen_jtis \subseteq Keys
    /\ seen_jtis \in [DOMAIN seen_jtis -> Nat]
    /\ job \in [Workers -> {Idle} \cup [at : {"record"}, key : Keys, proof : Proofs]]
    /\ now \in Nat
    /\ accepted \in Seq(Acceptance)

\* Every acceptance is remembered for the whole of its lifetime in the cache,
\* whatever is pruned or inserted meanwhile (state.rs, record_jti).
Remembered ==
    \A i \in 1..Len(accepted) :
        now < accepted[i].at + MAX_AGE * TicksPerSecond + MAX_SKEW * TicksPerSecond =>
            /\ accepted[i].key \in DOMAIN seen_jtis
            /\ seen_jtis[accepted[i].key] > now

\* The same proof is never accepted twice within MAX_AGE + MAX_SKEW seconds,
\* however many handlers check it at once.
AcceptedFarApart ==
    \A i, j \in 1..Len(accepted) :
        i < j /\ accepted[i].key = accepted[j].key =>
            accepted[j].at >= accepted[i].at + (MAX_AGE + MAX_SKEW) * TicksPerSecond

\* The same signed proof for the same request and token, or for the same client's key.
SameUse(p, m) ==
    \/ /\ p \in Dpops /\ m \in Dpops
       /\ p.proof = m.proof
       /\ p.ctx.htm = m.ctx.htm
       /\ NormalizeHtu(p.ctx.htu) = NormalizeHtu(m.ctx.htu)
       /\ p.ctx.access_token = m.ctx.access_token
    \/ /\ p \in Pops /\ m \in Pops
       /\ p.pop = m.pop
       /\ p.attestation.payload.sub = m.attestation.payload.sub
       /\ p.attestation.payload.cnf = m.attestation.payload.cnf
       /\ AddressedTo(p.pop, ISSUER_ID)

\* What is accepted was signed by the key it is taken for, and comes with the
\* request it was signed for: a proof sent on to another endpoint, with another
\* access token, to another server or with another client's attestation is not
\* accepted, early or late (dpop.rs, client_attestation.rs).
AcceptedAsMeant ==
    \A i \in 1..Len(accepted) : \E m \in Meant : SameUse(accepted[i].proof, m)

\* A proof is accepted at most once (dpop.rs: "The `jti` is recorded so the same
\* proof cannot be replayed within its validity window").
AcceptedOnce ==
    \A i, j \in 1..Len(accepted) : accepted[i].key = accepted[j].key => i = j

===============================================================================
