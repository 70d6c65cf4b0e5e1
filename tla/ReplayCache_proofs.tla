--------------------------- MODULE ReplayCache_proofs ---------------------------
(***************************************************************************)
(* Proofs about the jti cache, for any proofs, any number of handlers and  *)
(* any lifetimes: what has been accepted is remembered for its lifetime,   *)
(* so the same proof is never accepted twice within it.                    *)
(***************************************************************************)
EXTENDS ReplayCache, TLAPS

\* The lifetime of a cache entry is a number of ticks.
LEMMA TtlType == Ttl \in Nat
BY TimeAssumption DEF Ttl

\* Pruning, looking up and inserting keep the cache and the history well formed.
THEOREM TypeCorrect == Spec => []TypeOK
<1>1. Init => TypeOK
  BY DEF Init, TypeOK, EmptyMap
<1>2. TypeOK /\ [Next]_vars => TypeOK'
  <2> SUFFICES ASSUME TypeOK, [Next]_vars PROVE TypeOK'
    OBVIOUS
  <2>1. ASSUME NEW w \in Workers, NEW p \in Proofs, Verify(w, p) PROVE TypeOK'
    <3>1. [at |-> "record", key |-> Key(p), proof |-> p]
            \in [at : {"record"}, key : Keys, proof : Proofs]
      BY DEF Keys
    <3>2. job' \in [Workers -> {Idle} \cup [at : {"record"}, key : Keys, proof : Proofs]]
      BY <2>1, <3>1 DEF Verify, TypeOK
    <3> QED
      BY <2>1, <3>2 DEF Verify, TypeOK
  <2>2. ASSUME NEW w \in Workers, RecordJti(w) PROVE TypeOK'
    <3>1. job[w].key \in Keys /\ job[w].proof \in Proofs
      BY <2>2 DEF RecordJti, TypeOK, Idle
    <3>2. now + Ttl \in Nat
      BY TtlType DEF TypeOK
    <3> DEFINE kept == [k \in Retained |-> seen_jtis[k]]
    <3>3. /\ Retained \subseteq Keys
          /\ \A k \in Retained : seen_jtis[k] \in Nat
      BY DEF Retained, TypeOK
    <3>4. /\ DOMAIN seen_jtis' \subseteq Keys
          /\ seen_jtis' \in [DOMAIN seen_jtis' -> Nat]
      <4>1. CASE seen_jtis' = kept
        BY <3>3, <4>1
      <4>2. CASE seen_jtis' = Put(kept, job[w].key, now + Ttl)
        BY <3>1, <3>2, <3>3, <4>2 DEF Put
      <4> QED
        BY <2>2, <4>1, <4>2 DEF RecordJti
    <3>5. accepted' \in Seq(Acceptance)
      <4>1. [key |-> job[w].key, at |-> now, proof |-> job[w].proof] \in Acceptance
        BY <3>1 DEF TypeOK, Acceptance
      <4>2. \/ accepted' = accepted
            \/ accepted' = Append(accepted, [key |-> job[w].key, at |-> now, proof |-> job[w].proof])
        BY <2>2 DEF RecordJti
      <4> QED
        BY <4>1, <4>2 DEF TypeOK
    <3>6. job' \in [Workers -> {Idle} \cup [at : {"record"}, key : Keys, proof : Proofs]]
      BY <2>2 DEF RecordJti, TypeOK
    <3> QED
      BY <2>2, <3>4, <3>5, <3>6 DEF RecordJti, TypeOK
  <2>3. CASE Tick
    BY <2>3 DEF Tick, TypeOK
  <2>4. CASE UNCHANGED vars
    BY <2>4 DEF vars, TypeOK
  <2> QED
    BY <2>1, <2>2, <2>3, <2>4 DEF Next
<1> QED
  BY <1>1, <1>2, PTL DEF Spec

-------------------------------------------------------------------------------
\* Remembered says that an entry outlives the present; to survive a tick of the
\* clock it has to say how long the entry lasts.
RememberedUntil ==
    \A i \in 1..Len(accepted) :
        now < accepted[i].at + Ttl =>
            /\ accepted[i].key \in DOMAIN seen_jtis
            /\ seen_jtis[accepted[i].key] >= accepted[i].at + Ttl

\* Recorded acceptances are well formed.
LEMMA AcceptanceType ==
    ASSUME TypeOK
    PROVE  \A i \in 1..Len(accepted) : accepted[i].at \in Nat /\ accepted[i].key \in Keys
<1>1. \A i \in 1..Len(accepted) : accepted[i] \in Acceptance
  BY DEF TypeOK
<1> QED
  BY <1>1 DEF Acceptance

\* Recording a key prunes only what has expired, and accepts a key only when
\* every earlier acceptance of it has.
LEMMA RecordJtiRemembers ==
    ASSUME TypeOK, TypeOK', RememberedUntil, AcceptedFarApart, NEW w \in Workers, RecordJti(w)
    PROVE  RememberedUntil' /\ AcceptedFarApart'
<1> DEFINE key == job[w].key
<1>1. Ttl \in Nat /\ now \in Nat /\ now' = now
  BY TtlType DEF TypeOK, RecordJti
<1>2. \A i \in 1..Len(accepted) : accepted[i].at \in Nat /\ accepted[i].key \in Keys
  BY AcceptanceType
<1>3. \A i \in 1..Len(accepted) :
        now < accepted[i].at + Ttl => accepted[i].key \in Retained
  BY <1>1, <1>2 DEF RememberedUntil, Retained, TypeOK
<1>4. CASE key \in Retained /\ seen_jtis' = [k \in Retained |-> seen_jtis[k]] /\ UNCHANGED accepted
  BY <1>1, <1>3, <1>4 DEF RememberedUntil, AcceptedFarApart
<1>5. CASE /\ key \notin Retained
           /\ seen_jtis' = Put([k \in Retained |-> seen_jtis[k]], key, now + Ttl)
           /\ accepted' = Append(accepted, [key |-> key, at |-> now, proof |-> job[w].proof])
  <2>1. /\ Len(accepted') = Len(accepted) + 1 /\ Len(accepted) \in Nat
        /\ \A i \in 1..Len(accepted) : accepted'[i] = accepted[i]
        /\ accepted'[Len(accepted) + 1] = [key |-> key, at |-> now, proof |-> job[w].proof]
    BY <1>5 DEF TypeOK
  <2>2. /\ key \in DOMAIN seen_jtis' /\ seen_jtis'[key] = now + Ttl
        /\ \A k \in Retained : k \in DOMAIN seen_jtis' /\ seen_jtis'[k] = seen_jtis[k]
    BY <1>5 DEF Put
  <2>3. RememberedUntil'
    <3> SUFFICES ASSUME NEW i \in 1..Len(accepted'), now < accepted'[i].at + Ttl
                 PROVE  /\ accepted'[i].key \in DOMAIN seen_jtis'
                        /\ seen_jtis'[accepted'[i].key] >= accepted'[i].at + Ttl
      BY <1>1 DEF RememberedUntil, Ttl
    <3>1. CASE i = Len(accepted) + 1
      BY <1>1, <2>1, <2>2, <3>1
    <3>2. CASE i \in 1..Len(accepted)
      BY <1>3, <2>1, <2>2, <3>2 DEF RememberedUntil
    <3> QED
      BY <2>1, <3>1, <3>2
  <2>4. AcceptedFarApart'
    <3> SUFFICES ASSUME NEW i \in 1..Len(accepted'), NEW j \in 1..Len(accepted'),
                        i < j, accepted'[i].key = accepted'[j].key
                 PROVE  accepted'[j].at >= accepted'[i].at + Ttl
      BY DEF AcceptedFarApart, Ttl
    <3>1. i \in 1..Len(accepted)
      BY <2>1
    <3>2. CASE j = Len(accepted) + 1
      <4>1. accepted[i].key = key /\ accepted'[j].at = now
        BY <2>1, <3>1, <3>2
      <4>2. ~(now < accepted[i].at + Ttl)
        BY <1>3, <1>5, <3>1, <4>1
      <4> QED
        BY <1>1, <1>2, <2>1, <3>1, <4>1, <4>2
    <3>3. CASE j \in 1..Len(accepted)
      BY <2>1, <3>1, <3>3 DEF AcceptedFarApart, Ttl
    <3> QED
      BY <2>1, <3>2, <3>3
  <2> QED
    BY <2>3, <2>4
<1> QED
  BY <1>4, <1>5 DEF RecordJti

\* Entries last as long as they are needed, and only because of that acceptances
\* of one key are far apart: the two facts are one invariant.
LEMMA CacheInvariant == Spec => [](TypeOK /\ RememberedUntil /\ AcceptedFarApart)
<1>1. Init => RememberedUntil /\ AcceptedFarApart
  BY DEF Init, RememberedUntil, AcceptedFarApart
<1>2. TypeOK /\ TypeOK' /\ RememberedUntil /\ AcceptedFarApart /\ [Next]_vars
        => RememberedUntil' /\ AcceptedFarApart'
  <2> SUFFICES ASSUME TypeOK, TypeOK', RememberedUntil, AcceptedFarApart, [Next]_vars
               PROVE  RememberedUntil' /\ AcceptedFarApart'
    OBVIOUS
  <2>1. ASSUME NEW w \in Workers, NEW p \in Proofs, Verify(w, p)
        PROVE  RememberedUntil' /\ AcceptedFarApart'
    BY <2>1 DEF Verify, RememberedUntil, AcceptedFarApart, Ttl
  <2>2. ASSUME NEW w \in Workers, RecordJti(w) PROVE RememberedUntil' /\ AcceptedFarApart'
    BY <2>2, RecordJtiRemembers
  <2>3. CASE Tick
    <3>1. Ttl \in Nat /\ now \in Nat /\ now' = now + 1 /\ UNCHANGED <<seen_jtis, accepted>>
      BY <2>3, TtlType DEF Tick, TypeOK
    <3>2. \A i \in 1..Len(accepted) : accepted[i].at \in Nat
      BY AcceptanceType
    <3>3. RememberedUntil'
      <4> SUFFICES ASSUME NEW i \in 1..Len(accepted'), now' < accepted'[i].at + Ttl
                   PROVE  /\ accepted'[i].key \in DOMAIN seen_jtis'
                          /\ seen_jtis'[accepted'[i].key] >= accepted'[i].at + Ttl
        BY DEF RememberedUntil, Ttl
      <4> QED
        BY <3>1, <3>2 DEF RememberedUntil
    <3>4. AcceptedFarApart'
      BY <3>1 DEF AcceptedFarApart
    <3> QED
      BY <3>3, <3>4
  <2>4. CASE UNCHANGED vars
    BY <2>4 DEF vars, RememberedUntil, AcceptedFarApart, Ttl
  <2> QED
    BY <2>1, <2>2, <2>3, <2>4 DEF Next
<1> QED
  BY <1>1, <1>2, TypeCorrect, PTL DEF Spec

\* However the handlers interleave between checking a proof and recording it, no
\* proof is accepted twice within MAX_AGE + MAX_SKEW seconds (state.rs, record_jti).
THEOREM ReplaysAreFarApart == Spec => []AcceptedFarApart
BY CacheInvariant, PTL

\* What has been accepted stays in the cache for its whole lifetime, whatever is
\* pruned or inserted meanwhile (state.rs, record_jti).
THEOREM AcceptancesAreRemembered == Spec => []Remembered
<1>1. TypeOK /\ RememberedUntil => Remembered
  <2> SUFFICES ASSUME TypeOK, RememberedUntil,
                      NEW i \in 1..Len(accepted), now < accepted[i].at + Ttl
               PROVE  /\ accepted[i].key \in DOMAIN seen_jtis
                      /\ seen_jtis[accepted[i].key] > now
    <3>1. Ttl = MAX_AGE * TicksPerSecond + MAX_SKEW * TicksPerSecond
      BY TimeAssumption DEF Ttl
    <3>2. \A i \in 1..Len(accepted) : TypeOK => accepted[i].at \in Nat
      BY AcceptanceType
    <3>3. Ttl \in Nat /\ MAX_AGE * TicksPerSecond \in Nat /\ MAX_SKEW * TicksPerSecond \in Nat
      BY TtlType, TimeAssumption
    <3> QED
      BY <3>1, <3>2, <3>3 DEF Remembered
  <2>1. /\ Ttl \in Nat /\ now \in Nat /\ accepted[i].at \in Nat
        /\ accepted[i].key \in DOMAIN seen_jtis
        /\ seen_jtis[accepted[i].key] >= accepted[i].at + Ttl
    BY TtlType, AcceptanceType DEF TypeOK, RememberedUntil
  <2>2. seen_jtis[accepted[i].key] \in Nat
    BY <2>1 DEF TypeOK
  <2> QED
    BY <2>1, <2>2
<1> QED
  BY <1>1, CacheInvariant, PTL

-------------------------------------------------------------------------------
\* What is accepted was meant.

LEMMA SignatureNames ==
    ASSUME NEW jwt, NEW k, NEW l, SignedBy(jwt, k), SignedBy(jwt, l)
    PROVE  k = l
<1>1. KeySign(k, <<jwt.header, jwt.payload>>) = KeySign(l, <<jwt.header, jwt.payload>>)
  BY DEF SignedBy
<1>2. KeySign(k, <<jwt.header, jwt.payload>>).key = KeySign(l, <<jwt.header, jwt.payload>>).key
  BY <1>1
<1> QED
  BY <1>2 DEF KeySign

LEMMA VerifiedIsSigned ==
    ASSUME NEW jwt, NEW k, VerifyWithPublicJwk(jwt, k)
    PROVE  SignedBy(jwt, k)
BY DEF VerifyWithPublicJwk, VerifyCompact, VerifyWithJwk, SignedBy

\* A DPoP proof that passes the checks goes with the request its key's owner made.
LEMMA DpopAsMeant ==
    ASSUME NEW p \in Dpops, DpopProofVerified(p.proof, p.ctx)
    PROVE  \E m \in Meant : SameUse(p, m)
<1>1. /\ SignedBy(p.proof, p.proof.header.jwk)
      /\ p.proof.payload.htm = p.ctx.htm
      /\ NormalizeHtu(p.proof.payload.htu) = NormalizeHtu(p.ctx.htu)
      /\ p.ctx.access_token # NONE => p.proof.payload.ath = AccessTokenHash(p.ctx.access_token)
  BY VerifiedIsSigned DEF DpopProofVerified
<1>2. PICK m \in Meant \cap Dpops : m.proof = p.proof
  <2>1. NormalizeHtu(p.proof.payload.htu) \in Endpoints
    BY <1>1 DEF Endpoints
  <2> QED
    BY <1>1, <2>1, SignatureAssumption
<1>3. /\ m.proof.payload.htm = m.ctx.htm
      /\ NormalizeHtu(m.proof.payload.htu) = NormalizeHtu(m.ctx.htu)
      /\ m.ctx.access_token # NONE => m.proof.payload.ath = AccessTokenHash(m.ctx.access_token)
  BY <1>2, DpopAssumption
<1>4. p.ctx.htm = m.ctx.htm /\ NormalizeHtu(p.ctx.htu) = NormalizeHtu(m.ctx.htu)
  BY <1>1, <1>2, <1>3
<1>5. p.ctx.access_token = NONE <=> m.ctx.access_token = NONE
  BY <1>2, <1>4, DpopAssumption
<1>6. p.ctx.access_token = m.ctx.access_token
  <2>1. CASE p.ctx.access_token = NONE
    BY <1>5, <2>1
  <2>2. CASE p.ctx.access_token # NONE
    <3>1. AccessTokenHash(p.ctx.access_token) = AccessTokenHash(m.ctx.access_token)
      BY <1>1, <1>2, <1>3, <1>5, <2>2
    <3> QED
      BY <3>1 DEF AccessTokenHash
  <2> QED
    BY <2>1, <2>2
<1> QED
  BY <1>2, <1>4, <1>6 DEF SameUse

\* A PoP that passes the checks goes with its own client's attestation: the key it
\* was signed with is attested as that client's.
LEMMA PopAsMeant ==
    ASSUME NEW p \in Pops, AttestationVerified(p.attestation, p.pop, Attesters, ISSUER_ID)
    PROVE  \E m \in Meant : SameUse(p, m)
<1>1. /\ SignedByTrusted(p.attestation, Attesters)
      /\ VerifyWithPublicJwk(p.pop, p.attestation.payload.cnf)
      /\ AddressedTo(p.pop, ISSUER_ID)
  BY DEF AttestationVerified, PopVerified
<1>2. SignedBy(p.pop, p.attestation.payload.cnf)
  BY <1>1, VerifiedIsSigned
<1>3. p \in Attested
  <2>1. PICK a \in Attesters : VerifyWithPublicJwk(p.attestation, a.jwk)
    BY <1>1 DEF SignedByTrusted
  <2>2. SignedBy(p.attestation, a.jwk)
    BY <2>1, VerifiedIsSigned
  <2> QED
    BY <2>2 DEF Attested
<1>4. PICK m \in Meant \cap Pops : m.pop = p.pop
  BY <1>1, <1>2, SignatureAssumption
<1>5. m \in Attested /\ SignedBy(m.pop, m.attestation.payload.cnf)
  BY <1>4, AttesterAssumption
<1>6. m.attestation.payload.cnf = p.attestation.payload.cnf
  BY <1>2, <1>4, <1>5, SignatureNames
<1>7. m.attestation.payload.sub = p.attestation.payload.sub
  BY <1>3, <1>5, <1>6, AttesterAssumption
<1> QED
  BY <1>1, <1>4, <1>6, <1>7 DEF SameUse

AsMeant(p) == \E m \in Meant : SameUse(p, m)

\* A handler between its checks and the cache holds a proof that was meant.
CheckedAsMeant == \A w \in Workers : job[w].at = "record" => AsMeant(job[w].proof)

\* What is accepted was signed by the key it is taken for and comes with the request,
\* the token and the client it was signed for, however handlers interleave and
\* whatever is sent on (dpop.rs, verify_dpop_proof; client_attestation.rs,
\* verify_client_attestation).
THEOREM AcceptedProofsAreMeant == Spec => []AcceptedAsMeant
<1>1. Init => CheckedAsMeant /\ AcceptedAsMeant
  BY DEF Init, Idle, CheckedAsMeant, AcceptedAsMeant
<1>2. AcceptedAsMeant <=> \A i \in 1..Len(accepted) : AsMeant(accepted[i].proof)
  BY DEF AcceptedAsMeant, AsMeant
<1>3. TypeOK /\ CheckedAsMeant /\ AcceptedAsMeant /\ [Next]_vars
        => CheckedAsMeant' /\ AcceptedAsMeant'
  <2> SUFFICES ASSUME TypeOK, CheckedAsMeant, AcceptedAsMeant, [Next]_vars
               PROVE  CheckedAsMeant' /\ AcceptedAsMeant'
    OBVIOUS
  <2>1. ASSUME NEW w \in Workers, NEW p \in Proofs, Verify(w, p)
        PROVE  CheckedAsMeant' /\ AcceptedAsMeant'
    <3>1. AsMeant(p)
      <4>1. CASE p \in Dpops
        BY <2>1, <4>1, DpopAsMeant DEF Verify, Verified, AsMeant, Dpops
      <4>2. CASE p \in Pops
        BY <2>1, <4>2, PopAsMeant DEF Verify, Verified, AsMeant, Pops
      <4> QED
        BY <4>1, <4>2 DEF Dpops, Pops
    <3>2. job' = [job EXCEPT ![w] = [at |-> "record", key |-> Key(p), proof |-> p]]
      BY <2>1 DEF Verify
    <3>3. CheckedAsMeant'
      BY <3>1, <3>2 DEF CheckedAsMeant, TypeOK
    <3>4. AcceptedAsMeant'
      BY <2>1 DEF Verify, AcceptedAsMeant
    <3> QED
      BY <3>3, <3>4
  <2>2. ASSUME NEW w \in Workers, RecordJti(w) PROVE CheckedAsMeant' /\ AcceptedAsMeant'
    <3>1. job[w].at = "record" /\ job' = [job EXCEPT ![w] = Idle]
      BY <2>2 DEF RecordJti
    <3>2. CheckedAsMeant'
      BY <3>1 DEF CheckedAsMeant, TypeOK, Idle
    <3>3. AsMeant(job[w].proof)
      BY <3>1 DEF CheckedAsMeant
    <3>4. CASE UNCHANGED accepted
      BY <3>2, <3>4 DEF AcceptedAsMeant
    <3>5. CASE accepted' = Append(accepted, [key |-> job[w].key, at |-> now, proof |-> job[w].proof])
      <4>1. /\ Len(accepted') = Len(accepted) + 1 /\ Len(accepted) \in Nat
            /\ \A i \in 1..Len(accepted) : accepted'[i] = accepted[i]
            /\ accepted'[Len(accepted) + 1].proof = job[w].proof
        BY <3>5 DEF TypeOK
      <4>2. \A i \in 1..Len(accepted') : AsMeant(accepted'[i].proof)
        BY <1>2, <3>3, <4>1
      <4>3. AcceptedAsMeant'
        BY <4>2 DEF AcceptedAsMeant, AsMeant
      <4> QED
        BY <3>2, <4>3
    <3> QED
      BY <2>2, <3>4, <3>5 DEF RecordJti
  <2>3. CASE Tick
    BY <2>3 DEF Tick, CheckedAsMeant, AcceptedAsMeant
  <2>4. CASE UNCHANGED vars
    BY <2>4 DEF vars, CheckedAsMeant, AcceptedAsMeant
  <2> QED
    BY <2>1, <2>2, <2>3, <2>4 DEF Next
<1> QED
  BY <1>1, <1>3, TypeCorrect, PTL DEF Spec

===============================================================================
