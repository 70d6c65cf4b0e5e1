------------------------ MODULE VerifierSessions_proofs ------------------------
(***************************************************************************)
(* Proofs about the verifier, for any number of handlers, sessions and     *)
(* presentations, any query and any lifetimes: the two maps of the store   *)
(* stay inverse, and a key-bound presentation is good for one session and  *)
(* is what a holder made for it.                                           *)
(***************************************************************************)
EXTENDS VerifierSessions, SequenceTheorems, TLAPS

\* The nonce a presentation's key binding JWT was made for.
BoundNonce(p) == KeyBindingJwt(VpTokens[p]).payload.nonce

\* An ID, a nonce and a state are drawn together and stay together.
SessionsAsDrawn ==
    \A id \in DOMAIN created :
        /\ created[id].id = id
        /\ created[id].nonce = NonceOf(id)
        /\ created[id].state = StateOf(id)

\* What a handler holds: one response, judged against the nonce of its session.
HandlersHold ==
    /\ DOMAIN job = Workers
    /\ \A w \in Workers :
        /\ job[w].at = "verify" => job[w].vp \in DOMAIN VpTokens
        /\ job[w].at = "finish" =>
            /\ job[w].result.id = job[w].session.id
            /\ job[w].result.vp \in DOMAIN VpTokens
            /\ KeyBound(job[w].result.vp) => BoundNonce(job[w].result.vp) = job[w].session.nonce

\* The history is a sequence, whatever claims are in it.
AcceptedSeq == accepted \in Seq({accepted[i] : i \in DOMAIN accepted})

\* What was accepted was made for the nonce of a session that was created.
AcceptedBound ==
    \A i \in 1..Len(accepted) :
        /\ accepted[i].id \in DOMAIN created
        /\ KeyBound(accepted[i].vp) => BoundNonce(accepted[i].vp) = NonceOf(accepted[i].id)

VerifierInv ==
    TypeOK /\ SessionsAsDrawn /\ IndexMatchesSessions /\ HandlersHold /\ AcceptedSeq /\ AcceptedBound

-------------------------------------------------------------------------------
\* Verification of a presentation.

\* What passes verification with a key binding carries a key binding JWT for the
\* nonce it is judged against (response.rs, verify_sd_jwt_vp).
LEMMA VerifiedIsBound ==
    ASSUME NEW p \in DOMAIN VpTokens, NEW nonce, KeyBound(p), Verified(VpTokens[p], nonce) # NONE
    PROVE  BoundNonce(p) = nonce
<1> DEFINE vp == VpTokens[p]
<1>1. VerifySdJwtVp(vp, nonce) # NONE
  BY DEF Verified, KeyBound
<1>2. VerifyKeyBinding(vp, VerifySdJwtVc(vp, IssuerKey, now).holder_jwk, nonce, ClientId)
  BY <1>1 DEF VerifySdJwtVp
<1> QED
  BY <1>2 DEF VerifyKeyBinding, BoundNonce

\* Appending to a sequence of whatever it consists of.
LEMMA AppendToHistory ==
    ASSUME NEW s, NEW e, s \in Seq({s[i] : i \in DOMAIN s})
    PROVE  LET t == Append(s, e)
           IN  /\ t \in Seq({t[i] : i \in DOMAIN t})
               /\ Len(s) \in Nat /\ Len(t) = Len(s) + 1
               /\ \A i \in 1..Len(s) : t[i] = s[i]
               /\ t[Len(s) + 1] = e
<1> DEFINE S == {s[i] : i \in DOMAIN s}
           t == Append(s, e)
<1>1. s \in Seq(S \cup {e})
  BY SeqMonotonic
<1>2. /\ t \in Seq(S \cup {e}) /\ Len(s) \in Nat /\ Len(t) = Len(s) + 1
      /\ \A i \in 1..Len(s) : t[i] = s[i]
      /\ t[Len(s) + 1] = e
  BY <1>1
<1>3. DOMAIN s = 1..Len(s) /\ DOMAIN t = 1..Len(t)
  BY <1>1, <1>2, LenProperties
<1>4. S \cup {e} \subseteq {t[i] : i \in DOMAIN t}
  BY <1>2, <1>3
<1>5. t \in Seq({t[i] : i \in DOMAIN t})
  BY <1>2, <1>4, SeqMonotonic
<1> QED
  BY <1>2, <1>5

-------------------------------------------------------------------------------
\* The steps.

\* A step that only moves one handler on, to a job that is well formed.
LEMMA HandlerMoves ==
    ASSUME VerifierInv, NEW w \in Workers, NEW j, Goto(w, j),
           \/ j = Idle
           \/ /\ j.at \in {"verify", "finish"}
              /\ j.session.id \in DOMAIN created
              /\ j.session = created[j.session.id],
           j.at = "verify" => j.vp \in DOMAIN VpTokens,
           j.at = "finish" =>
              /\ j.result.id = j.session.id
              /\ j.result.vp \in DOMAIN VpTokens
              /\ KeyBound(j.result.vp) => BoundNonce(j.result.vp) = j.session.nonce,
           UNCHANGED created
    PROVE  /\ HandlersHold'
           /\ \A v \in Workers :
                \/ job'[v] = Idle
                \/ /\ job'[v].at \in {"verify", "finish"}
                   /\ job'[v].session.id \in DOMAIN created'
                   /\ job'[v].session = created'[job'[v].session.id]
<1>1. /\ DOMAIN job' = Workers
      /\ job'[w] = j
      /\ \A v \in Workers \ {w} : job'[v] = job[v]
  BY DEF Goto, VerifierInv, HandlersHold
<1>2. HandlersHold'
  BY <1>1 DEF VerifierInv, HandlersHold, KeyBound, BoundNonce
<1> QED
  BY <1>1, <1>2 DEF VerifierInv, TypeOK

\* Creating a session writes both maps.
LEMMA CreateKeeps ==
    ASSUME VerifierInv, CreateAuthorization
    PROVE  VerifierInv'
<1>1. PICK id \in Ids \ DOMAIN created :
        /\ sessions' = Put(sessions, id, NewSession(id))
        /\ state_to_id' = Put(state_to_id, NewSession(id).state, id)
        /\ created' = Put(created, id, NewSession(id))
  BY DEF CreateAuthorization
<1>2. UNCHANGED <<job, now, accepted>>
  BY DEF CreateAuthorization
<1> DEFINE session == NewSession(id)
<1>3. /\ session \in Session /\ session.id = id /\ session.nonce = NonceOf(id)
      /\ session.state = StateOf(id)
  BY BoundAssumption DEF NewSession, Session, VerifierInv, TypeOK
<1>4. /\ DOMAIN created' = DOMAIN created \cup {id}
      /\ created'[id] = session
      /\ \A x \in DOMAIN created : created'[x] = created[x]
      /\ DOMAIN sessions' = DOMAIN sessions \cup {id}
      /\ sessions'[id] = session
      /\ \A x \in DOMAIN sessions : sessions'[x] = sessions[x]
      /\ DOMAIN state_to_id' = DOMAIN state_to_id \cup {StateOf(id)}
      /\ state_to_id'[StateOf(id)] = id
      /\ \A s \in DOMAIN state_to_id \ {StateOf(id)} : state_to_id'[s] = state_to_id[s]
  BY <1>1, <1>3 DEF Put, VerifierInv, TypeOK
<1>5. TypeOK'
  <2>1. created' \in [DOMAIN created' -> Session]
    BY <1>1, <1>3 DEF Put, VerifierInv, TypeOK
  <2> QED
    BY <1>2, <1>3, <1>4, <2>1 DEF VerifierInv, TypeOK
<1>6. SessionsAsDrawn'
  BY <1>3, <1>4 DEF VerifierInv, SessionsAsDrawn
<1>7. \A x, y \in Ids : StateOf(x) = StateOf(y) => x = y
  BY DEF StateOf
<1>8. \A x \in DOMAIN sessions : sessions[x].state = StateOf(x) /\ x # id /\ x \in Ids
  BY DEF VerifierInv, TypeOK, SessionsAsDrawn
<1>9. IndexMatchesSessions'
  BY <1>3, <1>4, <1>7, <1>8 DEF VerifierInv, IndexMatchesSessions
<1>10. HandlersHold' /\ AcceptedSeq' /\ AcceptedBound'
  BY <1>2, <1>4 DEF VerifierInv, HandlersHold, AcceptedSeq, AcceptedBound, KeyBound, BoundNonce
<1> QED
  BY <1>5, <1>6, <1>9, <1>10 DEF VerifierInv

\* Deleting a session removes it from both maps, and a session that another
\* handler has deleted already from neither.
LEMMA DeleteKeeps ==
    ASSUME VerifierInv, NEW w \in Workers, job[w].at \in {"verify", "finish"},
           DeleteSession(job[w].session)
    PROVE  /\ IndexMatchesSessions'
           /\ DOMAIN sessions' \subseteq DOMAIN sessions
           /\ \A id \in DOMAIN sessions' : sessions'[id] = sessions[id]
<1> DEFINE session == job[w].session
<1>1. session.id \in DOMAIN created /\ session = created[session.id]
  BY DEF VerifierInv, TypeOK, Idle
<1>2. session.state = StateOf(session.id) /\ session.id \in Ids
  BY <1>1 DEF VerifierInv, TypeOK, SessionsAsDrawn
<1>3. \A x \in DOMAIN sessions : sessions[x].state = StateOf(x) /\ x \in Ids
  BY DEF VerifierInv, TypeOK, SessionsAsDrawn
<1>4. \A x, y \in Ids : StateOf(x) = StateOf(y) => x = y
  BY DEF StateOf
<1>5. /\ DOMAIN sessions' = DOMAIN sessions \ {session.id}
      /\ \A x \in DOMAIN sessions' : sessions'[x] = sessions[x]
  BY DEF DeleteSession, Drop
<1>6. CASE session.id \in DOMAIN sessions
  <2>1. /\ DOMAIN state_to_id' = DOMAIN state_to_id \ {session.state}
        /\ \A s \in DOMAIN state_to_id' : state_to_id'[s] = state_to_id[s]
    BY <1>6 DEF DeleteSession, Drop
  <2> QED
    BY <1>2, <1>3, <1>4, <1>5, <1>6, <2>1 DEF VerifierInv, IndexMatchesSessions
<1>7. CASE session.id \notin DOMAIN sessions
  <2>1. state_to_id' = state_to_id
    BY <1>7 DEF DeleteSession
  <2> QED
    BY <1>5, <1>7, <2>1 DEF VerifierInv, IndexMatchesSessions
<1> QED
  BY <1>5, <1>6, <1>7

\* Looking a session up copies it.
LEMMA LookupKeeps ==
    ASSUME VerifierInv, NEW w \in Workers, NEW id \in Ids, NEW p \in DOMAIN VpTokens, Lookup(w, id, p)
    PROVE  VerifierInv'
<1> DEFINE found == state_to_id[StateOf(id)]
           j == [at |-> "verify", session |-> sessions[found], vp |-> p]
<1>1. /\ found \in DOMAIN sessions /\ found \in DOMAIN created
      /\ sessions[found] = created[found] /\ created[found].id = found
  BY DEF Lookup, VerifierInv, TypeOK, IndexMatchesSessions, SessionsAsDrawn
<1>2. Goto(w, j) /\ UNCHANGED <<sessions, state_to_id, now, created, accepted>>
  BY DEF Lookup
<1>3. /\ HandlersHold'
      /\ \A v \in Workers :
            \/ job'[v] = Idle
            \/ /\ job'[v].at \in {"verify", "finish"}
               /\ job'[v].session.id \in DOMAIN created'
               /\ job'[v].session = created'[job'[v].session.id]
  BY <1>1, <1>2, HandlerMoves
<1> QED
  BY <1>2, <1>3 DEF VerifierInv, TypeOK, SessionsAsDrawn, IndexMatchesSessions, AcceptedSeq,
                    AcceptedBound, KeyBound, BoundNonce

\* A session that has expired is deleted.
LEMMA ExpireKeeps ==
    ASSUME VerifierInv, NEW w \in Workers, Expire(w)
    PROVE  VerifierInv'
<1>1. Goto(w, Idle) /\ UNCHANGED <<now, created, accepted>>
  BY DEF Expire
<1>2. /\ HandlersHold'
      /\ \A v \in Workers :
            \/ job'[v] = Idle
            \/ /\ job'[v].at \in {"verify", "finish"}
               /\ job'[v].session.id \in DOMAIN created'
               /\ job'[v].session = created'[job'[v].session.id]
  BY <1>1, HandlerMoves DEF Idle
<1>3. /\ IndexMatchesSessions'
      /\ DOMAIN sessions' \subseteq DOMAIN sessions
      /\ \A id \in DOMAIN sessions' : sessions'[id] = sessions[id]
  BY DeleteKeeps DEF Expire
<1> QED
  BY <1>1, <1>2, <1>3 DEF VerifierInv, TypeOK, SessionsAsDrawn, AcceptedSeq,
                          AcceptedBound, KeyBound, BoundNonce

\* A presentation that passes is bound to the nonce of its session.
LEMMA PassKeeps ==
    ASSUME VerifierInv, NEW w \in Workers, Pass(w)
    PROVE  VerifierInv'
<1> DEFINE session == job[w].session
           claims == Verified(VpTokens[job[w].vp], session.nonce)
           j == [at |-> "finish", session |-> session,
                 result |-> [id |-> session.id, vp |-> job[w].vp, claims |-> claims, at |-> now]]
<1>1. /\ claims # NONE /\ Goto(w, j)
      /\ UNCHANGED <<sessions, state_to_id, now, created, accepted>>
  BY DEF Pass
<1>2. /\ session.id \in DOMAIN created /\ session = created[session.id]
      /\ job[w].vp \in DOMAIN VpTokens
  BY DEF Pass, VerifierInv, TypeOK, HandlersHold, Idle
<1>3. KeyBound(job[w].vp) => BoundNonce(job[w].vp) = session.nonce
  BY <1>1, <1>2, VerifiedIsBound
<1>4. /\ HandlersHold'
      /\ \A v \in Workers :
            \/ job'[v] = Idle
            \/ /\ job'[v].at \in {"verify", "finish"}
               /\ job'[v].session.id \in DOMAIN created'
               /\ job'[v].session = created'[job'[v].session.id]
  <2> HIDE DEF claims
  <2> QED
    BY <1>1, <1>2, <1>3, HandlerMoves
<1> QED
  BY <1>1, <1>4 DEF VerifierInv, TypeOK, SessionsAsDrawn, IndexMatchesSessions, AcceptedSeq,
                    AcceptedBound, KeyBound, BoundNonce

\* A presentation that does not pass leaves everything as it was.
LEMMA FailKeeps ==
    ASSUME VerifierInv, NEW w \in Workers, Fail(w)
    PROVE  VerifierInv'
<1>1. Goto(w, Idle) /\ UNCHANGED <<sessions, state_to_id, now, created, accepted>>
  BY DEF Fail
<1>2. /\ HandlersHold'
      /\ \A v \in Workers :
            \/ job'[v] = Idle
            \/ /\ job'[v].at \in {"verify", "finish"}
               /\ job'[v].session.id \in DOMAIN created'
               /\ job'[v].session = created'[job'[v].session.id]
  BY <1>1, HandlerMoves DEF Idle
<1> QED
  BY <1>1, <1>2 DEF VerifierInv, TypeOK, SessionsAsDrawn, IndexMatchesSessions, AcceptedSeq,
                    AcceptedBound, KeyBound, BoundNonce

\* The session is deleted and the result goes out, bound to the session's nonce.
LEMMA FinishKeeps ==
    ASSUME VerifierInv, NEW w \in Workers, Finish(w)
    PROVE  VerifierInv'
<1> DEFINE session == job[w].session
           result == job[w].result
<1>1. Goto(w, Idle) /\ UNCHANGED <<now, created>> /\ accepted' = Append(accepted, result)
  BY DEF Finish
<1>2. /\ HandlersHold'
      /\ \A v \in Workers :
            \/ job'[v] = Idle
            \/ /\ job'[v].at \in {"verify", "finish"}
               /\ job'[v].session.id \in DOMAIN created'
               /\ job'[v].session = created'[job'[v].session.id]
  BY <1>1, HandlerMoves DEF Idle
<1>3. /\ IndexMatchesSessions'
      /\ DOMAIN sessions' \subseteq DOMAIN sessions
      /\ \A id \in DOMAIN sessions' : sessions'[id] = sessions[id]
  BY DeleteKeeps DEF Finish
<1>4. /\ session.id \in DOMAIN created /\ session.nonce = NonceOf(session.id)
      /\ result.id = session.id /\ result.vp \in DOMAIN VpTokens
      /\ KeyBound(result.vp) => BoundNonce(result.vp) = session.nonce
  BY DEF Finish, VerifierInv, TypeOK, HandlersHold, SessionsAsDrawn, Idle
<1>5. /\ AcceptedSeq'
      /\ Len(accepted) \in Nat /\ Len(accepted') = Len(accepted) + 1
      /\ \A i \in 1..Len(accepted) : accepted'[i] = accepted[i]
      /\ accepted'[Len(accepted) + 1] = result
  BY <1>1, AppendToHistory DEF VerifierInv, AcceptedSeq
<1>6. ASSUME NEW i \in 1..Len(accepted')
      PROVE  /\ accepted'[i].id \in DOMAIN created
             /\ accepted'[i].vp \in DOMAIN VpTokens
             /\ KeyBound(accepted'[i].vp) =>
                    BoundNonce(accepted'[i].vp) = NonceOf(accepted'[i].id)
  <2>1. CASE i \in 1..Len(accepted)
    BY <1>5, <2>1 DEF VerifierInv, TypeOK, AcceptedBound
  <2>2. CASE i = Len(accepted) + 1
    BY <1>4, <1>5, <2>2
  <2> QED
    BY <1>5, <2>1, <2>2
<1>7. AcceptedBound'
  BY <1>1, <1>6 DEF AcceptedBound, KeyBound, BoundNonce
<1>8. TypeOK'
  BY <1>1, <1>2, <1>3, <1>6 DEF VerifierInv, TypeOK
<1> QED
  BY <1>1, <1>2, <1>3, <1>5, <1>7, <1>8 DEF VerifierInv, SessionsAsDrawn

\* The invariant of the verifier, step by step.
LEMMA VerifierInvariant == Spec => []VerifierInv
<1>1. Init => VerifierInv
  <2> SUFFICES ASSUME Init PROVE VerifierInv
    OBVIOUS
  <2>1. DOMAIN sessions = {} /\ DOMAIN state_to_id = {} /\ DOMAIN created = {}
    BY DEF Init, EmptyMap
  <2>2. accepted = <<>> /\ Len(accepted) = 0 /\ AcceptedSeq
    BY EmptySeq DEF Init, AcceptedSeq
  <2>3. TypeOK
    <3>1. created \in [DOMAIN created -> Session]
      BY <2>1 DEF Init, EmptyMap
    <3> QED
      BY <2>1, <2>2, <3>1 DEF Init, TypeOK
  <2> QED
    BY <2>1, <2>2, <2>3 DEF Init, VerifierInv, SessionsAsDrawn, IndexMatchesSessions,
                            HandlersHold, AcceptedBound, Idle
<1>2. VerifierInv /\ [Next]_vars => VerifierInv'
  <2> SUFFICES ASSUME VerifierInv, [Next]_vars PROVE VerifierInv'
    OBVIOUS
  <2>1. CASE Tick
    BY <2>1 DEF Tick, VerifierInv, TypeOK, SessionsAsDrawn, IndexMatchesSessions, HandlersHold,
                AcceptedSeq, AcceptedBound, KeyBound, BoundNonce
  <2>2. CASE UNCHANGED vars
    BY <2>2 DEF vars, VerifierInv, TypeOK, SessionsAsDrawn, IndexMatchesSessions, HandlersHold,
                AcceptedSeq, AcceptedBound, KeyBound, BoundNonce
  <2> QED
    BY <2>1, <2>2, CreateKeeps, LookupKeeps, ExpireKeeps, PassKeeps, FailKeeps, FinishKeeps
       DEF Next
<1> QED
  BY <1>1, <1>2, PTL DEF Spec

-------------------------------------------------------------------------------
\* What follows.

\* Sessions are never changed, and a handler's copy is the session as it was
\* created, for any number of handlers (session.rs, response.rs).
THEOREM TypeCorrect == Spec => []TypeOK
BY VerifierInvariant, PTL DEF VerifierInv

\* However creation, expiry and the deletions of several handlers interleave, the
\* two maps of the store stay inverse to each other (session.rs).
THEOREM MapsStayInverse == Spec => []IndexMatchesSessions
BY VerifierInvariant, PTL DEF VerifierInv

\* A key-bound presentation is never accepted in two sessions, for any set of
\* presentations, any number of sessions open at once and any interleaving of
\* their responses (response.rs, verify_sd_jwt_vp).
THEOREM PresentationsAreNotReplayed == Spec => []NoReplayAcrossSessions
<1>1. VerifierInv => NoReplayAcrossSessions
  <2> SUFFICES ASSUME VerifierInv,
                      NEW i \in 1..Len(accepted), NEW j \in 1..Len(accepted),
                      accepted[i].vp = accepted[j].vp, KeyBound(accepted[i].vp)
               PROVE  accepted[i].id = accepted[j].id
    BY DEF NoReplayAcrossSessions
  <2>1. NonceOf(accepted[i].id) = NonceOf(accepted[j].id)
    BY DEF VerifierInv, AcceptedBound
  <2> QED
    BY <2>1 DEF NonceOf
<1> QED
  BY <1>1, VerifierInvariant, PTL

-------------------------------------------------------------------------------
\* What a session accepts is what a holder made.

\* The key binding JWT fixes the presentation it is in: no part can be taken out,
\* added or exchanged without a new one.
LEMMA SdHashFixesPresentation ==
    ASSUME NEW Part, NEW p \in Seq(Part), NEW q \in Seq(Part), Len(p) > 1, Len(q) > 1,
           SdHash(p) = SdHash(q), p[Len(p)] = q[Len(q)]
    PROVE  p = q
<1>1. Len(p) \in Nat /\ Len(q) \in Nat
  BY LenProperties
<1>2. SubSeq(p, 1, Len(p) - 1) = SubSeq(q, 1, Len(q) - 1)
  BY DEF SdHash
<1>3. /\ Len(SubSeq(p, 1, Len(p) - 1)) = Len(p) - 1
      /\ \A i \in 1..Len(p) - 1 : SubSeq(p, 1, Len(p) - 1)[i] = p[i]
  BY <1>1
<1>4. /\ Len(SubSeq(q, 1, Len(q) - 1)) = Len(q) - 1
      /\ \A i \in 1..Len(q) - 1 : SubSeq(q, 1, Len(q) - 1)[i] = q[i]
  BY <1>1
<1>5. Len(p) = Len(q)
  BY <1>1, <1>2, <1>3, <1>4
<1>6. \A i \in 1..Len(p) : p[i] = q[i]
  BY <1>1, <1>2, <1>3, <1>4, <1>5
<1> QED
  BY <1>5, <1>6, SeqEqual

\* A result of a presentation with a key binding has passed every check, at the time
\* it names and for the nonce of its session.
Credential(p) == VpTokens[p][1].jwt.payload

Checked(result) ==
    LET vp == VpTokens[result.vp]
        credential == Credential(result.vp)
    IN  KeyBound(result.vp) =>
            /\ vp[1].kind = "jwt"
            /\ credential.nbf <= result.at /\ result.at < credential.exp
            /\ DisclosuresSigned(Disclosures(vp), credential.sd)
            /\ result.claims = MergedClaims(Disclosures(vp), credential.plain)
            /\ VerifyKeyBinding(vp, credential.cnf, NonceOf(result.id), ClientId)

ResultsChecked ==
    /\ \A w \in Workers : job[w].at = "finish" => Checked(job[w].result)
    /\ \A i \in 1..Len(accepted) : Checked(accepted[i])

\* verify_sd_jwt_vp lets nothing through unchecked.
LEMMA VerifiedIsChecked ==
    ASSUME NEW p \in DOMAIN VpTokens, NEW id, NEW claims, claims # NONE,
           claims = Verified(VpTokens[p], NonceOf(id))
    PROVE  Checked([id |-> id, vp |-> p, claims |-> claims, at |-> now])
<1> DEFINE vp == VpTokens[p]
           nonce == NonceOf(id)
           verified == VerifySdJwtVc(vp, IssuerKey, now)
<1> SUFFICES ASSUME KeyBound(p)
             PROVE  /\ vp[1].kind = "jwt"
                    /\ Credential(p).nbf <= now /\ now < Credential(p).exp
                    /\ DisclosuresSigned(Disclosures(vp), Credential(p).sd)
                    /\ claims = MergedClaims(Disclosures(vp), Credential(p).plain)
                    /\ VerifyKeyBinding(vp, Credential(p).cnf, nonce, ClientId)
  BY DEF Checked
<1>1. claims = VerifySdJwtVp(vp, nonce)
  BY DEF Verified, KeyBound
<1>2. /\ verified # NONE /\ claims = verified.claims
      /\ VerifyKeyBinding(vp, verified.holder_jwk, nonce, ClientId)
  BY <1>1 DEF VerifySdJwtVp
<1>3. /\ verified = [claims |-> MergedClaims(Disclosures(vp), Credential(p).plain),
                     holder_jwk |-> Credential(p).cnf]
      /\ vp[1].kind = "jwt"
      /\ Credential(p).nbf <= now /\ now < Credential(p).exp
      /\ DisclosuresSigned(Disclosures(vp), Credential(p).sd)
  BY <1>2 DEF VerifySdJwtVc, Credential
<1> QED
  BY <1>2, <1>3

LEMMA ResultsAreChecked == Spec => []ResultsChecked
<1>1. Init => ResultsChecked
  <2> SUFFICES ASSUME Init PROVE ResultsChecked
    OBVIOUS
  <2>1. Len(accepted) = 0
    BY EmptySeq DEF Init
  <2> QED
    BY <2>1 DEF Init, ResultsChecked, Idle
<1>2. VerifierInv /\ ResultsChecked /\ [Next]_vars => ResultsChecked'
  <2> SUFFICES ASSUME VerifierInv, ResultsChecked, [Next]_vars PROVE ResultsChecked'
    OBVIOUS
  <2>1. \A r : Checked(r)' <=> Checked(r)
    BY DEF Checked, Credential, KeyBound
  <2>2. ASSUME NEW w \in Workers, NEW j, Goto(w, j), j.at = "finish" => Checked(j.result)
        PROVE  \A v \in Workers : job'[v].at = "finish" => Checked(job'[v].result)
    <3>1. job'[w] = j /\ \A v \in Workers \ {w} : job'[v] = job[v]
      BY <2>2 DEF Goto, VerifierInv, HandlersHold
    <3> QED
      BY <2>2, <3>1 DEF ResultsChecked
  <2>3. CASE UNCHANGED <<job, accepted>>
    BY <2>1, <2>3 DEF ResultsChecked, Checked, Credential, KeyBound
  <2>4. ASSUME NEW w \in Workers, NEW id \in Ids, NEW p \in DOMAIN VpTokens, Lookup(w, id, p)
        PROVE  ResultsChecked'
    <3> DEFINE j == [at |-> "verify", session |-> sessions[state_to_id[StateOf(id)]], vp |-> p]
    <3>1. Goto(w, j) /\ j.at # "finish" /\ UNCHANGED accepted
      BY <2>4 DEF Lookup
    <3> QED
      BY <2>2, <3>1 DEF ResultsChecked, Checked, Credential, KeyBound
  <2>5. ASSUME NEW w \in Workers, Expire(w) \/ Fail(w) PROVE ResultsChecked'
    <3>1. Goto(w, Idle) /\ Idle.at # "finish" /\ UNCHANGED accepted
      BY <2>5 DEF Expire, Fail, Idle
    <3> QED
      BY <2>2, <3>1 DEF ResultsChecked, Checked, Credential, KeyBound
  <2>6. ASSUME NEW w \in Workers, Pass(w) PROVE ResultsChecked'
    <3> DEFINE session == job[w].session
               claims == Verified(VpTokens[job[w].vp], session.nonce)
               result == [id |-> session.id, vp |-> job[w].vp, claims |-> claims, at |-> now]
               j == [at |-> "finish", session |-> session, result |-> result]
    <3>1. claims # NONE /\ Goto(w, j) /\ UNCHANGED accepted
      BY <2>6 DEF Pass
    <3>2. job[w].vp \in DOMAIN VpTokens /\ session.nonce = NonceOf(session.id)
      BY <2>6 DEF Pass, VerifierInv, TypeOK, HandlersHold, SessionsAsDrawn, Idle
    <3>3. Checked(result)
      BY <3>1, <3>2, VerifiedIsChecked
    <3> HIDE DEF result
    <3>4. \A v \in Workers : job'[v].at = "finish" => Checked(job'[v].result)
      BY <2>2, <3>1, <3>3
    <3> QED
      BY <3>1, <3>4 DEF ResultsChecked, Checked, Credential, KeyBound
  <2>7. ASSUME NEW w \in Workers, Finish(w) PROVE ResultsChecked'
    <3>1. Goto(w, Idle) /\ Idle.at # "finish" /\ accepted' = Append(accepted, job[w].result)
      BY <2>7 DEF Finish, Idle
    <3>2. Checked(job[w].result)
      BY <2>7 DEF Finish, ResultsChecked
    <3>3. /\ Len(accepted) \in Nat /\ Len(accepted') = Len(accepted) + 1
          /\ \A i \in 1..Len(accepted) : accepted'[i] = accepted[i]
          /\ accepted'[Len(accepted) + 1] = job[w].result
      BY <3>1, AppendToHistory DEF VerifierInv, AcceptedSeq
    <3>4. \A i \in 1..Len(accepted') : Checked(accepted'[i])
      BY <3>2, <3>3 DEF ResultsChecked
    <3>5. \A v \in Workers : job'[v].at = "finish" => Checked(job'[v].result)
      BY <2>2, <3>1
    <3> QED
      BY <3>4, <3>5 DEF ResultsChecked, Checked, Credential, KeyBound
  <2> QED
    BY <2>3, <2>4, <2>5, <2>6, <2>7 DEF Next, vars, CreateAuthorization, Tick
<1> QED
  BY <1>1, <1>2, VerifierInvariant, PTL DEF Spec

\* A checked presentation is one that was made, to the last part.
LEMMA CheckedIsMade ==
    ASSUME NEW p \in DOMAIN VpTokens, KeyBound(p), VpTokens[p][1].kind = "jwt",
           NEW nonce, VerifyKeyBinding(VpTokens[p], Credential(p).cnf, nonce, ClientId),
           DisclosuresSigned(Disclosures(VpTokens[p]), Credential(p).sd)
    PROVE  p \in DOMAIN Made /\ MadeAsRecorded(VpTokens[p], Made[p])
<1> DEFINE vp == VpTokens[p]
           kb == KeyBindingJwt(vp)
<1>1. kb # NONE /\ kb.payload.sd_hash = SdHash(vp)
      /\ kb.signature = KeySign(Credential(p).cnf, <<kb.header, kb.payload>>)
  BY DEF VerifyKeyBinding, VerifyWithJwk
<1>2. SignedByHolder(vp)
  BY <1>1 DEF SignedByHolder, Credential
<1>3. PICK m \in DOMAIN Made : KeyBindingJwt(VpTokens[m]) = kb
  BY <1>2, WalletAssumption
<1>4. m \in DOMAIN VpTokens /\ MadeAsRecorded(VpTokens[m], Made[m])
  BY WalletAssumption
<1> DEFINE made == VpTokens[m]
<1>5. SdHash(made) = SdHash(vp)
  BY <1>1, <1>3, <1>4 DEF MadeAsRecorded
<1>6. made = vp
  <2> DEFINE Part == {vp[i] : i \in DOMAIN vp} \cup {made[i] : i \in DOMAIN made}
  <2>1. vp \in Seq(Part) /\ made \in Seq(Part)
    <3>1. InParts(vp) /\ InParts(made)
      BY <1>4, WalletAssumption
    <3>2. vp \in Seq({vp[i] : i \in DOMAIN vp}) /\ made \in Seq({made[i] : i \in DOMAIN made})
      BY <3>1 DEF InParts
    <3>3. {vp[i] : i \in DOMAIN vp} \subseteq Part /\ {made[i] : i \in DOMAIN made} \subseteq Part
      OBVIOUS
    <3> QED
      BY <3>2, <3>3, SeqMonotonic
  <2>2. /\ Len(vp) > 1 /\ Len(made) > 1
        /\ vp[Len(vp)].kind = "jwt" /\ made[Len(made)].kind = "jwt"
        /\ vp[Len(vp)].jwt = made[Len(made)].jwt
    BY <1>1, <1>3, <1>4 DEF KeyBindingJwt, MadeAsRecorded
  <2>3. vp[Len(vp)] = made[Len(made)]
    <3>1. InParts(vp) /\ InParts(made)
      BY <1>4, WalletAssumption
    <3>2. /\ Len(vp) \in Nat /\ DOMAIN vp = 1..Len(vp)
          /\ Len(made) \in Nat /\ DOMAIN made = 1..Len(made)
      BY <2>1, LenProperties
    <3>3. Len(vp) \in DOMAIN vp /\ Len(made) \in DOMAIN made
      BY <2>2, <3>2
    <3>4. /\ vp[Len(vp)] = JwtPart(vp[Len(vp)].jwt)
          /\ made[Len(made)] = JwtPart(made[Len(made)].jwt)
      BY <2>2, <3>1, <3>3 DEF InParts
    <3> QED
      BY <2>2, <3>4
  <2> HIDE DEF Part
  <2> QED
    BY <1>5, <2>1, <2>2, <2>3, SdHashFixesPresentation
<1> QED
  BY <1>4, <1>6, WalletAssumption

\* What a session accepts with a key binding is, to the last part, a presentation
\* that a holder made of a credential still valid then, for that session and this
\* verifier, with the claims the holder revealed: for any tokens that are sent,
\* whatever is cut out of, added to or mixed from what the holders made
\* (response.rs, verify_sd_jwt_vp; sd_jwt.rs, verify_key_binding).
THEOREM AcceptedIsMade == Spec => []AcceptedIsWhatHolderMade
<1>1. VerifierInv /\ ResultsChecked => AcceptedIsWhatHolderMade
  <2> SUFFICES ASSUME VerifierInv, ResultsChecked, NEW i \in 1..Len(accepted),
                      KeyBound(accepted[i].vp)
               PROVE  /\ accepted[i].vp \in DOMAIN Made
                      /\ LET made == Made[accepted[i].vp]
                         IN  /\ made.nonce = created[accepted[i].id].nonce
                             /\ made.audience = ClientId
                             /\ accepted[i].claims = made.claims
                             /\ made.valid_from <= accepted[i].at
                             /\ accepted[i].at < made.valid_until
    BY DEF AcceptedIsWhatHolderMade
  <2> DEFINE p == accepted[i].vp
             nonce == NonceOf(accepted[i].id)
  <2>1. p \in DOMAIN VpTokens /\ created[accepted[i].id].nonce = nonce
    BY DEF VerifierInv, TypeOK, AcceptedBound, SessionsAsDrawn
  <2>2. /\ VpTokens[p][1].kind = "jwt"
        /\ Credential(p).nbf <= accepted[i].at /\ accepted[i].at < Credential(p).exp
        /\ DisclosuresSigned(Disclosures(VpTokens[p]), Credential(p).sd)
        /\ accepted[i].claims = MergedClaims(Disclosures(VpTokens[p]), Credential(p).plain)
        /\ VerifyKeyBinding(VpTokens[p], Credential(p).cnf, nonce, ClientId)
    BY DEF ResultsChecked, Checked
  <2>3. p \in DOMAIN Made /\ MadeAsRecorded(VpTokens[p], Made[p])
    BY <2>1, <2>2, CheckedIsMade
  <2>4. Made[p].nonce = nonce /\ Made[p].audience = ClientId
    BY <2>2, <2>3 DEF VerifyKeyBinding, MadeAsRecorded
  <2>5. /\ Made[p].claims = MergedClaims(Disclosures(VpTokens[p]), Credential(p).plain)
        /\ Made[p].valid_from = Credential(p).nbf /\ Made[p].valid_until = Credential(p).exp
    BY <2>3 DEF MadeAsRecorded, Credential
  <2> QED
    BY <2>1, <2>2, <2>3, <2>4, <2>5
<1> QED
  BY <1>1, VerifierInvariant, ResultsAreChecked, PTL

===============================================================================
