--------------------------- MODULE IssuerSystem_proofs ---------------------------
(***************************************************************************)
(* Proofs about the issuer, for any number of workers, clients, requests,  *)
(* codes and tokens and any lifetimes.                                     *)
(*                                                                         *)
(* First the authorization server of AuthorizationFlow: the type           *)
(* invariant, what a token is bound to, how codes and sessions agree, what *)
(* a revocation may remove, the single use of pre-authorized codes, and    *)
(* what requests in progress together can and cannot do to one code.       *)
(*                                                                         *)
(* Then the issuer as a whole, with any number of handlers of either       *)
(* endpoint.  The credential endpoint only takes expired tokens away, so   *)
(* that the composition is still the authorization server and all its      *)
(* theorems hold of it; with them, every credential goes back to a consent *)
(* or an offer.                                                            *)
(***************************************************************************)
EXTENDS IssuerSystem, SequenceTheorems, TLAPS

-------------------------------------------------------------------------------
\* The authorization server.


\* What a running handler remembers still exists: sessions, codes and the history
\* of tokens only grow.  TypeOK is not inductive without it.
KnownJob(j) ==
    /\ j.at = "decide" => j.uri \in DOMAIN sessions
    /\ j.at \in {"check", "consume", "record", "revoke", "drop"} => j.code \in DOMAIN code_to_uri
    /\ j.at = "store" /\ j.code \in Codes => j.code \in DOMAIN code_to_uri
    /\ j.at \in {"record", "drop"} => j.token \in DOMAIN origin

JobsKnown == \A w \in Workers : KnownJob(job[w])

\* The shape of a job is given by the step it is at.
LEMMA JobShape ==
    ASSUME NEW j \in Job
    PROVE  /\ j.at = "decide" => j \in DecideJob
           /\ j.at = "check" => j \in CheckJob
           /\ j.at = "consume" => j \in ConsumeJob
           /\ j.at = "store" => j \in StoreJob
           /\ j.at = "record" => j \in RecordJob
           /\ j.at = "revoke" => j \in RevokeJob
           /\ j.at = "drop" => j \in DropJob
BY DEF Job, IdleJob, DecideJob, CheckJob, ConsumeJob, StoreJob, RecordJob, RevokeJob, DropJob

\* Goto changes the one worker it is given.
LEMMA GotoFacts ==
    ASSUME job \in [Workers -> Job], NEW w \in Workers, NEW j \in Job, Goto(w, j)
    PROVE  /\ job' \in [Workers -> Job]
           /\ job'[w] = j
           /\ \A v \in Workers \ {w} : job'[v] = job[v]
BY DEF Goto

\* An accepted pushed request makes a well-formed session.
LEMMA NewSessionType ==
    ASSUME TypeOK, NEW r \in ParRequests, ParAccepted(r), NEW uri \in Uris
    PROVE  NewSession(r, uri) \in AuthorizationSession
<1>1. RequestedConfigurations(r) \in SUBSET Configs
  BY DEF RequestedConfigurations
<1>2. /\ r.client_id \in Clients
      /\ r.redirect_uri \in Redirects
      /\ r.code_challenge \in {S256(v) : v \in Verifiers}
      /\ r.dpop_jkt \in Option(Keys) /\ r.proof_jkt \in Option(Keys)
  BY RequestAssumption DEF ParAccepted, S256, Option
<1>3. now \in Nat /\ NONE \in Option(Codes) /\ -1 \in Nat \cup {-1}
  BY DEF TypeOK, Option
<1> QED
  BY <1>1, <1>2, <1>3 DEF NewSession, AuthorizationSession

\* Which sessions and codes exist, and what of a session can change: its code,
\* the time of the code, and `consumed`, which is never taken back.
Kept(old, new) ==
    /\ new.client_id = old.client_id
    /\ new.configs = old.configs
    /\ new.dpop_jkt = old.dpop_jkt
    /\ old.consumed => new.consumed

SessionsKept ==
    /\ DOMAIN sessions \subseteq DOMAIN sessions'
    /\ \A u \in DOMAIN sessions : Kept(sessions[u], sessions'[u])
    /\ DOMAIN code_to_uri \subseteq DOMAIN code_to_uri'
    /\ \A c \in DOMAIN code_to_uri : code_to_uri'[c] = code_to_uri[c]

\* A step that only moves one worker on keeps the others' memories valid.
LEMMA GotoKnown ==
    ASSUME TypeOK, JobsKnown, NEW w \in Workers, NEW j \in Job, Goto(w, j),
           SessionsKept, DOMAIN origin \subseteq DOMAIN origin', KnownJob(j)'
    PROVE  JobsKnown'
<1>1. job'[w] = j /\ \A v \in Workers \ {w} : job'[v] = job[v]
  BY GotoFacts DEF TypeOK
<1>2. ASSUME NEW v \in Workers \ {w} PROVE KnownJob(job[v])'
  BY <1>1, <1>2 DEF JobsKnown, KnownJob, SessionsKept
<1> QED
  BY <1>1, <1>2 DEF JobsKnown, KnownJob

\* A pushed request (process_par) keeps the store well formed.
LEMMA ParTypeOK ==
    ASSUME TypeOK, JobsKnown, NEW r \in ParRequests, Par(r)
    PROVE  TypeOK' /\ JobsKnown' /\ SessionsKept
<1>1. PICK uri \in Uris \ DOMAIN sessions : sessions' = Put(sessions, uri, NewSession(r, uri))
  BY DEF Par
<1>2. NewSession(r, uri) \in AuthorizationSession
  BY NewSessionType DEF Par
<1>3. /\ DOMAIN sessions' = DOMAIN sessions \cup {uri}
      /\ DOMAIN sessions' \subseteq Uris
      /\ sessions' \in [DOMAIN sessions' -> AuthorizationSession]
      /\ \A x \in DOMAIN sessions \ {uri} : sessions'[x] = sessions[x]
  BY <1>1, <1>2 DEF TypeOK, Put
<1>4. code_to_uri' \in [DOMAIN code_to_uri' -> DOMAIN sessions']
  BY <1>3 DEF TypeOK, Par
<1>5. TypeOK'
  BY <1>3, <1>4 DEF TypeOK, Par, history
<1>6. JobsKnown'
  BY <1>3 DEF JobsKnown, KnownJob, Par, history
<1>7. SessionsKept
  BY <1>3 DEF SessionsKept, Kept, Par
<1> QED
  BY <1>5, <1>6, <1>7

\* A credential offer (store_pre_authorized_code) keeps the store well formed.
LEMMA CredentialOfferTypeOK ==
    ASSUME TypeOK, JobsKnown, NEW o \in Offers, CredentialOffer(o)
    PROVE  TypeOK' /\ JobsKnown' /\ SessionsKept
<1> DEFINE entry == [tx_code |-> o.tx_code, configs |-> o.configs, consumed |-> FALSE]
<1>1. PICK code \in PreAuthCodes \ DOMAIN pre_auth_codes :
          pre_auth_codes' = Put(pre_auth_codes, code, entry)
  BY DEF CredentialOffer
<1>2. entry \in PreAuthEntry
  BY RequestAssumption DEF CredentialOffer, PreAuthEntry, Option
<1>3. /\ DOMAIN pre_auth_codes' \subseteq PreAuthCodes
      /\ pre_auth_codes' \in [DOMAIN pre_auth_codes' -> PreAuthEntry]
  BY <1>1, <1>2 DEF TypeOK, Put
<1> QED
  BY <1>3 DEF TypeOK, JobsKnown, KnownJob, SessionsKept, Kept, CredentialOffer, history

\* The steps of a handler that only read the store.
LEMMA ReadOnlyTypeOK ==
    ASSUME TypeOK, JobsKnown, NEW w \in Workers, NEW j \in Job, Goto(w, j), KnownJob(j),
           UNCHANGED <<store, now, history>>
    PROVE  TypeOK' /\ JobsKnown' /\ SessionsKept
<1>1. SessionsKept
  BY DEF SessionsKept, Kept, store
<1>2. job' \in [Workers -> Job]
  BY GotoFacts DEF TypeOK
<1>3. KnownJob(j)'
  BY DEF KnownJob, store, history
<1>4. JobsKnown'
  BY <1>1, <1>3, GotoKnown DEF history
<1>5. TypeOK'
  BY <1>2 DEF TypeOK, store, history
<1> QED
  BY <1>1, <1>4, <1>5

\* Resolving a request_uri only remembers a session that exists.
LEMMA DecisionResolveTypeOK ==
    ASSUME TypeOK, JobsKnown, NEW w \in Workers, NEW uri \in Uris, NEW client \in Clients,
           DecisionResolve(w, uri, client)
    PROVE  TypeOK' /\ JobsKnown' /\ SessionsKept
<1> DEFINE j == [at |-> "decide", uri |-> uri]
<1>1. j \in Job /\ KnownJob(j)
  BY DEF DecisionResolve, Resolvable, Job, DecideJob, KnownJob
<1>2. Goto(w, j) /\ UNCHANGED <<store, now, history>>
  BY DEF DecisionResolve
<1> QED
  BY <1>1, <1>2, ReadOnlyTypeOK

\* set_authorization_code keeps the code index within the sessions.
LEMMA DecisionApproveTypeOK ==
    ASSUME TypeOK, JobsKnown, NEW w \in Workers, DecisionApprove(w)
    PROVE  TypeOK' /\ JobsKnown' /\ SessionsKept
<1> DEFINE uri == job[w].uri
<1>1. uri \in DOMAIN sessions
  BY DEF DecisionApprove, JobsKnown, KnownJob
<1>2. PICK code \in Codes \ DOMAIN code_to_uri :
          SetAuthorizationCode(uri, code) /\ approver' = Put(approver, code, w)
  BY DEF DecisionApprove
<1>3. IdleJob \in Job /\ KnownJob(IdleJob)'
  BY DEF Job, IdleJob, KnownJob
<1>4. now \in Nat /\ code \in Option(Codes)
  BY DEF TypeOK, Option
<1>5. /\ DOMAIN sessions' = DOMAIN sessions
      /\ sessions' \in [DOMAIN sessions -> AuthorizationSession]
  <2>1. sessions[uri] \in AuthorizationSession
    BY <1>1 DEF TypeOK
  <2>2. [sessions[uri] EXCEPT !.authorization_code = code, !.code_issued_at = now]
           \in AuthorizationSession
    BY <1>4, <2>1 DEF AuthorizationSession
  <2>3. sessions' = [sessions EXCEPT ![uri] =
              [sessions[uri] EXCEPT !.authorization_code = code, !.code_issued_at = now]]
    BY <1>1, <1>2, <2>1 DEF SetAuthorizationCode, TypeOK, AuthorizationSession
  <2> QED
    BY <2>2, <2>3 DEF TypeOK
<1>6. \A u \in DOMAIN sessions : Kept(sessions[u], sessions'[u])
  BY <1>2 DEF SetAuthorizationCode, Kept, TypeOK, AuthorizationSession
<1>7. /\ DOMAIN code_to_uri' = DOMAIN code_to_uri \cup {code}
      /\ code_to_uri' \in [DOMAIN code_to_uri' -> DOMAIN sessions']
      /\ \A c \in DOMAIN code_to_uri : code_to_uri'[c] = code_to_uri[c]
  BY <1>1, <1>2, <1>5 DEF SetAuthorizationCode, Put, TypeOK
<1>8. SessionsKept
  BY <1>5, <1>6, <1>7 DEF SessionsKept
<1>9. /\ Goto(w, IdleJob)
      /\ UNCHANGED <<pre_auth_codes, access_tokens, tokens_by_code, now, origin, replayed, denied>>
  BY DEF DecisionApprove
<1>10. JobsKnown'
  BY <1>3, <1>8, <1>9, GotoKnown
<1>11. TypeOK'
  <2>1. job' \in [Workers -> Job]
    BY <1>3, <1>9, GotoFacts DEF TypeOK
  <2>2. /\ DOMAIN sessions' \subseteq Uris
        /\ sessions' \in [DOMAIN sessions' -> AuthorizationSession]
        /\ denied' \subseteq DOMAIN sessions'
    BY <1>5, <1>9 DEF TypeOK
  <2>3. /\ DOMAIN code_to_uri' \subseteq Codes
        /\ DOMAIN tokens_by_code' \subseteq DOMAIN code_to_uri'
        /\ replayed' \subseteq DOMAIN code_to_uri'
    BY <1>7, <1>9 DEF TypeOK
  <2>4. approver' \in [DOMAIN code_to_uri' -> Workers]
    BY <1>2, <1>7 DEF TypeOK, Put
  <2> QED
    BY <1>7, <1>9, <2>1, <2>2, <2>3, <2>4 DEF TypeOK
<1> QED
  BY <1>8, <1>10, <1>11

\* A denial keeps the store as it is.
LEMMA DecisionDenyTypeOK ==
    ASSUME TypeOK, JobsKnown, NEW w \in Workers, DecisionDeny(w)
    PROVE  TypeOK' /\ JobsKnown' /\ SessionsKept
<1>1. IdleJob \in Job /\ KnownJob(IdleJob)'
  BY DEF Job, IdleJob, KnownJob
<1>2. Goto(w, IdleJob) /\ UNCHANGED <<store, now, origin, approver, replayed>>
  BY DEF DecisionDeny
<1>3. SessionsKept
  BY <1>2 DEF SessionsKept, Kept, store
<1>4. JobsKnown'
  BY <1>1, <1>2, <1>3, GotoKnown
<1>5. denied' \subseteq DOMAIN sessions'
  BY DEF DecisionDeny, JobsKnown, KnownJob, TypeOK, store
<1>6. job' \in [Workers -> Job]
  BY <1>1, <1>2, GotoFacts DEF TypeOK
<1>7. TypeOK'
  BY <1>2, <1>5, <1>6 DEF TypeOK, store
<1> QED
  BY <1>3, <1>4, <1>7

\* get_session_by_code gives the handler a copy of an existing session.
LEMMA TokenLookupTypeOK ==
    ASSUME TypeOK, JobsKnown, NEW w \in Workers, NEW r \in TokenRequests, NEW code \in Codes,
           TokenLookup(w, r, code)
    PROVE  TypeOK' /\ JobsKnown' /\ SessionsKept
<1> DEFINE session == sessions[code_to_uri[code]]
           revoke  == [at |-> "revoke", code |-> code]
           check   == [at |-> "check", code |-> code, request |-> r, session |-> session]
<1>1. session \in AuthorizationSession /\ code \in DOMAIN code_to_uri
  BY DEF TokenLookup, TypeOK
<1>2. revoke \in Job /\ KnownJob(revoke)
  BY <1>1 DEF Job, RevokeJob, KnownJob
<1>3. check \in Job /\ KnownJob(check)
  <2>1. check \in CheckJob
    BY <1>1 DEF CheckJob
  <2> QED
    BY <1>1, <2>1 DEF Job, KnownJob
<1>4. (Goto(w, revoke) \/ Goto(w, check)) /\ UNCHANGED <<store, now, history>>
  BY DEF TokenLookup
<1> HIDE DEF revoke, check
<1>5. CASE Goto(w, revoke)
  BY <1>2, <1>4, <1>5, ReadOnlyTypeOK
<1>6. CASE Goto(w, check)
  BY <1>3, <1>4, <1>6, ReadOnlyTypeOK
<1> QED
  BY <1>4, <1>5, <1>6

\* The checks of the code grant leave a well-formed grant.
LEMMA TokenAcceptTypeOK ==
    ASSUME TypeOK, JobsKnown, NEW w \in Workers, TokenAccept(w)
    PROVE  TypeOK' /\ JobsKnown' /\ SessionsKept
<1> DEFINE grant == [configs |-> job[w].session.configs,
                     by_identifier |-> job[w].session.via_authorization_details,
                     dpop_jkt |-> job[w].request.dpop_jkt]
           j == [at |-> "consume", code |-> job[w].code,
                 client |-> job[w].request.authenticated_client, grant |-> grant]
<1>1. job[w] \in CheckJob /\ KnownJob(job[w])
  BY JobShape DEF TokenAccept, TypeOK, JobsKnown
<1>2. /\ job[w].code \in DOMAIN code_to_uri /\ job[w].code \in Codes
      /\ job[w].request \in TokenRequests
      /\ job[w].session \in AuthorizationSession
  BY <1>1 DEF CheckJob, KnownJob
<1>3. job[w].request.authenticated_client \in Clients
  BY <1>2 DEF TokenAccept, CodeAccepted, AuthorizationSession
<1>4. grant \in Grant
  BY <1>2, RequestAssumption DEF Grant, AuthorizationSession, Option
<1>5. j \in Job /\ KnownJob(j)
  BY <1>2, <1>3, <1>4 DEF Job, ConsumeJob, KnownJob
<1>6. Goto(w, j) /\ UNCHANGED <<store, now, history>>
  BY DEF TokenAccept
<1> QED
  BY <1>5, <1>6, ReadOnlyTypeOK

\* A refused token request leaves everything as it is.
LEMMA TokenRejectTypeOK ==
    ASSUME TypeOK, JobsKnown, NEW w \in Workers, TokenReject(w)
    PROVE  TypeOK' /\ JobsKnown' /\ SessionsKept
<1>1. IdleJob \in Job /\ KnownJob(IdleJob)
  BY DEF Job, IdleJob, KnownJob
<1>2. Goto(w, IdleJob) /\ UNCHANGED <<store, now, history>>
  BY DEF TokenReject
<1> QED
  BY <1>1, <1>2, ReadOnlyTypeOK

\* consume_authorization_code finds the session of its code.
LEMMA TokenConsumeTypeOK ==
    ASSUME TypeOK, JobsKnown, NEW w \in Workers, TokenConsume(w)
    PROVE  TypeOK' /\ JobsKnown' /\ SessionsKept
<1> DEFINE uri == code_to_uri[job[w].code]
<1>1. job[w] \in ConsumeJob /\ job[w].code \in DOMAIN code_to_uri
  BY JobShape DEF TokenConsume, TypeOK, JobsKnown, KnownJob
<1>2. PICK j \in Job : j = [at |-> "store", code |-> job[w].code, client |-> job[w].client,
                           grant |-> job[w].grant]
  BY <1>1 DEF Job, StoreJob, ConsumeJob, Option
<1>3. Goto(w, j) /\ UNCHANGED <<code_to_uri, pre_auth_codes, access_tokens, tokens_by_code,
                                 now, history>>
  BY <1>2 DEF TokenConsume
<1>4. KnownJob(j)'
  BY <1>1, <1>2, <1>3 DEF KnownJob
<1>5. uri \in DOMAIN sessions /\ sessions[uri] \in AuthorizationSession
  BY <1>1 DEF TypeOK
<1>6. sessions' = [sessions EXCEPT ![uri] = [sessions[uri] EXCEPT !.consumed = TRUE]]
  BY <1>5 DEF TokenConsume, ConsumeAuthorizationCode, TypeOK
<1>7. /\ DOMAIN sessions' = DOMAIN sessions
      /\ sessions' \in [DOMAIN sessions' -> AuthorizationSession]
  <2>1. [sessions[uri] EXCEPT !.consumed = TRUE] \in AuthorizationSession
    BY <1>5 DEF AuthorizationSession
  <2> QED
    BY <1>6, <2>1 DEF TypeOK
<1>8. \A u \in DOMAIN sessions : Kept(sessions[u], sessions'[u])
  BY <1>6 DEF Kept, TypeOK, AuthorizationSession
<1>9. SessionsKept
  BY <1>3, <1>7, <1>8 DEF SessionsKept
<1>10. JobsKnown'
  BY <1>2, <1>3, <1>4, <1>9, GotoKnown DEF history
<1>11. TypeOK'
  <2>1. job' \in [Workers -> Job]
    BY <1>2, <1>3, GotoFacts DEF TypeOK
  <2> QED
    BY <1>3, <1>7, <2>1 DEF TypeOK, history
<1> QED
  BY <1>9, <1>10, <1>11

\* store_access_token adds a well-formed token.
LEMMA TokenStoreTypeOK ==
    ASSUME TypeOK, JobsKnown, NEW w \in Workers, TokenStore(w)
    PROVE  TypeOK' /\ JobsKnown' /\ SessionsKept
<1> DEFINE entry == [grant |-> job[w].grant,
                     expires_at |-> now + ACCESS_TOKEN_TTL * TicksPerSecond]
           from == [code |-> job[w].code, client |-> job[w].client, grant |-> job[w].grant,
                    by |-> w]
<1>1. PICK token \in Tokens \ DOMAIN origin :
        /\ access_tokens' = Put(access_tokens, token, entry)
        /\ origin' = Put(origin, token, from)
        /\ Goto(w, IF job[w].code \in Codes
                   THEN [at |-> "record", code |-> job[w].code, token |-> token]
                   ELSE IdleJob)
  BY DEF TokenStore
<1>2. job[w] \in StoreJob /\ KnownJob(job[w]) /\ job[w].at = "store"
  BY JobShape DEF TokenStore, TypeOK, JobsKnown
<1>3. UNCHANGED <<sessions, code_to_uri, pre_auth_codes, tokens_by_code, now, approver,
                  replayed, denied>>
  BY DEF TokenStore
<1>4. entry \in TokenEntry
  <2>1. ACCESS_TOKEN_TTL * TicksPerSecond \in Nat
    BY TimeAssumption
  <2>2. now + ACCESS_TOKEN_TTL * TicksPerSecond \in Nat
    BY <2>1 DEF TypeOK
  <2> QED
    BY <1>2, <2>2 DEF TokenEntry, StoreJob
<1>5. from \in Origin
  BY <1>2 DEF Origin, StoreJob
<1> HIDE DEF entry, from
<1>6. /\ DOMAIN origin' = DOMAIN origin \cup {token}
      /\ DOMAIN origin' \subseteq Tokens
      /\ origin' \in [DOMAIN origin' -> Origin]
  BY <1>1, <1>5 DEF TypeOK, Put
<1>7. /\ DOMAIN access_tokens' \subseteq DOMAIN origin'
      /\ access_tokens' \in [DOMAIN access_tokens' -> TokenEntry]
  BY <1>1, <1>4, <1>6 DEF TypeOK, Put
<1>8. tokens_by_code' \in [DOMAIN tokens_by_code' -> DOMAIN origin']
  BY <1>3, <1>6 DEF TypeOK
<1>9. SessionsKept
  BY <1>3 DEF SessionsKept, Kept
<1>10. PICK j \in Job : Goto(w, j) /\ KnownJob(j)'
  <2>1. CASE job[w].code \in Codes
    <3>1. PICK k \in Job : k = [at |-> "record", code |-> job[w].code, token |-> token]
      BY <2>1 DEF Job, RecordJob
    <3>2. Goto(w, k)
      BY <1>1, <2>1, <3>1
    <3>3. KnownJob(k)'
      BY <1>2, <1>3, <1>6, <2>1, <3>1 DEF KnownJob
    <3> QED
      BY <3>2, <3>3
  <2>2. CASE job[w].code \notin Codes
    BY <1>1, <2>2 DEF Job, IdleJob, KnownJob
  <2> QED
    BY <2>1, <2>2
<1>11. JobsKnown'
  BY <1>6, <1>9, <1>10, GotoKnown
<1>12. job' \in [Workers -> Job]
  BY <1>10, GotoFacts DEF TypeOK
<1>13. TypeOK'
  BY <1>3, <1>6, <1>7, <1>8, <1>12 DEF TypeOK
<1> QED
  BY <1>9, <1>11, <1>13

\* record_token_for_code indexes a token that exists.
LEMMA TokenRecordTypeOK ==
    ASSUME TypeOK, JobsKnown, NEW w \in Workers, TokenRecord(w)
    PROVE  TypeOK' /\ JobsKnown' /\ SessionsKept
<1>1. job[w].code \in DOMAIN code_to_uri /\ job[w].token \in DOMAIN origin
  BY DEF TokenRecord, JobsKnown, KnownJob
<1>2. /\ Goto(w, IdleJob)
      /\ tokens_by_code' = Put(tokens_by_code, job[w].code, job[w].token)
      /\ UNCHANGED <<sessions, code_to_uri, pre_auth_codes, access_tokens, now, history>>
  BY DEF TokenRecord
<1>3. /\ DOMAIN tokens_by_code' \subseteq DOMAIN code_to_uri'
      /\ tokens_by_code' \in [DOMAIN tokens_by_code' -> DOMAIN origin']
  BY <1>1, <1>2 DEF TypeOK, Put, history
<1>4. IdleJob \in Job /\ KnownJob(IdleJob)'
  BY DEF Job, IdleJob, KnownJob
<1>5. SessionsKept
  BY <1>2 DEF SessionsKept, Kept
<1>6. JobsKnown'
  BY <1>2, <1>4, <1>5, GotoKnown DEF history
<1>7. job' \in [Workers -> Job]
  BY <1>2, <1>4, GotoFacts DEF TypeOK
<1>8. TypeOK'
  BY <1>2, <1>3, <1>7 DEF TypeOK, history
<1> QED
  BY <1>5, <1>6, <1>8

\* revoke_tokens_for_code takes out a token that exists.
LEMMA RevokeTakeTypeOK ==
    ASSUME TypeOK, JobsKnown, NEW w \in Workers, RevokeTake(w)
    PROVE  TypeOK' /\ JobsKnown' /\ SessionsKept
<1>1. job[w] \in RevokeJob /\ job[w].code \in DOMAIN code_to_uri /\ job[w].code \in Codes
  BY JobShape DEF RevokeTake, TypeOK, JobsKnown, KnownJob, RevokeJob
<1>2. /\ tokens_by_code' = Drop(tokens_by_code, job[w].code)
      /\ UNCHANGED <<sessions, code_to_uri, pre_auth_codes, access_tokens, now, origin, approver, denied>>
  BY DEF RevokeTake
<1>3. replayed' \subseteq DOMAIN code_to_uri'
  BY <1>1, <1>2 DEF RevokeTake, TypeOK
<1>4. /\ DOMAIN tokens_by_code' \subseteq DOMAIN code_to_uri'
      /\ tokens_by_code' \in [DOMAIN tokens_by_code' -> DOMAIN origin']
  BY <1>2 DEF TypeOK, Drop
<1>5. PICK j \in Job : Goto(w, j) /\ KnownJob(j)'
  <2>1. CASE job[w].code \in DOMAIN tokens_by_code
    <3>1. tokens_by_code[job[w].code] \in DOMAIN origin /\ DOMAIN origin \subseteq Tokens
      BY <2>1 DEF TypeOK
    <3>2. PICK k \in Job : k = [at |-> "drop", code |-> job[w].code,
                               token |-> tokens_by_code[job[w].code]]
      BY <1>1, <3>1 DEF Job, DropJob
    <3>3. Goto(w, k) /\ KnownJob(k)'
      BY <1>1, <1>2, <2>1, <3>1, <3>2 DEF RevokeTake, KnownJob
    <3> QED
      BY <3>3
  <2>2. CASE job[w].code \notin DOMAIN tokens_by_code
    BY <2>2 DEF RevokeTake, Job, IdleJob, KnownJob
  <2> QED
    BY <2>1, <2>2
<1>6. SessionsKept
  BY <1>2 DEF SessionsKept, Kept
<1>7. JobsKnown'
  BY <1>2, <1>5, <1>6, GotoKnown
<1>8. job' \in [Workers -> Job]
  BY <1>5, GotoFacts DEF TypeOK
<1>9. TypeOK'
  BY <1>2, <1>3, <1>4, <1>8 DEF TypeOK
<1> QED
  BY <1>6, <1>7, <1>9

\* Removing the revoked token keeps the store well formed.
LEMMA RevokeDropTypeOK ==
    ASSUME TypeOK, JobsKnown, NEW w \in Workers, RevokeDrop(w)
    PROVE  TypeOK' /\ JobsKnown' /\ SessionsKept
<1>1. job[w].code \in DOMAIN code_to_uri
  BY DEF RevokeDrop, JobsKnown, KnownJob
<1>2. /\ access_tokens' = Drop(access_tokens, job[w].token)
      /\ replayed' = replayed \cup {job[w].code}
      /\ Goto(w, IdleJob)
      /\ UNCHANGED <<sessions, code_to_uri, pre_auth_codes, tokens_by_code, now, origin, approver, denied>>
  BY DEF RevokeDrop
<1>3. /\ DOMAIN access_tokens' \subseteq DOMAIN origin'
      /\ access_tokens' \in [DOMAIN access_tokens' -> TokenEntry]
  BY <1>2 DEF TypeOK, Drop
<1>4. IdleJob \in Job /\ KnownJob(IdleJob)'
  BY DEF Job, IdleJob, KnownJob
<1>5. SessionsKept
  BY <1>2 DEF SessionsKept, Kept
<1>6. JobsKnown'
  BY <1>2, <1>4, <1>5, GotoKnown
<1>7. job' \in [Workers -> Job]
  BY <1>2, <1>4, GotoFacts DEF TypeOK
<1>8. TypeOK'
  BY <1>1, <1>2, <1>3, <1>7 DEF TypeOK
<1> QED
  BY <1>5, <1>6, <1>8

\* redeem_pre_authorized_code keeps its entry well formed.
LEMMA RedeemTypeOK ==
    ASSUME TypeOK, JobsKnown, NEW w \in Workers, NEW r \in TokenRequests,
           NEW code \in PreAuthCodes, RedeemPreAuthorizedCode(w, r, code)
    PROVE  TypeOK' /\ JobsKnown' /\ SessionsKept
<1> DEFINE grant == [configs |-> pre_auth_codes[code].configs, by_identifier |-> FALSE,
                     dpop_jkt |-> r.dpop_jkt]
<1>1. code \in DOMAIN pre_auth_codes /\ pre_auth_codes[code] \in PreAuthEntry
  BY DEF RedeemPreAuthorizedCode, Redeemable, TypeOK
<1>2. grant \in Grant
  BY <1>1, RequestAssumption DEF Grant, PreAuthEntry, Option
<1>3. PICK j \in Job : j = [at |-> "store", code |-> code, client |-> r.authenticated_client,
                           grant |-> grant]
  BY <1>2, RequestAssumption DEF Job, StoreJob, Option
<1>4. /\ Goto(w, j)
      /\ pre_auth_codes' = [pre_auth_codes EXCEPT ![code].consumed = TRUE]
      /\ UNCHANGED <<sessions, code_to_uri, access_tokens, tokens_by_code, now, history>>
  BY <1>3 DEF RedeemPreAuthorizedCode
<1>5. KnownJob(j)'
  BY <1>3, CodesAssumption DEF KnownJob
<1>6. /\ DOMAIN pre_auth_codes' = DOMAIN pre_auth_codes
      /\ pre_auth_codes' \in [DOMAIN pre_auth_codes' -> PreAuthEntry]
  BY <1>1, <1>4 DEF TypeOK, PreAuthEntry
<1>7. SessionsKept
  BY <1>4 DEF SessionsKept, Kept
<1>8. JobsKnown'
  BY <1>4, <1>5, <1>7, GotoKnown DEF history
<1>9. job' \in [Workers -> Job]
  BY <1>4, GotoFacts DEF TypeOK
<1>10. TypeOK'
  BY <1>4, <1>6, <1>9 DEF TypeOK, history
<1> QED
  BY <1>7, <1>8, <1>10

\* get_access_grant removing an expired token keeps the store well formed.
LEMMA ExpireTypeOK ==
    ASSUME TypeOK, JobsKnown, NEW token \in Tokens, ExpireAccessToken(token)
    PROVE  TypeOK' /\ JobsKnown' /\ SessionsKept
<1>1. /\ access_tokens' = Drop(access_tokens, token)
      /\ UNCHANGED <<sessions, code_to_uri, pre_auth_codes, tokens_by_code, job, now, history>>
  BY DEF ExpireAccessToken
<1>2. /\ DOMAIN access_tokens' \subseteq DOMAIN origin'
      /\ access_tokens' \in [DOMAIN access_tokens' -> TokenEntry]
  BY <1>1 DEF TypeOK, Drop, history
<1> QED
  BY <1>1, <1>2 DEF TypeOK, JobsKnown, KnownJob, SessionsKept, Kept, history

\* The type invariant and JobsKnown are preserved by every step, and no step takes
\* anything from a session but what Kept allows.
LEMMA StepTypeOK ==
    ASSUME TypeOK, JobsKnown, [Next]_vars
    PROVE  TypeOK' /\ JobsKnown' /\ SessionsKept
<1>1. ASSUME NEW r \in ParRequests, Par(r) PROVE TypeOK' /\ JobsKnown' /\ SessionsKept
  BY <1>1, ParTypeOK
<1>2. ASSUME NEW o \in Offers, CredentialOffer(o) PROVE TypeOK' /\ JobsKnown' /\ SessionsKept
  BY <1>2, CredentialOfferTypeOK
<1>3. ASSUME NEW w \in Workers, Handler(w) PROVE TypeOK' /\ JobsKnown' /\ SessionsKept
  BY <1>3, DecisionApproveTypeOK, DecisionDenyTypeOK, TokenAcceptTypeOK, TokenRejectTypeOK,
     TokenConsumeTypeOK, TokenStoreTypeOK, TokenRecordTypeOK, RevokeTakeTypeOK, RevokeDropTypeOK
  DEF Handler
<1>4. ASSUME NEW w \in Workers, NEW uri \in Uris, NEW client \in Clients,
             DecisionResolve(w, uri, client)
      PROVE  TypeOK' /\ JobsKnown' /\ SessionsKept
  BY <1>4, DecisionResolveTypeOK
<1>5. ASSUME NEW w \in Workers, NEW r \in TokenRequests, NEW code \in Codes,
             TokenLookup(w, r, code)
      PROVE  TypeOK' /\ JobsKnown' /\ SessionsKept
  BY <1>5, TokenLookupTypeOK
<1>6. ASSUME NEW w \in Workers, NEW r \in TokenRequests, NEW code \in PreAuthCodes,
             RedeemPreAuthorizedCode(w, r, code)
      PROVE  TypeOK' /\ JobsKnown' /\ SessionsKept
  BY <1>6, RedeemTypeOK
<1>7. ASSUME NEW token \in Tokens, ExpireAccessToken(token)
      PROVE  TypeOK' /\ JobsKnown' /\ SessionsKept
  BY <1>7, ExpireTypeOK
<1>8. CASE Tick
  BY <1>8 DEF Tick, TypeOK, JobsKnown, KnownJob, SessionsKept, Kept, store, history
<1>9. CASE UNCHANGED vars
  BY <1>9 DEF vars, TypeOK, JobsKnown, KnownJob, SessionsKept, Kept, store, history
<1> QED
  BY <1>1, <1>2, <1>3, <1>4, <1>5, <1>6, <1>7, <1>8, <1>9 DEF Next

\* Every map of the store keeps its shape, and what one map points at is in the
\* other (state.rs): the lookups that follow a code to its session cannot miss.
THEOREM TypeCorrect == Spec => [](TypeOK /\ JobsKnown)
<1>1. Init => TypeOK /\ JobsKnown
  BY DEF Init, TypeOK, JobsKnown, KnownJob, EmptyMap, Job, IdleJob
<1>2. TypeOK /\ JobsKnown /\ [Next]_vars => (TypeOK /\ JobsKnown)'
  BY StepTypeOK
<1> QED
  BY <1>1, <1>2, PTL DEF Spec

-------------------------------------------------------------------------------
\* What a token obtained with a code is bound to.

\* The client and grant a handler is about to use, or has used, are the ones of
\* the session behind the code.
Owed(code, client, grant) ==
    LET session == sessions[code_to_uri[code]]
    IN  /\ client = session.client_id
        /\ grant.configs = session.configs
        /\ grant.dpop_jkt # NONE
        /\ session.dpop_jkt \in {NONE, grant.dpop_jkt}

\* The handler's snapshot still agrees with the store in what matters, its grant
\* is owed, and once it is about to mint, the session is consumed.
MatchingJob(j) ==
    /\ j.at = "check" =>
          /\ j.session.client_id = sessions[code_to_uri[j.code]].client_id
          /\ j.session.configs = sessions[code_to_uri[j.code]].configs
          /\ j.session.dpop_jkt = sessions[code_to_uri[j.code]].dpop_jkt
    /\ j.at = "consume" => Owed(j.code, j.client, j.grant)
    /\ j.at = "store" /\ j.code \in Codes =>
          Owed(j.code, j.client, j.grant) /\ sessions[code_to_uri[j.code]].consumed

JobsMatch == \A w \in Workers : MatchingJob(job[w])

\* Every token from a code is owed and its session consumed.
TokensMatch ==
    \A t \in DOMAIN origin : FromCode(t) =>
        /\ origin[t].code \in DOMAIN code_to_uri
        /\ Owed(origin[t].code, origin[t].client, origin[t].grant)
        /\ SessionOf(t).consumed

\* What Kept preserves is all that Owed depends on.
LEMMA OwedKept ==
    ASSUME TypeOK, SessionsKept, NEW code \in DOMAIN code_to_uri, NEW client, NEW grant,
           Owed(code, client, grant)
    PROVE  Owed(code, client, grant)'
BY DEF TypeOK, SessionsKept, Kept, Owed

\* A session that is consumed stays so.
LEMMA ConsumedKept ==
    ASSUME TypeOK, SessionsKept, NEW code \in DOMAIN code_to_uri,
           sessions[code_to_uri[code]].consumed
    PROVE  sessions'[code_to_uri'[code]].consumed
BY DEF TypeOK, SessionsKept, Kept

\* Another handler's match survives whatever Kept allows.
LEMMA MatchingJobKept ==
    ASSUME TypeOK, SessionsKept, NEW j \in Job, KnownJob(j), MatchingJob(j)
    PROVE  MatchingJob(j)'
<1>1. CASE j.at = "check"
  <2>1. j.code \in DOMAIN code_to_uri
    BY <1>1 DEF KnownJob
  <2> QED
    BY <1>1, <2>1 DEF TypeOK, SessionsKept, Kept, MatchingJob
<1>2. CASE j.at = "consume"
  BY <1>2, OwedKept DEF MatchingJob, KnownJob
<1>3. CASE j.at = "store"
  BY <1>3, OwedKept, ConsumedKept DEF MatchingJob, KnownJob
<1>4. CASE j.at \notin {"check", "consume", "store"}
  BY <1>4 DEF MatchingJob
<1> QED
  BY <1>1, <1>2, <1>3, <1>4

\* A step that moves one worker on keeps every other handler matching.
LEMMA GotoMatch ==
    ASSUME TypeOK, JobsKnown, JobsMatch, SessionsKept, NEW w \in Workers, NEW j \in Job,
           Goto(w, j), MatchingJob(j)'
    PROVE  JobsMatch'
<1>1. job'[w] = j /\ \A v \in Workers \ {w} : job'[v] = job[v]
  BY GotoFacts DEF TypeOK
<1>2. ASSUME NEW v \in Workers \ {w} PROVE MatchingJob(job[v])'
  <2>1. PICK k \in Job : k = job[v] /\ k = job'[v]
    BY <1>1 DEF TypeOK
  <2>2. MatchingJob(k)'
    BY <2>1, MatchingJobKept DEF JobsKnown, JobsMatch
  <2> QED
    BY <2>1, <2>2
<1>3. MatchingJob(job[w])'
  BY <1>1
<1> QED
  BY <1>2, <1>3 DEF JobsMatch

\* A step that leaves every job as it is keeps every handler matching.
LEMMA SameJobsMatch ==
    ASSUME TypeOK, JobsKnown, JobsMatch, SessionsKept, UNCHANGED job
    PROVE  JobsMatch'
<1> SUFFICES ASSUME NEW v \in Workers PROVE MatchingJob(job[v])'
  BY DEF JobsMatch
<1>1. PICK k \in Job : k = job[v] /\ k = job'[v]
  BY DEF TypeOK
<1>2. MatchingJob(k)'
  BY <1>1, MatchingJobKept DEF JobsKnown, JobsMatch
<1> QED
  BY <1>1, <1>2

\* The tokens already in existence stay matched, whatever happens to the sessions.
LEMMA OldTokenMatches ==
    ASSUME TypeOK, TokensMatch, SessionsKept,
           NEW t \in DOMAIN origin, t \in DOMAIN origin', origin'[t] = origin[t],
           FromCode(t)
    PROVE  /\ origin'[t].code \in DOMAIN code_to_uri'
           /\ Owed(origin[t].code, origin[t].client, origin[t].grant)'
           /\ SessionOf(t)'.consumed
<1>1. PICK code, client, grant :
        /\ code = origin[t].code /\ client = origin[t].client /\ grant = origin[t].grant
        /\ code = origin'[t].code /\ client = origin'[t].client /\ grant = origin'[t].grant
  OBVIOUS
<1>2. code \in DOMAIN code_to_uri /\ Owed(code, client, grant)
      /\ sessions[code_to_uri[code]].consumed
  BY <1>1 DEF TokensMatch, SessionOf
<1>3. Owed(code, client, grant)' /\ sessions'[code_to_uri'[code]].consumed
  BY <1>2, OwedKept, ConsumedKept
<1>4. code \in DOMAIN code_to_uri'
  BY <1>2 DEF SessionsKept
<1> QED
  BY <1>1, <1>3, <1>4 DEF SessionOf

\* A step that leaves the tokens alone keeps them matched.
LEMMA SameTokensMatch ==
    ASSUME TypeOK, TokensMatch, SessionsKept, UNCHANGED origin
    PROVE  TokensMatch'
BY OldTokenMatches DEF TokensMatch, FromCode

\* The lookup takes the snapshot.
LEMMA TokenLookupMatch ==
    ASSUME TypeOK, JobsKnown, JobsMatch, SessionsKept, NEW w \in Workers,
           NEW r \in TokenRequests, NEW code \in Codes, TokenLookup(w, r, code)
    PROVE  JobsMatch'
<1> DEFINE session == sessions[code_to_uri[code]]
<1>1. session \in AuthorizationSession /\ UNCHANGED <<sessions, code_to_uri>>
  BY DEF TokenLookup, TypeOK, store
<1>2. CASE session.consumed
  <2>1. PICK j \in Job : j = [at |-> "revoke", code |-> code]
    BY DEF Job, RevokeJob
  <2>2. Goto(w, j) /\ MatchingJob(j)'
    BY <1>2, <2>1 DEF TokenLookup, MatchingJob
  <2> QED
    BY <2>2, GotoMatch
<1>3. CASE ~session.consumed
  <2>1. [at |-> "check", code |-> code, request |-> r, session |-> session] \in CheckJob
    BY <1>1 DEF CheckJob
  <2>2. PICK j \in Job : j = [at |-> "check", code |-> code, request |-> r, session |-> session]
    BY <2>1 DEF Job
  <2>3. Goto(w, j)
    BY <1>3, <2>2 DEF TokenLookup
  <2>4. MatchingJob(j)'
    BY <1>1, <2>2 DEF MatchingJob
  <2> QED
    BY <2>3, <2>4, GotoMatch
<1> QED
  BY <1>2, <1>3

\* The checks against the snapshot are what makes the grant owed.
LEMMA TokenAcceptMatch ==
    ASSUME TypeOK, JobsKnown, JobsMatch, SessionsKept, NEW w \in Workers, TokenAccept(w),
           JobsKnown', TypeOK'
    PROVE  JobsMatch'
<1>1. job[w] \in CheckJob /\ job[w].code \in DOMAIN code_to_uri /\ job[w].at = "check"
  BY JobShape DEF TokenAccept, TypeOK, JobsKnown, KnownJob
<1>2. MatchingJob(job[w])
  BY DEF JobsMatch
<1>3. PICK j \in Job :
        /\ Goto(w, j)
        /\ j = [at |-> "consume", code |-> job[w].code,
                client |-> job[w].request.authenticated_client,
                grant |-> [configs |-> job[w].session.configs,
                           by_identifier |-> job[w].session.via_authorization_details,
                           dpop_jkt |-> job[w].request.dpop_jkt]]
  <2>1. job'[w] \in Job
    BY DEF TypeOK
  <2> QED
    BY <2>1 DEF TokenAccept, Goto, TypeOK
<1>4. Owed(j.code, j.client, j.grant)
  BY <1>1, <1>2, <1>3 DEF TokenAccept, CodeAccepted, DpopKeyAccepted, MatchingJob, Owed
<1>5. MatchingJob(j)'
  BY <1>3, <1>4 DEF MatchingJob, Owed, TokenAccept, store
<1> QED
  BY <1>3, <1>5, GotoMatch

\* The code is consumed before the token exists.
LEMMA TokenConsumeMatch ==
    ASSUME TypeOK, JobsKnown, JobsMatch, SessionsKept, NEW w \in Workers, TokenConsume(w)
    PROVE  JobsMatch'
<1>1. job[w] \in ConsumeJob /\ job[w].code \in DOMAIN code_to_uri /\ job[w].at = "consume"
  BY JobShape DEF TokenConsume, TypeOK, JobsKnown, KnownJob
<1>2. PICK j \in Job : j = [at |-> "store", code |-> job[w].code, client |-> job[w].client,
                           grant |-> job[w].grant]
  BY <1>1 DEF Job, StoreJob, ConsumeJob, Option
<1>3. Goto(w, j)
  BY <1>2 DEF TokenConsume
<1>4. Owed(j.code, j.client, j.grant)'
  <2>1. Owed(j.code, j.client, j.grant) /\ j.code \in DOMAIN code_to_uri
    BY <1>1, <1>2 DEF JobsMatch, MatchingJob
  <2> QED
    BY <2>1, OwedKept
<1>5. sessions'[code_to_uri'[j.code]].consumed
  <2>1. /\ sessions[code_to_uri[j.code]] \in AuthorizationSession
        /\ code_to_uri[j.code] \in DOMAIN sessions
    BY <1>1, <1>2 DEF TypeOK
  <2> QED
    BY <1>2, <2>1 DEF TokenConsume, ConsumeAuthorizationCode, AuthorizationSession
<1>6. MatchingJob(j)'
  BY <1>2, <1>4, <1>5 DEF MatchingJob
<1> QED
  BY <1>3, <1>6, GotoMatch

\* The new token gets the grant its handler was owed.
LEMMA TokenStoreMatch ==
    ASSUME TypeOK, JobsKnown, JobsMatch, TokensMatch, SessionsKept, TypeOK',
           NEW w \in Workers, TokenStore(w)
    PROVE  JobsMatch' /\ TokensMatch'
<1>1. job[w] \in StoreJob /\ job[w].at = "store" /\ KnownJob(job[w]) /\ MatchingJob(job[w])
  BY JobShape DEF TokenStore, TypeOK, JobsKnown, JobsMatch
<1>2. UNCHANGED <<sessions, code_to_uri>>
  BY DEF TokenStore
<1>3. PICK token \in Tokens \ DOMAIN origin :
        /\ origin' = Put(origin, token, [code |-> job[w].code, client |-> job[w].client,
                                         grant |-> job[w].grant, by |-> w])
        /\ Goto(w, IF job[w].code \in Codes
                   THEN [at |-> "record", code |-> job[w].code, token |-> token]
                   ELSE IdleJob)
  BY DEF TokenStore
<1>4. JobsMatch'
  <2>1. PICK j \in Job : Goto(w, j) /\ j.at \in {"record", "idle"}
    BY <1>3 DEF Job, RecordJob, IdleJob
  <2>2. MatchingJob(j)'
    BY <2>1 DEF MatchingJob
  <2> QED
    BY <2>1, <2>2, GotoMatch
<1>5. ASSUME NEW t \in DOMAIN origin', FromCode(t)'
      PROVE  /\ origin'[t].code \in DOMAIN code_to_uri'
             /\ Owed(origin[t].code, origin[t].client, origin[t].grant)'
             /\ SessionOf(t)'.consumed
  <2>1. CASE t = token
    <3>1. /\ origin'[t].code = job[w].code
          /\ origin'[t].client = job[w].client
          /\ origin'[t].grant = job[w].grant
      BY <1>3, <2>1 DEF Put
    <3>2. job[w].code \in Codes
      BY <1>5, <3>1 DEF FromCode
    <3>3. /\ job[w].code \in DOMAIN code_to_uri
          /\ Owed(job[w].code, job[w].client, job[w].grant)
          /\ sessions[code_to_uri[job[w].code]].consumed
      BY <1>1, <3>2 DEF KnownJob, MatchingJob
    <3> QED
      BY <1>2, <3>1, <3>3 DEF Owed, SessionOf
  <2>2. CASE t # token
    <3>1. t \in DOMAIN origin /\ origin'[t] = origin[t]
      BY <1>3, <2>2 DEF Put
    <3>2. FromCode(t)
      BY <1>5, <3>1 DEF FromCode
    <3> QED
      BY <3>1, <3>2, OldTokenMatches
  <2> QED
    BY <2>1, <2>2
<1>6. TokensMatch'
  BY <1>5 DEF TokensMatch
<1> QED
  BY <1>4, <1>6

\* The remaining steps of a handler lead nowhere that a match is required.
LEMMA OtherHandlerMatch ==
    ASSUME TypeOK, JobsKnown, JobsMatch, SessionsKept, TypeOK', NEW w \in Workers,
           \/ DecisionApprove(w) \/ DecisionDeny(w) \/ TokenReject(w) \/ TokenRecord(w)
           \/ RevokeTake(w) \/ RevokeDrop(w)
    PROVE  JobsMatch' /\ UNCHANGED origin
<1>1. PICK j : Goto(w, j) /\ j.at \in {"idle", "drop"}
  BY DEF DecisionApprove, DecisionDeny, TokenReject, TokenRecord, RevokeTake, RevokeDrop, IdleJob
<1>2. j \in Job
  <2>1. job'[w] = j
    BY <1>1 DEF Goto, TypeOK
  <2> QED
    BY <2>1 DEF TypeOK
<1>3. MatchingJob(j)'
  BY <1>1 DEF MatchingJob
<1>4. JobsMatch'
  BY <1>1, <1>2, <1>3, GotoMatch
<1>5. UNCHANGED origin
  BY DEF DecisionApprove, DecisionDeny, TokenReject, TokenRecord, RevokeTake, RevokeDrop, history
<1> QED
  BY <1>4, <1>5

\* Every step keeps every handler and every token matched.
LEMMA StepMatch ==
    ASSUME TypeOK, JobsKnown, JobsMatch, TokensMatch, [Next]_vars
    PROVE  JobsMatch' /\ TokensMatch'
<1>0. TypeOK' /\ JobsKnown' /\ SessionsKept
  BY StepTypeOK
<1>1. ASSUME NEW r \in ParRequests, Par(r) PROVE JobsMatch' /\ TokensMatch'
  BY <1>0, <1>1, SameJobsMatch, SameTokensMatch DEF Par, history
<1>2. ASSUME NEW o \in Offers, CredentialOffer(o) PROVE JobsMatch' /\ TokensMatch'
  BY <1>0, <1>2, SameJobsMatch, SameTokensMatch DEF CredentialOffer, history
<1>3. ASSUME NEW w \in Workers, Handler(w) PROVE JobsMatch' /\ TokensMatch'
  <2>1. CASE TokenAccept(w)
    BY <1>0, <2>1, TokenAcceptMatch, SameTokensMatch DEF TokenAccept, history
  <2>2. CASE TokenConsume(w)
    BY <1>0, <2>2, TokenConsumeMatch, SameTokensMatch DEF TokenConsume, history
  <2>3. CASE TokenStore(w)
    BY <1>0, <2>3, TokenStoreMatch
  <2>4. CASE \/ DecisionApprove(w) \/ DecisionDeny(w) \/ TokenReject(w) \/ TokenRecord(w)
             \/ RevokeTake(w) \/ RevokeDrop(w)
    BY <1>0, <2>4, OtherHandlerMatch, SameTokensMatch
  <2> QED
    BY <1>3, <2>1, <2>2, <2>3, <2>4 DEF Handler
<1>4. ASSUME NEW w \in Workers, NEW uri \in Uris, NEW client \in Clients,
             DecisionResolve(w, uri, client)
      PROVE  JobsMatch' /\ TokensMatch'
  <2>1. PICK j \in Job : j = [at |-> "decide", uri |-> uri]
    BY DEF Job, DecideJob
  <2>2. Goto(w, j) /\ MatchingJob(j)' /\ UNCHANGED origin
    BY <1>4, <2>1 DEF DecisionResolve, MatchingJob, history
  <2> QED
    BY <1>0, <2>2, GotoMatch, SameTokensMatch
<1>5. ASSUME NEW w \in Workers, NEW r \in TokenRequests, NEW code \in Codes,
             TokenLookup(w, r, code)
      PROVE  JobsMatch' /\ TokensMatch'
  BY <1>0, <1>5, TokenLookupMatch, SameTokensMatch DEF TokenLookup, history
<1>6. ASSUME NEW w \in Workers, NEW r \in TokenRequests, NEW code \in PreAuthCodes,
             RedeemPreAuthorizedCode(w, r, code)
      PROVE  JobsMatch' /\ TokensMatch'
  <2>1. PICK j : Goto(w, j) /\ j.at = "store" /\ j.code = code
    BY <1>6 DEF RedeemPreAuthorizedCode
  <2>2. j \in Job
    <3>1. job'[w] = j
      BY <2>1 DEF Goto, TypeOK
    <3> QED
      BY <1>0, <3>1 DEF TypeOK
  <2>3. MatchingJob(j)'
    BY <2>1, CodesAssumption DEF MatchingJob
  <2> QED
    BY <1>0, <1>6, <2>1, <2>2, <2>3, GotoMatch, SameTokensMatch
    DEF RedeemPreAuthorizedCode, history
<1>7. ASSUME NEW token \in Tokens, ExpireAccessToken(token) PROVE JobsMatch' /\ TokensMatch'
  BY <1>0, <1>7, SameJobsMatch, SameTokensMatch DEF ExpireAccessToken, history
<1>8. CASE Tick
  BY <1>0, <1>8, SameJobsMatch, SameTokensMatch DEF Tick, history
<1>9. CASE UNCHANGED vars
  BY <1>0, <1>9, SameJobsMatch, SameTokensMatch DEF vars, history
<1> QED
  BY <1>1, <1>2, <1>3, <1>4, <1>5, <1>6, <1>7, <1>8, <1>9 DEF Next

LEMMA MatchInvariant == Spec => [](JobsMatch /\ TokensMatch)
<1>1. Init => JobsMatch /\ TokensMatch
  BY DEF Init, JobsMatch, MatchingJob, IdleJob, TokensMatch, EmptyMap
<1>2. TypeOK /\ JobsKnown /\ JobsMatch /\ TokensMatch /\ [Next]_vars
        => (JobsMatch /\ TokensMatch)'
  BY StepMatch
<1> QED
  BY <1>1, <1>2, TypeCorrect, PTL DEF Spec

\* Whatever other requests do between the lookup of a code and the storing of its
\* token, the token goes to the client that pushed the request, for what the user
\* approved, bound to the right DPoP key, and its session is consumed by then
\* (token.rs, process_authorization_code_grant).
THEOREM TokensAreOwed == Spec => [](TokenMatchesSession /\ MintedMeansConsumed)
<1>1. TokensMatch => TokenMatchesSession /\ MintedMeansConsumed
  BY DEF TokensMatch, TokenMatchesSession, MintedMeansConsumed, Owed, SessionOf
<1> QED
  BY <1>1, MatchInvariant, PTL

\* No token is minted with a code whose session can still be redeemed: the code is
\* consumed before the token exists (token.rs, process_authorization_code_grant).
THEOREM MintedTokensAreConsumed == Spec => []MintedMeansConsumed
BY TokensAreOwed, PTL

-------------------------------------------------------------------------------
\* Single use of pre-authorized codes.

Spent(code) == code \in DOMAIN pre_auth_codes /\ pre_auth_codes[code].consumed

\* Worker w is about to mint a token for the pre-authorized code c.
Minting(w, c) == job[w].at = "store" /\ job[w].code = c

\* A pre-authorized code with a token, or a handler about to mint one, is spent;
\* such a handler is the only one, and there is no token yet.
PreAuthInv ==
    \A c \in PreAuthCodes :
        /\ \A w \in Workers : Minting(w, c) =>
              /\ Spent(c)
              /\ \A v \in Workers : Minting(v, c) => v = w
              /\ \A t \in DOMAIN origin : origin[t].code # c
        /\ \A t \in DOMAIN origin : origin[t].code = c =>
              /\ Spent(c)
              /\ \A u \in DOMAIN origin : origin[u].code = c => u = t

\* A spent code stays spent.
SpentKept == \A c \in PreAuthCodes : Spent(c) => Spent(c)'

\* A step that mints nothing and starts no minting.
LEMMA NoMintingInv ==
    ASSUME PreAuthInv, SpentKept, UNCHANGED origin,
           \A w \in Workers, c \in PreAuthCodes : Minting(w, c)' => Minting(w, c)
    PROVE  PreAuthInv'
BY DEF PreAuthInv, SpentKept

\* Redeeming tests and sets `consumed` in one step.
LEMMA RedeemInv ==
    ASSUME TypeOK, PreAuthInv, NEW w \in Workers, NEW r \in TokenRequests,
           NEW code \in PreAuthCodes, RedeemPreAuthorizedCode(w, r, code)
    PROVE  PreAuthInv'
<1>1. ~Spent(code)
  BY DEF RedeemPreAuthorizedCode, Redeemable, Spent
<1>2. UNCHANGED origin
  BY DEF RedeemPreAuthorizedCode, history
<1>3. SpentKept /\ Spent(code)'
  BY DEF RedeemPreAuthorizedCode, Redeemable, SpentKept, Spent, TypeOK, PreAuthEntry
<1>4. \A v \in Workers, c \in PreAuthCodes : Minting(v, c)' <=> Minting(v, c) \/ (v = w /\ c = code)
  BY DEF RedeemPreAuthorizedCode, Goto, Minting, TypeOK
<1>5. ASSUME NEW c \in PreAuthCodes
      PROVE  /\ \A v \in Workers : Minting(v, c)' =>
                   /\ Spent(c)'
                   /\ \A x \in Workers : Minting(x, c)' => x = v
                   /\ \A t \in DOMAIN origin' : origin'[t].code # c
             /\ \A t \in DOMAIN origin' : origin'[t].code = c =>
                   /\ Spent(c)'
                   /\ \A u \in DOMAIN origin' : origin'[u].code = c => u = t
  <2>1. CASE c = code
    BY <1>1, <1>2, <1>3, <1>4, <2>1 DEF PreAuthInv
  <2>2. CASE c # code
    BY <1>2, <1>3, <1>4, <2>2 DEF PreAuthInv, SpentKept
  <2> QED
    BY <2>1, <2>2
<1> QED
  BY <1>5 DEF PreAuthInv

\* Minting turns the one handler into the one token.
LEMMA TokenStoreInv ==
    ASSUME TypeOK, PreAuthInv, NEW w \in Workers, TokenStore(w)
    PROVE  PreAuthInv'
<1>1. PICK token \in Tokens \ DOMAIN origin :
        /\ origin' = Put(origin, token, [code |-> job[w].code, client |-> job[w].client,
                                         grant |-> job[w].grant, by |-> w])
        /\ Goto(w, IF job[w].code \in Codes
                   THEN [at |-> "record", code |-> job[w].code, token |-> token]
                   ELSE IdleJob)
  BY DEF TokenStore
<1>2. job[w].at = "store" /\ UNCHANGED pre_auth_codes
  BY DEF TokenStore
<1>3. /\ DOMAIN origin' = DOMAIN origin \cup {token}
      /\ origin'[token].code = job[w].code
      /\ \A t \in DOMAIN origin : origin'[t] = origin[t]
  BY <1>1 DEF Put
<1>4. \A v \in Workers, c \in PreAuthCodes : Minting(v, c)' => Minting(v, c) /\ v # w
  BY <1>1 DEF Goto, Minting, TypeOK, IdleJob
<1>5. ASSUME NEW c \in PreAuthCodes
      PROVE  /\ \A v \in Workers : Minting(v, c)' =>
                   /\ Spent(c)'
                   /\ \A x \in Workers : Minting(x, c)' => x = v
                   /\ \A t \in DOMAIN origin' : origin'[t].code # c
             /\ \A t \in DOMAIN origin' : origin'[t].code = c =>
                   /\ Spent(c)'
                   /\ \A u \in DOMAIN origin' : origin'[u].code = c => u = t
  <2>1. Spent(c)' <=> Spent(c)
    BY <1>2 DEF Spent
  <2>2. CASE job[w].code = c
    <3>1. Minting(w, c)
      BY <1>2, <2>2 DEF Minting
    <3> QED
      BY <1>3, <1>4, <2>1, <2>2, <3>1 DEF PreAuthInv
  <2>3. CASE job[w].code # c
    BY <1>3, <1>4, <2>1, <2>3 DEF PreAuthInv
  <2> QED
    BY <2>2, <2>3
<1> QED
  BY <1>5 DEF PreAuthInv

\* The other steps of a handler neither start minting for a pre-authorized code
\* nor touch one.
LEMMA OtherHandlerInv ==
    ASSUME TypeOK, JobsKnown, PreAuthInv, NEW w \in Workers,
           \/ DecisionApprove(w) \/ DecisionDeny(w) \/ TokenAccept(w) \/ TokenReject(w)
           \/ TokenConsume(w) \/ TokenRecord(w) \/ RevokeTake(w) \/ RevokeDrop(w)
    PROVE  PreAuthInv'
<1>1. UNCHANGED <<origin, pre_auth_codes>>
  BY DEF DecisionApprove, DecisionDeny, TokenAccept, TokenReject, TokenConsume, TokenRecord,
         RevokeTake, RevokeDrop, store, history
<1>2. SpentKept
  BY <1>1 DEF SpentKept, Spent
<1>3. PICK j : Goto(w, j) /\ (j.at = "store" => j.code \in Codes)
  <2>1. CASE TokenConsume(w)
    <3>1. job[w].code \in Codes
      BY <2>1 DEF TokenConsume, JobsKnown, KnownJob, TypeOK
    <3> QED
      BY <2>1, <3>1 DEF TokenConsume
  <2>2. CASE TokenAccept(w)
    BY <2>2 DEF TokenAccept
  <2>3. CASE \/ DecisionApprove(w) \/ DecisionDeny(w) \/ TokenReject(w) \/ TokenRecord(w)
             \/ RevokeTake(w) \/ RevokeDrop(w)
    BY <2>3 DEF DecisionApprove, DecisionDeny, TokenReject, TokenRecord, RevokeTake, RevokeDrop,
                IdleJob
  <2> QED
    BY <2>1, <2>2, <2>3
<1>4. \A v \in Workers, c \in PreAuthCodes : Minting(v, c)' => Minting(v, c)
  BY <1>3, CodesAssumption DEF Goto, Minting, TypeOK
<1> QED
  BY <1>1, <1>2, <1>4, NoMintingInv

\* Every step keeps PreAuthInv.
LEMMA StepPreAuth ==
    ASSUME TypeOK, JobsKnown, PreAuthInv, [Next]_vars
    PROVE  PreAuthInv'
<1>1. ASSUME NEW r \in ParRequests, Par(r) PROVE PreAuthInv'
  BY <1>1, NoMintingInv DEF Par, SpentKept, Spent, Minting, history
<1>2. ASSUME NEW o \in Offers, CredentialOffer(o) PROVE PreAuthInv'
  <2>1. SpentKept
    BY <1>2 DEF CredentialOffer, SpentKept, Spent, Put
  <2> QED
    BY <1>2, <2>1, NoMintingInv DEF CredentialOffer, Minting, history
<1>3. ASSUME NEW w \in Workers, Handler(w) PROVE PreAuthInv'
  BY <1>3, TokenStoreInv, OtherHandlerInv DEF Handler
<1>4. ASSUME NEW w \in Workers, NEW uri \in Uris, NEW client \in Clients,
             DecisionResolve(w, uri, client)
      PROVE  PreAuthInv'
  <2>1. SpentKept /\ UNCHANGED origin
    BY <1>4 DEF DecisionResolve, SpentKept, Spent, store, history
  <2>2. \A v \in Workers, c \in PreAuthCodes : Minting(v, c)' => Minting(v, c)
    BY <1>4 DEF DecisionResolve, Goto, Minting, TypeOK
  <2> QED
    BY <2>1, <2>2, NoMintingInv
<1>5. ASSUME NEW w \in Workers, NEW r \in TokenRequests, NEW code \in Codes,
             TokenLookup(w, r, code)
      PROVE  PreAuthInv'
  <2>1. SpentKept /\ UNCHANGED origin
    BY <1>5 DEF TokenLookup, SpentKept, Spent, store, history
  <2>2. \A v \in Workers, c \in PreAuthCodes : Minting(v, c)' => Minting(v, c)
    BY <1>5 DEF TokenLookup, Goto, Minting, TypeOK
  <2> QED
    BY <2>1, <2>2, NoMintingInv
<1>6. ASSUME NEW w \in Workers, NEW r \in TokenRequests, NEW code \in PreAuthCodes,
             RedeemPreAuthorizedCode(w, r, code)
      PROVE  PreAuthInv'
  BY <1>6, RedeemInv
<1>7. ASSUME NEW token \in Tokens, ExpireAccessToken(token) PROVE PreAuthInv'
  BY <1>7, NoMintingInv DEF ExpireAccessToken, SpentKept, Spent, Minting, history
<1>8. CASE Tick
  BY <1>8, NoMintingInv DEF Tick, SpentKept, Spent, Minting, store, history
<1>9. CASE UNCHANGED vars
  BY <1>9, NoMintingInv DEF vars, SpentKept, Spent, Minting, store, history
<1> QED
  BY <1>1, <1>2, <1>3, <1>4, <1>5, <1>6, <1>7, <1>8, <1>9 DEF Next

\* However many handlers present a pre-authorized code at once, it yields at most
\* one token (state.rs, redeem_pre_authorized_code).
THEOREM PreAuthorizedCodesAreSingleUse == Spec => []PreAuthorizedCodeSingleUse
<1>1. Init => PreAuthInv
  BY DEF Init, PreAuthInv, Minting, IdleJob, EmptyMap
<1>2. TypeOK /\ JobsKnown /\ PreAuthInv /\ [Next]_vars => PreAuthInv'
  BY StepPreAuth
<1>3. PreAuthInv => PreAuthorizedCodeSingleUse
  BY DEF PreAuthInv, PreAuthorizedCodeSingleUse
<1> QED
  BY <1>1, <1>2, <1>3, TypeCorrect, PTL DEF Spec

-------------------------------------------------------------------------------
\* Codes and sessions.

\* A session that some code leads to holds a code, not always that one, and no
\* session is from the future.  CodesLeadToTheirSession is not inductive without.
CodesInv ==
    /\ CodesLeadToTheirSession
    /\ \A c \in DOMAIN code_to_uri : sessions[code_to_uri[c]].authorization_code # NONE
    /\ \A u \in DOMAIN sessions : sessions[u].created_at <= now

\* A new session has no code and is consumed by nobody.
LEMMA ParCodes ==
    ASSUME TypeOK, CodesInv, NEW r \in ParRequests, Par(r)
    PROVE  CodesInv'
<1>1. PICK uri \in Uris \ DOMAIN sessions : sessions' = Put(sessions, uri, NewSession(r, uri))
  BY DEF Par
<1>2. /\ DOMAIN sessions' = DOMAIN sessions \cup {uri}
      /\ \A u \in DOMAIN sessions : sessions'[u] = sessions[u]
      /\ sessions'[uri] = NewSession(r, uri)
  BY <1>1 DEF Put
<1>3. /\ sessions'[uri].authorization_code = NONE /\ ~sessions'[uri].consumed
      /\ sessions'[uri].created_at = now
  BY <1>2 DEF NewSession
<1>4. now \in Nat /\ UNCHANGED <<code_to_uri, now>>
  BY DEF Par, TypeOK
<1>5. CodesLeadToTheirSession'
  BY <1>2, <1>3, <1>4 DEF CodesInv, CodesLeadToTheirSession
<1>6. \A c \in DOMAIN code_to_uri : sessions'[code_to_uri[c]].authorization_code # NONE
  BY <1>2 DEF CodesInv, TypeOK
<1> QED
  BY <1>2, <1>3, <1>4, <1>5, <1>6 DEF CodesInv

\* set_authorization_code writes both maps; an overwritten code still leads to
\* the session.
LEMMA ApproveCodes ==
    ASSUME TypeOK, JobsKnown, CodesInv, NEW w \in Workers, DecisionApprove(w)
    PROVE  CodesInv'
<1> DEFINE uri == job[w].uri
<1>1. PICK code \in Codes \ DOMAIN code_to_uri : SetAuthorizationCode(uri, code)
  BY DEF DecisionApprove
<1>2. uri \in DOMAIN sessions /\ sessions[uri] \in AuthorizationSession /\ now \in Nat /\ now' = now
  BY DEF DecisionApprove, JobsKnown, KnownJob, TypeOK
<1>3. /\ DOMAIN sessions' = DOMAIN sessions
      /\ \A u \in DOMAIN sessions \ {uri} : sessions'[u] = sessions[u]
      /\ sessions'[uri].authorization_code = code
      /\ sessions'[uri].code_issued_at = now
      /\ sessions'[uri].created_at = sessions[uri].created_at
  BY <1>1, <1>2 DEF SetAuthorizationCode, AuthorizationSession
<1>4. /\ DOMAIN code_to_uri' = DOMAIN code_to_uri \cup {code}
      /\ code_to_uri'[code] = uri
      /\ \A c \in DOMAIN code_to_uri : code_to_uri'[c] = code_to_uri[c]
  BY <1>1 DEF SetAuthorizationCode, Put
<1>5. code # NONE
  BY NoneAssumption
<1> HIDE DEF uri
<1>6. ASSUME NEW u \in DOMAIN sessions'
      PROVE  /\ sessions'[u].authorization_code # NONE =>
                  /\ sessions'[u].authorization_code \in DOMAIN code_to_uri'
                  /\ code_to_uri'[sessions'[u].authorization_code] = u
                  /\ sessions'[u].code_issued_at >= sessions'[u].created_at
             /\ sessions'[u].consumed => sessions'[u].authorization_code # NONE
             /\ sessions'[u].created_at <= now
  <2>1. CASE u = uri
    <3>1. sessions[uri].created_at <= now /\ sessions[uri].created_at \in Nat
      BY <1>2 DEF CodesInv, AuthorizationSession
    <3> QED
      BY <1>2, <1>3, <1>4, <1>5, <2>1, <3>1
  <2>2. CASE u # uri
    BY <1>3, <1>4, <2>2 DEF CodesInv, CodesLeadToTheirSession
  <2> QED
    BY <2>1, <2>2
<1>7. \A c \in DOMAIN code_to_uri' : sessions'[code_to_uri'[c]].authorization_code # NONE
  BY <1>2, <1>3, <1>4, <1>5 DEF CodesInv, TypeOK
<1> QED
  BY <1>2, <1>6, <1>7 DEF CodesInv, CodesLeadToTheirSession

\* consume_authorization_code finds a session that holds a code.
LEMMA ConsumeCodes ==
    ASSUME TypeOK, JobsKnown, CodesInv, NEW w \in Workers, TokenConsume(w)
    PROVE  CodesInv'
<1> DEFINE uri == code_to_uri[job[w].code]
<1>1. /\ job[w].code \in DOMAIN code_to_uri
      /\ uri \in DOMAIN sessions /\ sessions[uri] \in AuthorizationSession
      /\ sessions[uri].authorization_code # NONE
  BY DEF TokenConsume, JobsKnown, KnownJob, TypeOK, CodesInv
<1>2. UNCHANGED <<code_to_uri, now>>
  BY DEF TokenConsume
<1>3. /\ DOMAIN sessions' = DOMAIN sessions
      /\ \A u \in DOMAIN sessions \ {uri} : sessions'[u] = sessions[u]
      /\ sessions'[uri].authorization_code = sessions[uri].authorization_code
      /\ sessions'[uri].code_issued_at = sessions[uri].code_issued_at
      /\ sessions'[uri].created_at = sessions[uri].created_at
  BY <1>1 DEF TokenConsume, ConsumeAuthorizationCode, AuthorizationSession
<1> HIDE DEF uri
<1>4. ASSUME NEW u \in DOMAIN sessions
      PROVE  /\ sessions'[u].authorization_code = sessions[u].authorization_code
             /\ sessions'[u].code_issued_at = sessions[u].code_issued_at
             /\ sessions'[u].created_at = sessions[u].created_at
             /\ sessions'[u].consumed => sessions[u].authorization_code # NONE
  BY <1>1, <1>3 DEF CodesInv, CodesLeadToTheirSession
<1>5. CodesLeadToTheirSession'
  BY <1>2, <1>3, <1>4 DEF CodesInv, CodesLeadToTheirSession
<1>6. \A c \in DOMAIN code_to_uri : sessions'[code_to_uri[c]].authorization_code # NONE
  BY <1>4 DEF CodesInv, TypeOK
<1> QED
  BY <1>2, <1>3, <1>4, <1>5, <1>6 DEF CodesInv

\* Everything else leaves sessions and codes alone.
LEMMA StepCodes ==
    ASSUME TypeOK, JobsKnown, CodesInv, [Next]_vars
    PROVE  CodesInv'
<1>1. ASSUME UNCHANGED <<sessions, code_to_uri>>, now' \in Nat, now <= now' PROVE CodesInv'
  <2>1. ASSUME NEW u \in DOMAIN sessions PROVE sessions[u].created_at <= now'
    <3>1. sessions[u].created_at <= now /\ sessions[u].created_at \in Nat /\ now \in Nat
      BY DEF CodesInv, TypeOK, AuthorizationSession
    <3> QED
      BY <1>1, <3>1
  <2> QED
    BY <1>1, <2>1 DEF CodesInv, CodesLeadToTheirSession
<1>2. ASSUME NEW r \in ParRequests, Par(r) PROVE CodesInv'
  BY <1>2, ParCodes
<1>3. ASSUME NEW w \in Workers, DecisionApprove(w) \/ TokenConsume(w) PROVE CodesInv'
  BY <1>3, ApproveCodes, ConsumeCodes
<1>4. CASE /\ \A r \in ParRequests : ~Par(r)
           /\ \A w \in Workers : ~DecisionApprove(w) /\ ~TokenConsume(w)
  <2>1. UNCHANGED <<sessions, code_to_uri>>
    BY <1>4 DEF Next, Handler, vars, CredentialOffer, DecisionDeny, TokenAccept, TokenReject,
       TokenStore, TokenRecord, RevokeTake, RevokeDrop, DecisionResolve, TokenLookup,
       RedeemPreAuthorizedCode, ExpireAccessToken, Tick, store
  <2>2. now' \in Nat /\ now <= now'
    <3>1. CASE Tick
      BY <3>1 DEF Tick, TypeOK
    <3>2. CASE ~Tick
      <4>1. UNCHANGED now
        BY <1>4, <3>2 DEF Next, Handler, vars, CredentialOffer, DecisionDeny, TokenAccept,
           TokenReject, TokenStore, TokenRecord, RevokeTake, RevokeDrop, DecisionResolve,
           TokenLookup, RedeemPreAuthorizedCode, ExpireAccessToken
      <4> QED
        BY <4>1 DEF TypeOK
    <3> QED
      BY <3>1, <3>2
  <2> QED
    BY <1>1, <2>1, <2>2
<1> QED
  BY <1>2, <1>3, <1>4

LEMMA CodesInvariant == Spec => []CodesInv
<1>1. Init => CodesInv
  BY DEF Init, CodesInv, CodesLeadToTheirSession, EmptyMap
<1>2. TypeOK /\ JobsKnown /\ CodesInv /\ [Next]_vars => CodesInv'
  BY StepCodes
<1> QED
  BY <1>1, <1>2, TypeCorrect, PTL DEF Spec

\* However decisions and redemptions interleave, the code a session holds leads
\* back to that session, it is not older than the session, and no session is
\* consumed without a code (state.rs, set_authorization_code and
\* consume_authorization_code).
THEOREM CodesLeadBack == Spec => []CodesLeadToTheirSession
<1>1. CodesInv => CodesLeadToTheirSession
  BY DEF CodesInv
<1> QED
  BY <1>1, CodesInvariant, PTL

-------------------------------------------------------------------------------
\* Revocation.

\* The token a handler is about to record or to revoke came from its code.
TracedJob(j) == j.at \in {"record", "drop"} => origin[j.token].code = j.code

\* A live token has the grant it was minted with, and what is recorded for a code
\* came from that code.
TracedInv ==
    /\ \A t \in DOMAIN access_tokens : access_tokens[t].grant = origin[t].grant
    /\ \A c \in DOMAIN tokens_by_code : origin[tokens_by_code[c]].code = c
    /\ \A w \in Workers : TracedJob(job[w])

\* issue_access_token.
LEMMA StoreTraced ==
    ASSUME TypeOK, JobsKnown, TracedInv, NEW w \in Workers, TokenStore(w)
    PROVE  TracedInv'
<1>1. PICK token \in Tokens \ DOMAIN origin :
        /\ access_tokens' =
               Put(access_tokens, token,
                   [grant |-> job[w].grant,
                    expires_at |-> now + ACCESS_TOKEN_TTL * TicksPerSecond])
        /\ origin' = Put(origin, token, [code |-> job[w].code, client |-> job[w].client,
                                         grant |-> job[w].grant, by |-> w])
        /\ Goto(w, IF job[w].code \in Codes
                   THEN [at |-> "record", code |-> job[w].code, token |-> token]
                   ELSE IdleJob)
  BY DEF TokenStore
<1>2. UNCHANGED tokens_by_code
  BY DEF TokenStore
<1>3. /\ DOMAIN origin' = DOMAIN origin \cup {token}
      /\ origin'[token].code = job[w].code /\ origin'[token].grant = job[w].grant
      /\ \A t \in DOMAIN origin : origin'[t] = origin[t]
  BY <1>1 DEF Put
<1>4. /\ DOMAIN access_tokens' = DOMAIN access_tokens \cup {token}
      /\ access_tokens'[token].grant = job[w].grant
      /\ \A t \in DOMAIN access_tokens : access_tokens'[t] = access_tokens[t]
  BY <1>1 DEF Put, TypeOK
<1>5. \A t \in DOMAIN access_tokens' : access_tokens'[t].grant = origin'[t].grant
  BY <1>3, <1>4 DEF TracedInv, TypeOK
<1>6. \A c \in DOMAIN tokens_by_code : origin'[tokens_by_code[c]].code = c
  BY <1>3 DEF TracedInv, TypeOK
<1>7. /\ job'[w].at \in {"record", "drop"} =>
            job'[w].token = token /\ job'[w].code = job[w].code
      /\ \A v \in Workers \ {w} : job'[v] = job[v]
  BY <1>1 DEF Goto, TypeOK, IdleJob
<1>8. ASSUME NEW v \in Workers, job'[v].at \in {"record", "drop"}
      PROVE  origin'[job'[v].token].code = job'[v].code
  <2>1. CASE v = w
    BY <1>3, <1>7, <1>8, <2>1
  <2>2. CASE v # w
    BY <1>3, <1>7, <1>8, <2>2 DEF TracedInv, TracedJob, JobsKnown, KnownJob
  <2> QED
    BY <2>1, <2>2
<1> QED
  BY <1>2, <1>5, <1>6, <1>8 DEF TracedInv, TracedJob

\* Steps that mint nothing and at most take tokens away.
LEMMA OthersTraced ==
    ASSUME TypeOK, TracedInv, UNCHANGED origin,
           DOMAIN access_tokens' \subseteq DOMAIN access_tokens,
           \A t \in DOMAIN access_tokens' : access_tokens'[t] = access_tokens[t],
           \A c \in DOMAIN tokens_by_code' : origin[tokens_by_code'[c]].code = c,
           \A w \in Workers : job'[w] = job[w] \/ TracedJob(job'[w])
    PROVE  TracedInv'
BY DEF TracedInv, TracedJob

\* record_token_for_code and the two steps of revoke_tokens_for_code.
LEMMA RecordAndRevokeTraced ==
    ASSUME TypeOK, TracedInv, NEW w \in Workers, TokenRecord(w) \/ RevokeTake(w) \/ RevokeDrop(w)
    PROVE  TracedInv'
<1>1. UNCHANGED origin
  BY DEF TokenRecord, RevokeTake, RevokeDrop, history
<1>2. /\ DOMAIN access_tokens' \subseteq DOMAIN access_tokens
      /\ \A t \in DOMAIN access_tokens' : access_tokens'[t] = access_tokens[t]
  BY DEF TokenRecord, RevokeTake, RevokeDrop, Drop
<1>3. \A c \in DOMAIN tokens_by_code' : origin[tokens_by_code'[c]].code = c
  BY DEF TokenRecord, RevokeTake, RevokeDrop, Put, Drop, TracedInv, TracedJob
<1>4. /\ TracedJob(job'[w])
      /\ \A v \in Workers \ {w} : job'[v] = job[v]
  BY DEF TokenRecord, RevokeTake, RevokeDrop, Goto, IdleJob, TypeOK, TracedInv, TracedJob
<1> QED
  BY <1>1, <1>2, <1>3, <1>4, OthersTraced

LEMMA StepTraced ==
    ASSUME TypeOK, JobsKnown, TracedInv, [Next]_vars
    PROVE  TracedInv'
<1>1. ASSUME NEW w \in Workers, TokenStore(w) PROVE TracedInv'
  BY <1>1, StoreTraced
<1>2. ASSUME NEW w \in Workers, TokenRecord(w) \/ RevokeTake(w) \/ RevokeDrop(w) PROVE TracedInv'
  BY <1>2, RecordAndRevokeTraced
<1>3. CASE \A w \in Workers : ~(TokenStore(w) \/ TokenRecord(w) \/ RevokeTake(w) \/ RevokeDrop(w))
  <2>1. UNCHANGED <<origin, tokens_by_code>>
    BY <1>3 DEF Next, Handler, vars, Par, CredentialOffer, DecisionApprove, DecisionDeny,
       TokenAccept, TokenReject, TokenConsume, DecisionResolve, TokenLookup,
       RedeemPreAuthorizedCode, ExpireAccessToken, Tick, store, history
  <2>2. /\ DOMAIN access_tokens' \subseteq DOMAIN access_tokens
        /\ \A t \in DOMAIN access_tokens' : access_tokens'[t] = access_tokens[t]
    BY <1>3 DEF Next, Handler, vars, Par, CredentialOffer, DecisionApprove, DecisionDeny,
       TokenAccept, TokenReject, TokenConsume, DecisionResolve, TokenLookup,
       RedeemPreAuthorizedCode, ExpireAccessToken, Tick, Drop, store
  <2>3. \A v \in Workers : job'[v] = job[v] \/ job'[v].at \notin {"record", "drop"}
    <3>1. \/ UNCHANGED job
          \/ \E w \in Workers : \E j : Goto(w, j) /\ j.at \notin {"record", "drop"}
      <4>1. ASSUME NEW w \in Workers, Handler(w)
            PROVE  \E j : Goto(w, j) /\ j.at \notin {"record", "drop"}
        BY <1>3, <4>1 DEF Handler, DecisionApprove, DecisionDeny, TokenAccept, TokenReject,
           TokenConsume, IdleJob
      <4>2. ASSUME NEW w \in Workers, NEW uri \in Uris, NEW client \in Clients,
                   DecisionResolve(w, uri, client)
            PROVE  \E j : Goto(w, j) /\ j.at \notin {"record", "drop"}
        BY <4>2 DEF DecisionResolve
      <4>3. ASSUME NEW w \in Workers, NEW r \in TokenRequests, NEW code \in Codes,
                   TokenLookup(w, r, code)
            PROVE  \E j : Goto(w, j) /\ j.at \notin {"record", "drop"}
        BY <4>3 DEF TokenLookup
      <4>4. ASSUME NEW w \in Workers, NEW r \in TokenRequests, NEW code \in PreAuthCodes,
                   RedeemPreAuthorizedCode(w, r, code)
            PROVE  \E j : Goto(w, j) /\ j.at \notin {"record", "drop"}
        BY <4>4 DEF RedeemPreAuthorizedCode
      <4> QED
        BY <4>1, <4>2, <4>3, <4>4
        DEF Next, vars, Par, CredentialOffer, ExpireAccessToken, Tick
    <3> QED
      BY <3>1 DEF Goto, TypeOK
  <2>4. \A v \in Workers : job'[v] = job[v] \/ TracedJob(job'[v])
    BY <2>3 DEF TracedJob
  <2>5. \A c \in DOMAIN tokens_by_code' : origin[tokens_by_code'[c]].code = c
    BY <2>1 DEF TracedInv
  <2> QED
    BY <2>1, <2>2, <2>4, <2>5, OthersTraced
<1> QED
  BY <1>1, <1>2, <1>3

LEMMA TracedInvariant == Spec => []TracedInv
<1>1. Init => TracedInv
  BY DEF Init, TracedInv, TracedJob, IdleJob, EmptyMap
<1>2. TypeOK /\ JobsKnown /\ TracedInv /\ [Next]_vars => TracedInv'
  BY StepTraced
<1> QED
  BY <1>1, <1>2, TypeCorrect, PTL DEF Spec

\* A live token only disappears because it has expired or because a replay of its
\* own code is being answered, whatever was recorded and revoked in between
\* (state.rs, record_token_for_code and revoke_tokens_for_code).
THEOREM RevocationHitsItsCode == Spec => RevocationIsTargeted
<1> DEFINE Targeted == \A t \in DOMAIN access_tokens \ DOMAIN access_tokens' :
                          \/ now >= access_tokens[t].expires_at
                          \/ \E w \in Workers : job[w].at = "drop" /\ job[w].code = origin[t].code
<1>1. ASSUME TracedInv, [Next]_vars PROVE [Targeted]_vars
  <2>1. ASSUME NEW w \in Workers, RevokeDrop(w) PROVE Targeted
    <3>1. job[w].at = "drop" /\ job[w].code = origin[job[w].token].code
      BY <1>1, <2>1 DEF RevokeDrop, TracedInv, TracedJob
    <3>2. \A t \in DOMAIN access_tokens \ DOMAIN access_tokens' : t = job[w].token
      BY <2>1 DEF RevokeDrop, Drop
    <3> QED
      BY <3>1, <3>2
  <2>2. ASSUME NEW t \in Tokens, ExpireAccessToken(t) PROVE Targeted
    BY <2>2 DEF ExpireAccessToken, Drop
  <2>3. CASE /\ \A w \in Workers : ~RevokeDrop(w)
             /\ \A t \in Tokens : ~ExpireAccessToken(t)
    <3>1. DOMAIN access_tokens \subseteq DOMAIN access_tokens'
      BY <1>1, <2>3 DEF Next, Handler, vars, Par, CredentialOffer, DecisionApprove, DecisionDeny,
         TokenAccept, TokenReject, TokenConsume, TokenStore, TokenRecord, RevokeTake,
         DecisionResolve, TokenLookup, RedeemPreAuthorizedCode, Tick, Put, store
    <3> QED
      BY <3>1
  <2> QED
    BY <2>1, <2>2, <2>3
<1>2. Spec => [][Targeted]_vars
  BY <1>1, TracedInvariant, PTL DEF Spec
<1> QED
  BY <1>2 DEF RevocationIsTargeted

-------------------------------------------------------------------------------
\* Offers.

\* The grant of a handler about to mint, or of a token, is for the configurations
\* of the offer behind its pre-authorized code.
Offered(code, grant) ==
    code \in PreAuthCodes =>
        /\ code \in DOMAIN pre_auth_codes
        /\ grant.configs = pre_auth_codes[code].configs

OfferedInv ==
    /\ \A w \in Workers : job[w].at = "store" => Offered(job[w].code, job[w].grant)
    /\ \A t \in DOMAIN origin : Offered(origin[t].code, origin[t].grant)

\* What was offered stays offered.
OffersKept ==
    /\ DOMAIN pre_auth_codes \subseteq DOMAIN pre_auth_codes'
    /\ \A c \in DOMAIN pre_auth_codes : pre_auth_codes'[c].configs = pre_auth_codes[c].configs

\* A token keeps its origin.
OriginKept ==
    /\ DOMAIN origin \subseteq DOMAIN origin'
    /\ \A t \in DOMAIN origin : origin'[t] = origin[t]

LEMMA StepOriginKept ==
    ASSUME [Next]_vars
    PROVE  OriginKept
<1>1. ASSUME NEW w \in Workers, TokenStore(w) PROVE OriginKept
  BY <1>1 DEF TokenStore, Put, OriginKept
<1>2. CASE \A w \in Workers : ~TokenStore(w)
  <2>1. UNCHANGED origin
    BY <1>2 DEF Next, Handler, vars, Par, CredentialOffer, DecisionApprove, DecisionDeny,
       TokenAccept, TokenReject, TokenConsume, TokenRecord, RevokeTake, RevokeDrop,
       DecisionResolve, TokenLookup, RedeemPreAuthorizedCode, ExpireAccessToken, Tick, history
  <2> QED
    BY <2>1 DEF OriginKept
<1> QED
  BY <1>1, <1>2

LEMMA StepOffersKept ==
    ASSUME TypeOK, [Next]_vars
    PROVE  OffersKept
<1>1. ASSUME NEW o \in Offers, CredentialOffer(o) PROVE OffersKept
  BY <1>1 DEF CredentialOffer, Put, OffersKept
<1>2. ASSUME NEW w \in Workers, NEW r \in TokenRequests, NEW code \in PreAuthCodes,
             RedeemPreAuthorizedCode(w, r, code)
      PROVE  OffersKept
  BY <1>2 DEF RedeemPreAuthorizedCode, Redeemable, OffersKept, TypeOK, PreAuthEntry
<1>3. CASE /\ \A o \in Offers : ~CredentialOffer(o)
           /\ \A w \in Workers, r \in TokenRequests, code \in PreAuthCodes :
                 ~RedeemPreAuthorizedCode(w, r, code)
  <2>1. UNCHANGED pre_auth_codes
    BY <1>3 DEF Next, Handler, vars, Par, DecisionApprove, DecisionDeny,
       TokenAccept, TokenReject, TokenConsume, TokenStore, TokenRecord, RevokeTake, RevokeDrop,
       DecisionResolve, TokenLookup, ExpireAccessToken, Tick, store
  <2> QED
    BY <2>1 DEF OffersKept
<1> QED
  BY <1>1, <1>2, <1>3

\* The jobs a step leaves at "store" were there or are for an offer.
LEMMA StepOffered ==
    ASSUME TypeOK, JobsKnown, OfferedInv, [Next]_vars
    PROVE  OfferedInv'
<1>0. OffersKept /\ OriginKept
  BY StepOffersKept, StepOriginKept
<1>1. ASSUME NEW code, NEW grant, Offered(code, grant) PROVE Offered(code, grant)'
  BY <1>0, <1>1 DEF Offered, OffersKept
<1>2. ASSUME NEW w \in Workers, TokenStore(w) PROVE OfferedInv'
  <2>1. PICK token \in Tokens \ DOMAIN origin :
          origin' = Put(origin, token, [code |-> job[w].code, client |-> job[w].client,
                                        grant |-> job[w].grant, by |-> w])
    BY <1>2 DEF TokenStore
  <2>2. /\ DOMAIN origin' = DOMAIN origin \cup {token}
        /\ origin'[token].code = job[w].code /\ origin'[token].grant = job[w].grant
    BY <2>1 DEF Put
  <2>3. Offered(job[w].code, job[w].grant)
    BY <1>2 DEF TokenStore, OfferedInv
  <2>4. UNCHANGED pre_auth_codes
    BY <1>2 DEF TokenStore
  <2>5. \A v \in Workers : job'[v] = job[v] \/ job'[v].at # "store"
    BY <1>2 DEF TokenStore, Goto, IdleJob, TypeOK
  <2>6. \A t \in DOMAIN origin' : Offered(origin'[t].code, origin'[t].grant)
    BY <1>0, <2>2, <2>3 DEF OfferedInv, OriginKept
  <2>7. \A v \in Workers : job'[v].at = "store" => Offered(job'[v].code, job'[v].grant)
    BY <2>5 DEF OfferedInv
  <2> QED
    BY <2>4, <2>6, <2>7 DEF OfferedInv, Offered
<1>3. ASSUME UNCHANGED origin,
             NEW w \in Workers, NEW j, Goto(w, j), j.at = "store" => Offered(j.code, j.grant)'
      PROVE  OfferedInv'
  <2>1. job'[w] = j /\ \A v \in Workers \ {w} : job'[v] = job[v]
    BY <1>3 DEF Goto, TypeOK
  <2>2. \A t \in DOMAIN origin : Offered(origin[t].code, origin[t].grant)'
    <3> SUFFICES ASSUME NEW t \in DOMAIN origin PROVE Offered(origin[t].code, origin[t].grant)'
      BY <1>3
    <3>1. PICK code, grant : code = origin[t].code /\ grant = origin[t].grant /\ origin'[t] = origin[t]
      BY <1>3
    <3>2. Offered(code, grant)'
      BY <1>1, <3>1 DEF OfferedInv
    <3> QED
      BY <3>1, <3>2
  <2>3. ASSUME NEW v \in Workers, job'[v].at = "store" PROVE Offered(job[v].code, job[v].grant)'
    <3>1. PICK code, grant : code = job'[v].code /\ grant = job'[v].grant
      OBVIOUS
    <3>2. Offered(code, grant)'
      <4>1. CASE v = w
        BY <1>3, <2>1, <2>3, <3>1, <4>1
      <4>2. CASE v # w
        BY <1>1, <2>1, <2>3, <3>1, <4>2 DEF OfferedInv
      <4> QED
        BY <4>1, <4>2
    <3> QED
      BY <3>1, <3>2
  <2> QED
    BY <1>3, <2>2, <2>3 DEF OfferedInv
<1>4. ASSUME UNCHANGED <<origin, job>> PROVE OfferedInv'
  BY <1>0, <1>4 DEF OfferedInv, Offered, OffersKept
<1>5. ASSUME NEW w \in Workers, TokenConsume(w) PROVE OfferedInv'
  <2>1. PICK j : Goto(w, j) /\ j.code = job[w].code
    BY <1>5 DEF TokenConsume
  <2>2. j.code \notin PreAuthCodes
    BY <1>5, <2>1, CodesAssumption DEF TokenConsume, JobsKnown, KnownJob, TypeOK
  <2>3. Offered(j.code, j.grant)'
    BY <2>2 DEF Offered
  <2> QED
    BY <1>3, <1>5, <2>1, <2>3 DEF TokenConsume, history
<1>6. ASSUME NEW w \in Workers, NEW r \in TokenRequests, NEW code \in PreAuthCodes,
             RedeemPreAuthorizedCode(w, r, code)
      PROVE  OfferedInv'
  <2>1. PICK j : Goto(w, j) /\ j.code = code /\ j.grant.configs = pre_auth_codes[code].configs
    BY <1>6 DEF RedeemPreAuthorizedCode
  <2>2. code \in DOMAIN pre_auth_codes
    BY <1>6 DEF RedeemPreAuthorizedCode, Redeemable
  <2>3. Offered(j.code, j.grant)'
    BY <1>0, <2>1, <2>2 DEF Offered, OffersKept
  <2> QED
    BY <1>3, <1>6, <2>1, <2>3 DEF RedeemPreAuthorizedCode, history
<1>7. ASSUME NEW w \in Workers, Handler(w) PROVE OfferedInv'
  <2>1. CASE \/ DecisionApprove(w) \/ DecisionDeny(w) \/ TokenAccept(w) \/ TokenReject(w)
             \/ TokenRecord(w) \/ RevokeTake(w) \/ RevokeDrop(w)
    <3>1. PICK j : Goto(w, j) /\ j.at # "store"
      <4>1. CASE TokenAccept(w) \/ RevokeTake(w)
        BY <4>1 DEF TokenAccept, RevokeTake, IdleJob
      <4>2. CASE DecisionApprove(w) \/ DecisionDeny(w) \/ TokenReject(w) \/ TokenRecord(w)
                 \/ RevokeDrop(w)
        BY <4>2 DEF DecisionApprove, DecisionDeny, TokenReject, TokenRecord, RevokeDrop, IdleJob
      <4> QED
        BY <2>1, <4>1, <4>2
    <3>2. UNCHANGED origin
      BY <2>1 DEF DecisionApprove, DecisionDeny, TokenAccept, TokenReject, TokenRecord,
                  RevokeTake, RevokeDrop, history
    <3> QED
      BY <1>3, <3>1, <3>2
  <2> QED
    BY <1>2, <1>5, <1>7, <2>1 DEF Handler
<1>8. ASSUME NEW w \in Workers, NEW uri \in Uris, NEW client \in Clients,
             DecisionResolve(w, uri, client)
      PROVE  OfferedInv'
  BY <1>3, <1>8 DEF DecisionResolve, history
<1>9. ASSUME NEW w \in Workers, NEW r \in TokenRequests, NEW code \in Codes,
             TokenLookup(w, r, code)
      PROVE  OfferedInv'
  <2>1. PICK j : Goto(w, j) /\ j.at # "store"
    BY <1>9 DEF TokenLookup
  <2> QED
    BY <1>3, <1>9, <2>1 DEF TokenLookup, history
<1>10. CASE \/ \E r \in ParRequests : Par(r)
            \/ \E o \in Offers : CredentialOffer(o)
            \/ \E token \in Tokens : ExpireAccessToken(token)
            \/ Tick \/ UNCHANGED vars
  BY <1>4, <1>10 DEF Par, CredentialOffer, ExpireAccessToken, Tick, vars, history
<1> QED
  BY <1>6, <1>7, <1>8, <1>9, <1>10 DEF Next

\* A token of the pre-authorized grant is for the configurations of the offer the
\* issuer made (token.rs, process_pre_authorized_code_grant).
LEMMA OfferedInvariant == Spec => []OfferedInv
<1>1. Init => OfferedInv
  BY DEF Init, OfferedInv, Offered, IdleJob, EmptyMap
<1>2. TypeOK /\ JobsKnown /\ OfferedInv /\ [Next]_vars => OfferedInv'
  BY StepOffered
<1> QED
  BY <1>1, <1>2, TypeCorrect, PTL DEF Spec

-------------------------------------------------------------------------------
\* Requests in progress together.  Decisions and redemptions read a session in one
\* store call and write it in another, so two of them can overlap; what follows
\* holds for any number of handlers and says how far the damage goes.

\* Worker w has given out a code for request_uri u.
Decided(w, u) == \E c \in DOMAIN code_to_uri : code_to_uri[c] = u /\ approver[c] = w

\* A worker that is deciding has not given out a code for that request before.
DecidesInv ==
    /\ OneCodePerWorker
    /\ \A w \in Workers : job[w].at = "decide" => ~Decided(w, job[w].uri)

\* set_authorization_code.
LEMMA ApproveDecides ==
    ASSUME TypeOK, DecidesInv, NEW w \in Workers, DecisionApprove(w)
    PROVE  DecidesInv'
<1> DEFINE uri == job[w].uri
<1>1. PICK code \in Codes \ DOMAIN code_to_uri :
          SetAuthorizationCode(uri, code) /\ approver' = Put(approver, code, w)
  BY DEF DecisionApprove
<1>2. /\ DOMAIN code_to_uri' = DOMAIN code_to_uri \cup {code}
      /\ code_to_uri'[code] = uri
      /\ \A c \in DOMAIN code_to_uri : code_to_uri'[c] = code_to_uri[c]
  BY <1>1 DEF SetAuthorizationCode, Put
<1>3. /\ approver'[code] = w
      /\ \A c \in DOMAIN code_to_uri : approver'[c] = approver[c]
  BY <1>1 DEF Put, TypeOK
<1>4. ~Decided(w, uri)
  BY DEF DecisionApprove, DecidesInv
<1>5. job'[w].at = "idle" /\ \A v \in Workers \ {w} : job'[v] = job[v]
  BY DEF DecisionApprove, Goto, IdleJob, TypeOK
<1> HIDE DEF uri
<1>6. OneCodePerWorker'
  BY <1>2, <1>3, <1>4 DEF DecidesInv, OneCodePerWorker, Decided
<1>7. ASSUME NEW v \in Workers, job'[v].at = "decide" PROVE ~Decided(v, job[v].uri)'
  <2>1. v # w /\ job'[v] = job[v]
    BY <1>5, <1>7
  <2>2. ~Decided(v, job[v].uri)
    BY <1>7, <2>1 DEF DecidesInv
  <2> QED
    BY <1>2, <1>3, <2>1, <2>2 DEF Decided
<1> QED
  BY <1>6, <1>7 DEF DecidesInv

LEMMA StepDecides ==
    ASSUME TypeOK, CodesInv, DecidesInv, [Next]_vars
    PROVE  DecidesInv'
<1>1. ASSUME NEW w \in Workers, DecisionApprove(w) PROVE DecidesInv'
  BY <1>1, ApproveDecides
<1>2. ASSUME NEW w \in Workers, NEW uri \in Uris, NEW client \in Clients,
             DecisionResolve(w, uri, client)
      PROVE  DecidesInv'
  <2>1. UNCHANGED <<code_to_uri, approver>>
    BY <1>2 DEF DecisionResolve, store, history
  <2>2. \A c \in DOMAIN code_to_uri : code_to_uri[c] # uri
    BY <1>2 DEF DecisionResolve, Resolvable, CodesInv
  <2>3. job'[w].uri = uri /\ \A v \in Workers \ {w} : job'[v] = job[v]
    BY <1>2 DEF DecisionResolve, Goto, TypeOK
  <2> QED
    BY <2>1, <2>2, <2>3 DEF DecidesInv, OneCodePerWorker, Decided
<1>3. CASE /\ \A w \in Workers : ~DecisionApprove(w)
           /\ \A w \in Workers, uri \in Uris, client \in Clients : ~DecisionResolve(w, uri, client)
  <2>1. UNCHANGED <<code_to_uri, approver>>
    BY <1>3 DEF Next, Handler, vars, Par, CredentialOffer, DecisionDeny, TokenAccept, TokenReject,
       TokenConsume, TokenStore, TokenRecord, RevokeTake, RevokeDrop, TokenLookup,
       RedeemPreAuthorizedCode, ExpireAccessToken, Tick, store, history
  <2>2. UNCHANGED job \/ \E w \in Workers : \E j : Goto(w, j) /\ j.at # "decide"
    <3>1. ASSUME NEW w \in Workers, Handler(w) PROVE \E j : Goto(w, j) /\ j.at # "decide"
      <4>1. CASE TokenStore(w)
        BY <4>1 DEF TokenStore, IdleJob
      <4>2. CASE RevokeTake(w)
        BY <4>2 DEF RevokeTake, IdleJob
      <4>3. CASE TokenAccept(w) \/ TokenConsume(w)
        BY <4>3 DEF TokenAccept, TokenConsume
      <4>4. CASE DecisionDeny(w) \/ TokenReject(w) \/ TokenRecord(w) \/ RevokeDrop(w)
        BY <4>4 DEF DecisionDeny, TokenReject, TokenRecord, RevokeDrop, IdleJob
      <4> QED
        BY <1>3, <3>1, <4>1, <4>2, <4>3, <4>4 DEF Handler
    <3>2. ASSUME NEW w \in Workers, NEW r \in TokenRequests, NEW code \in Codes,
                 TokenLookup(w, r, code)
          PROVE  \E j : Goto(w, j) /\ j.at # "decide"
      BY <3>2 DEF TokenLookup
    <3>3. ASSUME NEW w \in Workers, NEW r \in TokenRequests, NEW code \in PreAuthCodes,
                 RedeemPreAuthorizedCode(w, r, code)
          PROVE  \E j : Goto(w, j) /\ j.at # "decide"
      BY <3>3 DEF RedeemPreAuthorizedCode
    <3> QED
      BY <1>3, <3>1, <3>2, <3>3
      DEF Next, vars, Par, CredentialOffer, ExpireAccessToken, Tick
  <2>3. \A v \in Workers : job'[v] = job[v] \/ job'[v].at # "decide"
    BY <2>2 DEF Goto, TypeOK
  <2> QED
    BY <2>1, <2>3 DEF DecidesInv, OneCodePerWorker, Decided
<1> QED
  BY <1>1, <1>2, <1>3

\* Of one pushed request a worker gives out at most one code: for two codes their
\* decisions must have been in progress together (routes/issuer.rs,
\* resolve_request_uri and set_authorization_code).
THEOREM CodesNeedOverlap == Spec => []OneCodePerWorker
<1>1. Init => DecidesInv
  BY DEF Init, DecidesInv, OneCodePerWorker, EmptyMap, IdleJob
<1>2. TypeOK /\ CodesInv /\ DecidesInv /\ [Next]_vars => DecidesInv'
  BY StepDecides
<1>3. DecidesInv => OneCodePerWorker
  BY DEF DecidesInv
<1> QED
  BY <1>1, <1>2, <1>3, TypeCorrect, CodesInvariant, PTL DEF Spec

\* Worker w has minted a token for the request pushed under u.
MintedBy(w, u) ==
    \E t \in DOMAIN origin :
        FromCode(t) /\ code_to_uri[origin[t].code] = u /\ origin[t].by = w

\* A handler that has found a code unconsumed and may still mint with it.
Redeeming(j) == j.at \in {"check", "consume"} \/ (j.at = "store" /\ j.code \in Codes)

\* A worker that is redeeming has not minted for that request before.
MintsInv ==
    /\ OneTokenPerWorker
    /\ \A w \in Workers : Redeeming(job[w]) => ~MintedBy(w, code_to_uri[job[w].code])

\* issue_access_token.
LEMMA StoreMints ==
    ASSUME TypeOK, MintsInv, NEW w \in Workers, TokenStore(w)
    PROVE  MintsInv'
<1>1. PICK token \in Tokens \ DOMAIN origin :
        origin' = Put(origin, token, [code |-> job[w].code, client |-> job[w].client,
                                      grant |-> job[w].grant, by |-> w])
  BY DEF TokenStore
<1>2. UNCHANGED code_to_uri
  BY DEF TokenStore
<1>3. /\ DOMAIN origin' = DOMAIN origin \cup {token}
      /\ origin'[token].code = job[w].code /\ origin'[token].by = w
      /\ \A t \in DOMAIN origin : origin'[t] = origin[t]
  BY <1>1 DEF Put
<1>4. job[w].code \in Codes => ~MintedBy(w, code_to_uri[job[w].code])
  BY DEF TokenStore, MintsInv, Redeeming
<1>5. ~Redeeming(job'[w]) /\ \A v \in Workers \ {w} : job'[v] = job[v]
  BY DEF TokenStore, Goto, IdleJob, TypeOK, Redeeming
<1>6. OneTokenPerWorker'
  BY <1>2, <1>3, <1>4 DEF MintsInv, OneTokenPerWorker, MintedBy, FromCode
<1>7. ASSUME NEW v \in Workers, Redeeming(job'[v])
      PROVE  ~MintedBy(v, code_to_uri[job[v].code])'
  <2>1. v # w /\ job'[v] = job[v]
    BY <1>5, <1>7
  <2>2. ~MintedBy(v, code_to_uri[job[v].code])
    BY <1>7, <2>1 DEF MintsInv
  <2> QED
    BY <1>2, <1>3, <2>1, <2>2 DEF MintedBy, FromCode
<1> QED
  BY <1>6, <1>7 DEF MintsInv, Redeeming

\* Steps that mint nothing and let no redemption begin.
LEMMA RestMints ==
    ASSUME TypeOK, JobsKnown, TokensMatch, MintsInv, SessionsKept, UNCHANGED origin,
           \A v \in Workers : Redeeming(job'[v]) => Redeeming(job[v]) /\ job'[v].code = job[v].code
    PROVE  MintsInv'
<1>1. \A t \in DOMAIN origin : FromCode(t) =>
          code_to_uri'[origin[t].code] = code_to_uri[origin[t].code]
  BY DEF TokensMatch, SessionsKept
<1>2. OneTokenPerWorker'
  BY <1>1 DEF MintsInv, OneTokenPerWorker, FromCode
<1>3. ASSUME NEW v \in Workers, Redeeming(job'[v])
      PROVE  ~MintedBy(v, code_to_uri[job[v].code])'
  <2>1. Redeeming(job[v]) /\ job'[v].code = job[v].code
    BY <1>3
  <2>2. code_to_uri'[job[v].code] = code_to_uri[job[v].code]
    BY <2>1 DEF Redeeming, JobsKnown, KnownJob, SessionsKept
  <2>3. ~MintedBy(v, code_to_uri[job[v].code])
    BY <2>1 DEF MintsInv
  <2> QED
    BY <1>1, <2>1, <2>2, <2>3 DEF MintedBy, FromCode
<1> QED
  BY <1>2, <1>3 DEF MintsInv, Redeeming

\* get_session_by_code: a session with a token is consumed, so no redemption begins.
LEMMA LookupMints ==
    ASSUME TypeOK, TokensMatch, MintsInv, NEW w \in Workers, NEW r \in TokenRequests,
           NEW code \in Codes, TokenLookup(w, r, code)
    PROVE  MintsInv'
<1>1. UNCHANGED <<origin, code_to_uri>>
  BY DEF TokenLookup, store, history
<1>2. Redeeming(job'[w]) =>
          job'[w].code = code /\ ~sessions[code_to_uri[code]].consumed
  BY DEF TokenLookup, Goto, TypeOK, Redeeming
<1>3. \A v \in Workers \ {w} : job'[v] = job[v]
  BY DEF TokenLookup, Goto, TypeOK
<1>4. Redeeming(job'[w]) => ~MintedBy(w, code_to_uri[job'[w].code])
  BY <1>2 DEF MintedBy, TokensMatch, SessionOf
<1>5. \A v \in Workers : Redeeming(job'[v]) => ~MintedBy(v, code_to_uri[job'[v].code])
  BY <1>3, <1>4 DEF MintsInv
<1> QED
  BY <1>1, <1>5 DEF MintsInv, Redeeming, MintedBy, FromCode, OneTokenPerWorker

LEMMA StepMints ==
    ASSUME TypeOK, JobsKnown, TokensMatch, MintsInv, [Next]_vars
    PROVE  MintsInv'
<1>0. SessionsKept
  BY StepTypeOK
<1>1. ASSUME NEW w \in Workers, TokenStore(w) PROVE MintsInv'
  BY <1>1, StoreMints
<1>2. ASSUME NEW w \in Workers, NEW r \in TokenRequests, NEW code \in Codes,
             TokenLookup(w, r, code)
      PROVE  MintsInv'
  BY <1>2, LookupMints
<1>3. CASE /\ \A w \in Workers : ~TokenStore(w)
           /\ \A w \in Workers, r \in TokenRequests, code \in Codes : ~TokenLookup(w, r, code)
  <2>1. UNCHANGED origin
    BY <1>3 DEF Next, Handler, vars, Par, CredentialOffer, DecisionApprove, DecisionDeny,
       TokenAccept, TokenReject, TokenConsume, TokenRecord, RevokeTake, RevokeDrop,
       DecisionResolve, RedeemPreAuthorizedCode, ExpireAccessToken, Tick, history
  <2>2. \/ UNCHANGED job
        \/ \E w \in Workers : \E j : Goto(w, j) /\
              (Redeeming(j) => Redeeming(job[w]) /\ j.code = job[w].code)
    <3>1. ASSUME NEW w \in Workers, Handler(w)
          PROVE  \E j : Goto(w, j) /\ (Redeeming(j) => Redeeming(job[w]) /\ j.code = job[w].code)
      <4>1. CASE RevokeTake(w)
        BY <4>1 DEF RevokeTake, IdleJob, Redeeming
      <4>2. CASE TokenAccept(w)
        BY <4>2 DEF TokenAccept, Redeeming
      <4>3. CASE TokenConsume(w)
        BY <4>3 DEF TokenConsume, Redeeming
      <4>4. CASE DecisionApprove(w) \/ DecisionDeny(w) \/ TokenReject(w) \/ TokenRecord(w)
                 \/ RevokeDrop(w)
        BY <4>4 DEF DecisionApprove, DecisionDeny, TokenReject, TokenRecord, RevokeDrop, IdleJob,
                    Redeeming
      <4> QED
        BY <1>3, <3>1, <4>1, <4>2, <4>3, <4>4 DEF Handler
    <3>2. ASSUME NEW w \in Workers, NEW uri \in Uris, NEW client \in Clients,
                 DecisionResolve(w, uri, client)
          PROVE  \E j : Goto(w, j) /\ ~Redeeming(j)
      BY <3>2 DEF DecisionResolve, Redeeming
    <3>3. ASSUME NEW w \in Workers, NEW r \in TokenRequests, NEW code \in PreAuthCodes,
                 RedeemPreAuthorizedCode(w, r, code)
          PROVE  \E j : Goto(w, j) /\ ~Redeeming(j)
      BY <3>3, CodesAssumption DEF RedeemPreAuthorizedCode, Redeeming
    <3> QED
      BY <1>3, <3>1, <3>2, <3>3
      DEF Next, vars, Par, CredentialOffer, ExpireAccessToken, Tick
  <2>3. \A v \in Workers :
            Redeeming(job'[v]) => Redeeming(job[v]) /\ job'[v].code = job[v].code
    <3>1. CASE UNCHANGED job
      BY <3>1
    <3>2. ASSUME NEW w \in Workers, NEW j, Goto(w, j),
                 Redeeming(j) => Redeeming(job[w]) /\ j.code = job[w].code
          PROVE  \A v \in Workers :
                     Redeeming(job'[v]) => Redeeming(job[v]) /\ job'[v].code = job[v].code
      <4>1. job'[w] = j /\ \A v \in Workers \ {w} : job'[v] = job[v]
        BY <3>2 DEF Goto, TypeOK
      <4> QED
        BY <3>2, <4>1
    <3> QED
      BY <2>2, <3>1, <3>2
  <2> QED
    BY <1>0, <2>1, <2>3, RestMints
<1> QED
  BY <1>1, <1>2, <1>3

\* Of one pushed request a worker mints at most one token, however many codes were
\* given out for it: for two tokens their redemptions must have been in progress
\* together (token.rs, get_session_by_code and consume_authorization_code).
THEOREM TokensNeedOverlap == Spec => []OneTokenPerWorker
<1>1. Init => MintsInv
  BY DEF Init, MintsInv, OneTokenPerWorker, EmptyMap, IdleJob, Redeeming
<1>2. TypeOK /\ JobsKnown /\ TokensMatch /\ MintsInv /\ [Next]_vars => MintsInv'
  BY StepMints
<1>3. MintsInv => OneTokenPerWorker
  BY DEF MintsInv
<1> QED
  BY <1>1, <1>2, <1>3, TypeCorrect, MatchInvariant, PTL DEF Spec

\* A replay can still find t, or t is one of several tokens of its code.
Found(t) ==
    \/ origin[t].code \in DOMAIN tokens_by_code /\ tokens_by_code[origin[t].code] = t
    \/ \E w \in Workers : job[w].at \in {"record", "drop"} /\ job[w].token = t
    \/ \E u \in DOMAIN origin \ {t} : origin[u].code = origin[t].code

LiveIsFound == \A t \in DOMAIN access_tokens : FromCode(t) => Found(t)

\* issue_access_token leaves the new token with the handler, which records it next.
LEMMA StoreFound ==
    ASSUME TypeOK, LiveIsFound, NEW w \in Workers, TokenStore(w)
    PROVE  LiveIsFound'
<1>1. PICK token \in Tokens \ DOMAIN origin :
        /\ access_tokens' =
               Put(access_tokens, token,
                   [grant |-> job[w].grant,
                    expires_at |-> now + ACCESS_TOKEN_TTL * TicksPerSecond])
        /\ origin' = Put(origin, token, [code |-> job[w].code, client |-> job[w].client,
                                         grant |-> job[w].grant, by |-> w])
        /\ Goto(w, IF job[w].code \in Codes
                   THEN [at |-> "record", code |-> job[w].code, token |-> token]
                   ELSE IdleJob)
  BY DEF TokenStore
<1>2. /\ DOMAIN origin' = DOMAIN origin \cup {token}
      /\ origin'[token].code = job[w].code
      /\ \A t \in DOMAIN origin : origin'[t] = origin[t]
      /\ DOMAIN access_tokens' = DOMAIN access_tokens \cup {token}
  BY <1>1 DEF Put
<1>3. job[w].code \in Codes => job'[w].at = "record" /\ job'[w].token = token
  BY <1>1 DEF Goto, TypeOK
<1>4. /\ UNCHANGED tokens_by_code
      /\ job[w].at = "store" /\ \A v \in Workers \ {w} : job'[v] = job[v]
  BY DEF TokenStore, Goto, TypeOK
<1>5. ASSUME FromCode(token)' PROVE Found(token)'
  BY <1>2, <1>3, <1>5 DEF FromCode, Found
<1>6. ASSUME NEW t \in DOMAIN access_tokens, FromCode(t)' PROVE Found(t)'
  <2>1. t \in DOMAIN origin /\ t # token
    BY DEF TypeOK
  <2>2. Found(t)
    BY <1>2, <1>6, <2>1 DEF FromCode, LiveIsFound
  <2> QED
    BY <1>2, <1>4, <2>1, <2>2 DEF Found
<1> QED
  BY <1>2, <1>5, <1>6 DEF LiveIsFound

\* record_token_for_code: what it overwrites is another token of the same code.
LEMMA RecordFound ==
    ASSUME TypeOK, JobsKnown, TracedInv, LiveIsFound, NEW w \in Workers, TokenRecord(w)
    PROVE  LiveIsFound'
<1>1. /\ UNCHANGED <<origin, access_tokens>>
      /\ tokens_by_code' = Put(tokens_by_code, job[w].code, job[w].token)
      /\ job[w].at = "record" /\ \A v \in Workers \ {w} : job'[v] = job[v]
  BY DEF TokenRecord, history, Goto, TypeOK
<1>2. job[w].token \in DOMAIN origin /\ origin[job[w].token].code = job[w].code
  BY <1>1 DEF JobsKnown, KnownJob, TracedInv, TracedJob
<1>3. /\ DOMAIN tokens_by_code' = DOMAIN tokens_by_code \cup {job[w].code}
      /\ tokens_by_code'[job[w].code] = job[w].token
      /\ \A c \in DOMAIN tokens_by_code \ {job[w].code} : tokens_by_code'[c] = tokens_by_code[c]
  BY <1>1 DEF Put
<1>4. ASSUME NEW t \in DOMAIN access_tokens, FromCode(t) PROVE Found(t)'
  <2>1. Found(t)
    BY <1>4 DEF LiveIsFound
  <2>2. CASE t = job[w].token
    BY <1>1, <1>2, <1>3, <2>2 DEF Found
  <2>3. CASE t # job[w].token
    BY <1>1, <1>2, <1>3, <2>1, <2>3 DEF Found
  <2> QED
    BY <2>2, <2>3
<1> QED
  BY <1>1, <1>4 DEF LiveIsFound, FromCode

\* revoke_tokens_for_code, first half: what leaves tokens_by_code is with the handler.
LEMMA TakeFound ==
    ASSUME TypeOK, LiveIsFound, NEW w \in Workers, RevokeTake(w)
    PROVE  LiveIsFound'
<1>1. /\ UNCHANGED <<origin, access_tokens>>
      /\ tokens_by_code' = Drop(tokens_by_code, job[w].code)
      /\ job[w].at = "revoke" /\ \A v \in Workers \ {w} : job'[v] = job[v]
  BY DEF RevokeTake, Goto, TypeOK
<1>2. job[w].code \in DOMAIN tokens_by_code =>
          job'[w].at = "drop" /\ job'[w].token = tokens_by_code[job[w].code]
  BY DEF RevokeTake, Goto, TypeOK
<1>3. /\ DOMAIN tokens_by_code' = DOMAIN tokens_by_code \ {job[w].code}
      /\ \A c \in DOMAIN tokens_by_code' : tokens_by_code'[c] = tokens_by_code[c]
  BY <1>1 DEF Drop
<1>4. ASSUME NEW t \in DOMAIN access_tokens, FromCode(t) PROVE Found(t)'
  <2>1. Found(t)
    BY <1>4 DEF LiveIsFound
  <2> QED
    BY <1>1, <1>2, <1>3, <2>1 DEF Found
<1> QED
  BY <1>1, <1>4 DEF LiveIsFound, FromCode

\* ... and second half: the token the handler had is gone.
LEMMA DropFound ==
    ASSUME TypeOK, LiveIsFound, NEW w \in Workers, RevokeDrop(w)
    PROVE  LiveIsFound'
<1>1. /\ UNCHANGED <<origin, tokens_by_code>>
      /\ access_tokens' = Drop(access_tokens, job[w].token)
      /\ \A v \in Workers \ {w} : job'[v] = job[v]
  BY DEF RevokeDrop, Goto, TypeOK
<1>2. DOMAIN access_tokens' = DOMAIN access_tokens \ {job[w].token}
  BY <1>1 DEF Drop
<1>3. ASSUME NEW t \in DOMAIN access_tokens', FromCode(t) PROVE Found(t)'
  <2>1. Found(t) /\ t # job[w].token
    BY <1>2, <1>3 DEF LiveIsFound
  <2> QED
    BY <1>1, <2>1 DEF Found
<1> QED
  BY <1>1, <1>3 DEF LiveIsFound, FromCode

LEMMA StepFound ==
    ASSUME TypeOK, JobsKnown, TracedInv, LiveIsFound, [Next]_vars
    PROVE  LiveIsFound'
<1>1. ASSUME NEW w \in Workers,
             TokenStore(w) \/ TokenRecord(w) \/ RevokeTake(w) \/ RevokeDrop(w)
      PROVE  LiveIsFound'
  BY <1>1, StoreFound, RecordFound, TakeFound, DropFound
<1>2. CASE \A w \in Workers : ~(TokenStore(w) \/ TokenRecord(w) \/ RevokeTake(w) \/ RevokeDrop(w))
  <2>1. UNCHANGED <<origin, tokens_by_code>>
    BY <1>2 DEF Next, Handler, vars, Par, CredentialOffer, DecisionApprove, DecisionDeny,
       TokenAccept, TokenReject, TokenConsume, DecisionResolve, TokenLookup,
       RedeemPreAuthorizedCode, ExpireAccessToken, Tick, store, history
  <2>2. DOMAIN access_tokens' \subseteq DOMAIN access_tokens
    BY <1>2 DEF Next, Handler, vars, Par, CredentialOffer, DecisionApprove, DecisionDeny,
       TokenAccept, TokenReject, TokenConsume, DecisionResolve, TokenLookup,
       RedeemPreAuthorizedCode, ExpireAccessToken, Tick, Drop, store
  <2>3. UNCHANGED job \/ \E w \in Workers : job[w].at \notin {"record", "drop"} /\ \E j : Goto(w, j)
    <3>1. ASSUME NEW w \in Workers, Handler(w)
          PROVE  job[w].at \notin {"record", "drop"} /\ \E j : Goto(w, j)
      BY <1>2, <3>1 DEF Handler, DecisionApprove, DecisionDeny, TokenAccept, TokenReject,
         TokenConsume
    <3>2. ASSUME NEW w \in Workers, NEW uri \in Uris, NEW client \in Clients,
                 DecisionResolve(w, uri, client)
          PROVE  job[w].at \notin {"record", "drop"} /\ \E j : Goto(w, j)
      BY <3>2 DEF DecisionResolve
    <3>3. ASSUME NEW w \in Workers, NEW r \in TokenRequests, NEW code \in Codes,
                 TokenLookup(w, r, code)
          PROVE  job[w].at \notin {"record", "drop"} /\ \E j : Goto(w, j)
      BY <3>3 DEF TokenLookup
    <3>4. ASSUME NEW w \in Workers, NEW r \in TokenRequests, NEW code \in PreAuthCodes,
                 RedeemPreAuthorizedCode(w, r, code)
          PROVE  job[w].at \notin {"record", "drop"} /\ \E j : Goto(w, j)
      BY <3>4 DEF RedeemPreAuthorizedCode
    <3> QED
      BY <3>1, <3>2, <3>3, <3>4
      DEF Next, vars, Par, CredentialOffer, ExpireAccessToken, Tick
  <2>4. \A v \in Workers : job'[v] = job[v] \/ job[v].at \notin {"record", "drop"}
    BY <2>3 DEF Goto, TypeOK
  <2>5. ASSUME NEW t \in DOMAIN access_tokens', FromCode(t) PROVE Found(t)'
    <3>1. Found(t)
      BY <2>2, <2>5 DEF LiveIsFound
    <3> QED
      BY <2>1, <2>4, <3>1 DEF Found
  <2> QED
    BY <2>1, <2>5 DEF LiveIsFound, FromCode
<1> QED
  BY <1>1, <1>2

\* Every live token minted with a code is in reach of a replay, or its code has
\* minted another: the token a replay should revoke is lost only when redemptions
\* overlap (token.rs, record_token_for_code; state.rs, revoke_tokens_for_code).
THEOREM LiveTokensAreRevocable == Spec => []LiveTokenIsRevocable
<1>1. Init => LiveIsFound
  BY DEF Init, LiveIsFound, EmptyMap
<1>2. TypeOK /\ JobsKnown /\ TracedInv /\ LiveIsFound /\ [Next]_vars => LiveIsFound'
  BY StepFound
<1>3. LiveIsFound => LiveTokenIsRevocable
  BY DEF LiveIsFound, Found, LiveTokenIsRevocable
<1> QED
  BY <1>1, <1>2, <1>3, TypeCorrect, TracedInvariant, PTL DEF Spec

-------------------------------------------------------------------------------
\* The composition implements the authorization server.

\* What the credential endpoint can do to the tokens: remove one that has expired.
ReadsTokens ==
    \/ UNCHANGED access_tokens
    \/ \E t \in DOMAIN access_tokens :
         /\ now >= access_tokens[t].expires_at
         /\ access_tokens' = Drop(access_tokens, t)

LEMMA CredentialStepReads ==
    ASSUME TypeOK, CredentialStep
    PROVE  ReadsTokens /\ UNCHANGED <<authorization_vars, now>>
<1>1. ASSUME NEW t, access_tokens' = CE!TokensAfterRead(t) PROVE ReadsTokens
  <2>1. CASE t \in DOMAIN access_tokens /\ ~CE!Live(t)
    <3>1. access_tokens[t].expires_at \in Nat /\ now \in Nat
      BY <2>1 DEF TypeOK, TokenEntry
    <3>2. now >= access_tokens[t].expires_at
      BY <2>1, <3>1 DEF CE!Live
    <3> QED
      BY <1>1, <2>1, <3>2 DEF CE!TokensAfterRead, ReadsTokens, CE!Drop, Drop
  <2>2. CASE ~(t \in DOMAIN access_tokens /\ ~CE!Live(t))
    BY <1>1, <2>2 DEF CE!TokensAfterRead, ReadsTokens
  <2> QED
    BY <2>1, <2>2
<1>2. UNCHANGED authorization_vars
  BY DEF CredentialStep
<1>3. CASE CE!Nonce
  BY <1>3, <1>2 DEF CE!Nonce, ReadsTokens
<1>4. ASSUME NEW t \in Tokens, CE!AuthorizeExpired(t)
      PROVE  ReadsTokens /\ UNCHANGED now
  BY <1>1, <1>4 DEF CE!AuthorizeExpired
<1>5. ASSUME NEW w \in CredentialWorkers, CE!ProcessRefused(w)
      PROVE  ReadsTokens /\ UNCHANGED now
  BY <1>1, <1>5 DEF CE!ProcessRefused
<1>6. ASSUME NEW w \in CredentialWorkers, CE!Handler(w)
      PROVE  ReadsTokens /\ UNCHANGED now
  BY <1>5, <1>6 DEF CE!Handler, CE!Process, CE!ConsumeNonce, CE!IssueOne, CE!IssueFull,
                    CE!IssueFailed, ReadsTokens
<1>7. ASSUME NEW w \in CredentialWorkers, NEW r \in CredentialRequests, CE!Authorize(w, r)
      PROVE  ReadsTokens /\ UNCHANGED now
  BY <1>7 DEF CE!Authorize, ReadsTokens
<1> QED
  BY <1>2, <1>3, <1>4, <1>6, <1>7 DEF CredentialStep, CE!Nonce

LEMMA StepImplements ==
    ASSUME TypeOK, [SystemNext]_system_vars
    PROVE  [Next]_vars
<1>1. CASE AuthorizationStep
  BY <1>1 DEF AuthorizationStep, Next
<1>2. CASE CredentialStep
  <2>1. ReadsTokens /\ UNCHANGED <<authorization_vars, now>>
    BY <1>2, CredentialStepReads
  <2>2. CASE UNCHANGED access_tokens
    BY <2>1, <2>2 DEF authorization_vars, vars, store, history
  <2>3. ASSUME NEW t \in DOMAIN access_tokens, now >= access_tokens[t].expires_at,
               access_tokens' = Drop(access_tokens, t)
        PROVE  Next
    <3>1. t \in Tokens
      BY <2>3 DEF TypeOK
    <3>2. ExpireAccessToken(t)
      BY <2>1, <2>3 DEF ExpireAccessToken, authorization_vars, history
    <3> QED
      BY <3>1, <3>2 DEF Next
  <2> QED
    BY <2>1, <2>2, <2>3 DEF ReadsTokens
<1>3. CASE SystemTick
  BY <1>3 DEF SystemTick, Next
<1>4. CASE UNCHANGED system_vars
  BY <1>4 DEF system_vars
<1> QED
  BY <1>1, <1>2, <1>3, <1>4 DEF SystemNext

\* The issuer, credential endpoint included, behaves as the authorization server
\* of AuthorizationFlow: the endpoint does to the shared store only what
\* get_access_grant does, and so every theorem of AuthorizationFlow holds of it.
THEOREM SystemImplementsAuthorization == SystemSpec => Spec
<1>1. SystemInit => Init /\ TypeOK /\ JobsKnown
  BY DEF SystemInit, Init, TypeOK, JobsKnown, KnownJob, EmptyMap, Job, IdleJob
<1>2. TypeOK /\ JobsKnown /\ [SystemNext]_system_vars => (TypeOK /\ JobsKnown)'
  BY StepImplements, StepTypeOK
<1>3. TypeOK /\ [SystemNext]_system_vars => [Next]_vars
  BY StepImplements
<1> QED
  BY <1>1, <1>2, <1>3, PTL DEF SystemSpec, Spec

\* In the whole issuer too, whatever the credential endpoint does meanwhile, codes
\* and tokens of one request come from overlapping requests only, and a replay
\* finds the live token of a code that has minted once.
THEOREM SystemBoundsOverlap ==
    SystemSpec => [](OneCodePerWorker /\ OneTokenPerWorker /\ LiveTokenIsRevocable)
BY SystemImplementsAuthorization, CodesNeedOverlap, TokensNeedOverlap,
   LiveTokensAreRevocable, PTL

-------------------------------------------------------------------------------
\* Credentials and consent.

\* A request that was let in with the grant of its token, and one whose
\* configuration that grant covers.  A token's origin is for ever, so this
\* outlives the token.
LetIn(r) ==
    /\ r.token \in DOMAIN origin
    /\ CE!SchemeAccepted(origin[r.token].grant, r)

Covered(r, config) == LetIn(r) /\ config \in origin[r.token].grant.configs

CoveredJob(j) ==
    /\ j.at \in {"idle", "process", "nonces", "issue"}
    /\ j.at = "process" => LetIn(j.request)
    /\ j.at \in {"nonces", "issue"} => Covered(j.request, j.config)
    /\ j.at = "nonces" => DOMAIN j = {"at", "request", "config", "pending"}
    /\ j.at = "issue" => DOMAIN j = {"at", "request", "config", "credentials"}

JobsCovered ==
    /\ DOMAIN credential_job = CredentialWorkers
    /\ \A w \in CredentialWorkers : CoveredJob(credential_job[w])

ResponsesCovered ==
    /\ \E S : responses \in Seq(S)
    /\ \A i \in 1..Len(responses) : Covered(responses[i].request, responses[i].config)

CoveredInv == JobsCovered /\ ResponsesCovered

\* Origins never change.
LEMMA CoveredKept ==
    ASSUME OriginKept, NEW r, NEW config
    PROVE  /\ LetIn(r) => LetIn(r)'
           /\ Covered(r, config) => Covered(r, config)'
<1>1. LetIn(r) => LetIn(r)'
  BY DEF OriginKept, LetIn, CE!SchemeAccepted
<1>2. LetIn(r) => origin'[r.token] = origin[r.token]
  BY DEF OriginKept, LetIn
<1> QED
  BY <1>1, <1>2 DEF Covered

LEMMA CoveredJobKept ==
    ASSUME OriginKept, NEW j, CoveredJob(j)
    PROVE  CoveredJob(j)'
BY CoveredKept DEF CoveredJob

\* One handler of the credential endpoint moves on.
LEMMA CoveredMoves ==
    ASSUME OriginKept, JobsCovered, NEW w \in CredentialWorkers, NEW j, CE!Goto(w, j), CoveredJob(j)
    PROVE  JobsCovered'
<1>1. /\ DOMAIN credential_job' = CredentialWorkers
      /\ credential_job'[w] = j
      /\ \A v \in CredentialWorkers \ {w} : credential_job'[v] = credential_job[v]
  BY DEF CE!Goto, JobsCovered
<1>2. ASSUME NEW v \in CredentialWorkers PROVE CoveredJob(credential_job[v])'
  <2>1. PICK k : k = credential_job'[v] /\ CoveredJob(k)
    BY <1>1 DEF JobsCovered
  <2>2. CoveredJob(k)'
    BY <2>1, CoveredJobKept
  <2> QED
    BY <2>1, <2>2
<1> QED
  BY <1>1, <1>2 DEF JobsCovered

\* ... or none does.
LEMMA CoveredRests ==
    ASSUME OriginKept, JobsCovered, UNCHANGED credential_job
    PROVE  JobsCovered'
<1>1. ASSUME NEW v \in CredentialWorkers PROVE CoveredJob(credential_job[v])'
  <2>1. PICK k : k = credential_job'[v] /\ CoveredJob(k)
    BY DEF JobsCovered
  <2>2. CoveredJob(k)'
    BY <2>1, CoveredJobKept
  <2> QED
    BY <2>1, <2>2
<1> QED
  BY <1>1 DEF JobsCovered

LEMMA ResponsesRest ==
    ASSUME OriginKept, ResponsesCovered, UNCHANGED responses
    PROVE  ResponsesCovered'
<1>1. ASSUME NEW i \in 1..Len(responses)
      PROVE  Covered(responses[i].request, responses[i].config)'
  <2>1. PICK r, config : /\ r = responses'[i].request /\ config = responses'[i].config
                         /\ Covered(r, config)
    BY DEF ResponsesCovered
  <2>2. Covered(r, config)'
    BY <2>1, CoveredKept
  <2> QED
    BY <2>1, <2>2
<1> QED
  BY <1>1 DEF ResponsesCovered

\* A response goes out.
LEMMA ResponsesGrow ==
    ASSUME OriginKept, ResponsesCovered, NEW resp, Covered(resp.request, resp.config),
           responses' = Append(responses, resp)
    PROVE  ResponsesCovered'
<1>1. PICK S : responses \in Seq(S)
  BY DEF ResponsesCovered
<1>2. responses \in Seq(S \cup {resp}) /\ resp \in S \cup {resp}
  BY <1>1, SeqMonotonic
<1>3. Len(responses) \in Nat
  BY <1>1, LenProperties
<1>4. /\ responses' \in Seq(S \cup {resp})
      /\ Len(responses') = Len(responses) + 1
      /\ \A i \in 1..Len(responses) : responses'[i] = responses[i]
      /\ responses'[Len(responses) + 1] = resp
  BY <1>2, <1>3
<1>5. \A i \in 1..Len(responses') : i \in 1..Len(responses) \/ i = Len(responses) + 1
  BY <1>3, <1>4
<1>6. ASSUME NEW i \in 1..Len(responses')
      PROVE  Covered(responses[i].request, responses[i].config)'
  <2>1. PICK r, config : /\ r = responses'[i].request /\ config = responses'[i].config
                         /\ Covered(r, config)
    BY <1>4, <1>5 DEF ResponsesCovered
  <2>2. Covered(r, config)'
    BY <2>1, CoveredKept
  <2> QED
    BY <2>1, <2>2
<1> QED
  BY <1>4, <1>6 DEF ResponsesCovered

\* A live token's grant is the one in its origin.
LEMMA LiveGrant ==
    ASSUME TypeOK, TracedInv, NEW t, CE!Live(t)
    PROVE  t \in DOMAIN origin /\ access_tokens[t].grant = origin[t].grant
BY DEF CE!Live, TypeOK, TracedInv

\* resolve_configuration only finds what the grant covers.
LEMMA ResolvedIsCovered ==
    ASSUME NEW grant, NEW r, CE!ResolveConfiguration(grant, r) # NONE
    PROVE  CE!ResolveConfiguration(grant, r) \in grant.configs
<1> DEFINE identifiers == CE!CredentialIdentifiers(r.token, grant)
           named == IF r.credential_identifier # NONE
                    THEN {i[2] : i \in identifiers \cap {r.credential_identifier}}
                    ELSE IF identifiers = {} THEN {r.credential_configuration_id} ELSE {}
           covered == named \cap CE!SupportedConfigs \cap grant.configs
<1>1. covered # {} /\ CE!ResolveConfiguration(grant, r) = CHOOSE c \in covered : TRUE
  BY DEF CE!ResolveConfiguration
<1>2. (CHOOSE c \in covered : TRUE) \in covered
  BY <1>1
<1> QED
  BY <1>1, <1>2

LEMMA CredentialStepCovered ==
    ASSUME TypeOK, TracedInv, CoveredInv, OriginKept, CredentialStep
    PROVE  CoveredInv'
<1> USE DEF CoveredInv
<1>1. CASE CE!Nonce
  BY <1>1, CoveredRests, ResponsesRest DEF CE!Nonce
<1>2. ASSUME NEW t \in Tokens, CE!AuthorizeExpired(t) PROVE CoveredInv'
  BY <1>2, CoveredRests, ResponsesRest DEF CE!AuthorizeExpired, CE!history
<1>3. ASSUME NEW w \in CredentialWorkers, NEW r \in CredentialRequests, CE!Authorize(w, r)
      PROVE  CoveredInv'
  <2>1. PICK j : CE!Goto(w, j) /\ j.at = "process" /\ j.request = r
    BY <1>3 DEF CE!Authorize
  <2>2. LetIn(r)
    BY <1>3, LiveGrant DEF CE!Authorize, LetIn
  <2>3. CoveredJob(j)
    BY <2>1, <2>2 DEF CoveredJob
  <2> QED
    BY <1>3, <2>1, <2>3, CoveredMoves, ResponsesRest DEF CE!Authorize, CE!history
<1>4. ASSUME NEW w \in CredentialWorkers, CE!Process(w) PROVE CoveredInv'
  <2>1. PICK r, config : /\ r = credential_job[w].request /\ config = CE!Resolved(r)
    OBVIOUS
  <2>2. PICK j : /\ CE!Goto(w, j) /\ j.at = "nonces" /\ j.request = r /\ j.config = config
                 /\ DOMAIN j = {"at", "request", "config", "pending"}
    BY <1>4, <2>1 DEF CE!Process
  <2>3. LetIn(r) /\ CE!Live(r.token) /\ config # NONE
    BY <1>4, <2>1 DEF CE!Process, CE!Processable, JobsCovered, CoveredJob
  <2>4. config \in origin[r.token].grant.configs
    BY <2>1, <2>3, LiveGrant, ResolvedIsCovered DEF CE!Resolved
  <2>5. CoveredJob(j)
    BY <2>2, <2>3, <2>4 DEF CoveredJob, Covered
  <2> QED
    BY <1>4, <2>2, <2>5, CoveredMoves, ResponsesRest DEF CE!Process, CE!history
<1>5. ASSUME NEW w \in CredentialWorkers, CE!ConsumeNonce(w) PROVE CoveredInv'
  <2> DEFINE old == credential_job[w]
  <2>1. PICK n : CE!Goto(w, IF ~CE!NonceValid(n) THEN CE!Idle
                            ELSE IF old.pending # {n}
                                 THEN [old EXCEPT !.pending = @ \ {n}]
                                 ELSE [at |-> "issue", request |-> old.request,
                                       config |-> old.config, credentials |-> <<>>])
    BY <1>5 DEF CE!ConsumeNonce
  <2>2. old.at = "nonces" /\ DOMAIN old = {"at", "request", "config", "pending"}
        /\ Covered(old.request, old.config)
    BY <1>5 DEF CE!ConsumeNonce, JobsCovered, CoveredJob
  <2>3. CoveredJob(CE!Idle)
    BY DEF CoveredJob, CE!Idle
  <2>4. CoveredJob([old EXCEPT !.pending = @ \ {n}])
    <3> DEFINE k == [old EXCEPT !.pending = @ \ {n}]
    <3>1. /\ DOMAIN k = DOMAIN old /\ k.at = old.at
          /\ k.request = old.request /\ k.config = old.config
      BY <2>2
    <3> HIDE DEF k
    <3>2. CoveredJob(k)
      BY <2>2, <3>1 DEF CoveredJob
    <3> QED
      BY <3>2 DEF k
  <2>5. CoveredJob([at |-> "issue", request |-> old.request, config |-> old.config,
                    credentials |-> <<>>])
    BY <2>2 DEF CoveredJob
  <2>6. PICK j : CE!Goto(w, j) /\ CoveredJob(j)
    BY <2>1, <2>3, <2>4, <2>5
  <2> QED
    BY <1>5, <2>6, CoveredMoves, ResponsesRest DEF CE!ConsumeNonce, CE!history
<1>6. ASSUME NEW w \in CredentialWorkers, CE!IssueOne(w) PROVE CoveredInv'
  <2> DEFINE old == credential_job[w]
  <2>1. PICK done :
          \/ /\ responses' = Append(responses, [request |-> old.request, config |-> old.config,
                                                credentials |-> done])
             /\ CE!Goto(w, CE!Idle)
          \/ /\ CE!Goto(w, [old EXCEPT !.credentials = done])
             /\ UNCHANGED responses
    BY <1>6 DEF CE!IssueOne
  <2>2. old.at = "issue" /\ DOMAIN old = {"at", "request", "config", "credentials"}
        /\ Covered(old.request, old.config)
    BY <1>6 DEF CE!IssueOne, JobsCovered, CoveredJob
  <2>3. CASE /\ responses' = Append(responses, [request |-> old.request, config |-> old.config,
                                                credentials |-> done])
             /\ CE!Goto(w, CE!Idle)
    <3>1. CoveredJob(CE!Idle)
      BY DEF CoveredJob, CE!Idle
    <3>2. PICK resp : /\ responses' = Append(responses, resp)
                      /\ resp.request = old.request /\ resp.config = old.config
      BY <2>3
    <3>3. PICK j : CE!Goto(w, j) /\ CoveredJob(j)
      BY <2>3, <3>1
    <3> QED
      BY <2>2, <3>2, <3>3, CoveredMoves, ResponsesGrow
  <2>4. CASE /\ CE!Goto(w, [old EXCEPT !.credentials = done])
             /\ UNCHANGED responses
    <3> DEFINE k == [old EXCEPT !.credentials = done]
    <3>1. /\ DOMAIN k = DOMAIN old /\ k.at = old.at
          /\ k.request = old.request /\ k.config = old.config
      BY <2>2
    <3> HIDE DEF k
    <3>2. CoveredJob(k)
      BY <2>2, <3>1 DEF CoveredJob
    <3>3. PICK j : CE!Goto(w, j) /\ CoveredJob(j)
      BY <2>4, <3>2 DEF k
    <3> QED
      BY <2>4, <3>3, CoveredMoves, ResponsesRest
  <2> QED
    BY <2>1, <2>3, <2>4
<1>7. ASSUME NEW w \in CredentialWorkers,
             CE!ProcessRefused(w) \/ CE!IssueFull(w) \/ CE!IssueFailed(w)
      PROVE  CoveredInv'
  <2>1. CoveredJob(CE!Idle)
    BY DEF CoveredJob, CE!Idle
  <2>2. CE!Goto(w, CE!Idle) /\ UNCHANGED responses
    BY <1>7 DEF CE!ProcessRefused, CE!IssueFull, CE!IssueFailed, CE!history
  <2>3. PICK j : CE!Goto(w, j) /\ CoveredJob(j)
    BY <2>1, <2>2
  <2> QED
    BY <2>2, <2>3, CoveredMoves, ResponsesRest
<1> QED
  BY <1>1, <1>2, <1>3, <1>4, <1>5, <1>6, <1>7 DEF CredentialStep, CE!Handler

LEMMA StepCovered ==
    ASSUME TypeOK, TracedInv, CoveredInv, [SystemNext]_system_vars
    PROVE  CoveredInv'
<1>1. OriginKept
  BY StepImplements, StepOriginKept
<1>2. CASE CredentialStep
  BY <1>1, <1>2, CredentialStepCovered
<1>3. CASE AuthorizationStep \/ SystemTick \/ UNCHANGED system_vars
  <2>1. UNCHANGED <<credential_job, responses>>
    BY <1>3 DEF AuthorizationStep, SystemTick, system_vars, credential_vars
  <2> QED
    BY <1>1, <2>1, CoveredRests, ResponsesRest DEF CoveredInv
<1> QED
  BY <1>2, <1>3 DEF SystemNext

LEMMA CoveredInvariant == SystemSpec => []CoveredInv
<1>1. SystemInit => CoveredInv
  <2> SUFFICES ASSUME SystemInit PROVE CoveredInv
    OBVIOUS
  <2>1. responses = <<>> /\ credential_job = [w \in CredentialWorkers |-> CE!Idle]
    BY DEF SystemInit, CE!InitEndpoint
  <2>2. responses \in Seq({}) /\ Len(responses) = 0
    BY <2>1
  <2>3. CoveredJob(CE!Idle)
    BY DEF CoveredJob, CE!Idle
  <2> QED
    BY <2>1, <2>2, <2>3 DEF CoveredInv, JobsCovered, ResponsesCovered
<1>2. TypeOK /\ TracedInv /\ CoveredInv /\ [SystemNext]_system_vars => CoveredInv'
  BY StepCovered
<1> QED
  BY <1>1, <1>2, SystemImplementsAuthorization, TypeCorrect, TracedInvariant, PTL DEF SystemSpec

\* Every credential handed out goes back, through its access token and the code
\* the token came from, to a request the user approved or an offer the issuer made
\* for that configuration, and to the key bound on the way, whatever was revoked,
\* expired or replayed while the request was handled (authorization.rs, token.rs
\* and credential.rs together).
THEOREM CredentialsGoBackToConsent == SystemSpec => []CredentialsTraceToConsent
<1>1. TypeOK /\ TokensMatch /\ OfferedInv /\ CoveredInv => CredentialsTraceToConsent
  <2> SUFFICES ASSUME TypeOK, TokensMatch, OfferedInv, CoveredInv, NEW i \in 1..Len(responses)
               PROVE  LET t == responses[i].request.token
                      IN  /\ t \in DOMAIN origin
                          /\ responses[i].config \in Consented(t)
                          /\ FromCode(t) =>
                               /\ responses[i].request.is_dpop
                               /\ SessionOf(t).dpop_jkt \in {NONE, responses[i].request.jkt}
                               /\ SessionOf(t).consumed
    BY DEF CredentialsTraceToConsent
  <2> DEFINE r == responses[i].request
             t == responses[i].request.token
  <2>1. Covered(r, responses[i].config)
    BY DEF CoveredInv, ResponsesCovered
  <2>2. /\ t \in DOMAIN origin /\ CE!SchemeAccepted(origin[t].grant, r)
        /\ responses[i].config \in origin[t].grant.configs
    BY <2>1 DEF Covered, LetIn
  <2> HIDE DEF r, t
  <2>3. CASE FromCode(t)
    <3>1. Owed(origin[t].code, origin[t].client, origin[t].grant) /\ SessionOf(t).consumed
      BY <2>2, <2>3 DEF TokensMatch
    <3>2. /\ origin[t].grant.configs = SessionOf(t).configs
          /\ origin[t].grant.dpop_jkt # NONE
          /\ SessionOf(t).dpop_jkt \in {NONE, origin[t].grant.dpop_jkt}
      BY <3>1 DEF Owed, SessionOf
    <3>3. r.is_dpop /\ r.jkt = origin[t].grant.dpop_jkt
      BY <2>2, <3>2 DEF CE!SchemeAccepted
    <3> QED
      BY <2>2, <2>3, <3>1, <3>2, <3>3 DEF Consented, r, t
  <2>4. CASE ~FromCode(t)
    <3>1. origin[t].code \in PreAuthCodes
      BY <2>2, <2>4 DEF FromCode, TypeOK, Origin
    <3>2. origin[t].grant.configs = pre_auth_codes[origin[t].code].configs
      BY <2>2, <3>1 DEF OfferedInv, Offered
    <3> QED
      BY <2>2, <2>4, <3>2 DEF Consented, t
  <2> QED
    BY <2>3, <2>4
<1> QED
  BY <1>1, SystemImplementsAuthorization, TypeCorrect, MatchInvariant, OfferedInvariant,
     CoveredInvariant, PTL

===============================================================================
