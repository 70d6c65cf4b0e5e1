--------------------------- MODULE StatusPublication ---------------------------
(***************************************************************************)
(* From the status manager to a relying party: the handlers that publish   *)
(* the lists as signed tokens (server crate, routes/status.rs; crypto      *)
(* crate, mdoc.rs), and a relying party (external) that follows the status *)
(* claim of one kind of credential and keeps the token for its ttl.  A     *)
(* handler copies the list under the manager's lock, and reads the clock   *)
(* and signs after releasing it, so revocations come in between; an answer *)
(* may be too late for the relying party, which then asks again.           *)
(*                                                                         *)
(* Times are relative: the clock stands at 0 and a tick moves every        *)
(* recorded instant back by one, down to LONG_AGO.  The certificates'      *)
(* hundreds of days are beyond the minutes this module is about.           *)
(***************************************************************************)
EXTENDS StatusManager, Mdoc

CONSTANTS
    IssuerKey,
    STATUS_LIST_TTL,    \* how long a token may be kept
    TOKEN_LIFETIME,     \* from iat to exp
    HANDLER_TIME,       \* the longest a handler takes from copying to signing
    FETCH_TIMEOUT       \* the longest a relying party waits for an answer

ASSUME PublicationAssumption ==
    /\ {STATUS_LIST_TTL, TOKEN_LIFETIME, HANDLER_TIME, FETCH_TIMEOUT} \subseteq Nat
    /\ STATUS_LIST_TTL < TOKEN_LIFETIME

LONG_AGO == -(STATUS_LIST_TTL + FETCH_TIMEOUT + HANDLER_TIME + 2)

VARIABLES
    followed,           \* the published list the relying party asks for
    fetch,              \* its request under way, through the handler and back
    cache,              \* the entries it keeps, and since when
    revoked_at          \* history: handle -> when it was revoked

publication_vars == <<followed, fetch, cache, revoked_at>>
all_vars == <<vars, publication_vars>>

pki == MintDevelopment(IssuerKey, P256("root"), 0)

InitPublication ==
    /\ Init
    /\ followed \in {"revocation", "mdoc"}
    /\ fetch = NONE /\ cache = NONE
    /\ revoked_at = EmptyMap

\* The handles the followed list speaks about.
Followed == {h \in Handles : (h.format = "mso_mdoc") <=> (followed = "mdoc")}

\* The handles an admin request has revoked; of an SD-JWT VC's two encodings
\* StatusList2021 is written first.
Revoked ==
    {h \in Followed : IF h.format = "mso_mdoc" THEN mdoc[h.idx] = 1
                                               ELSE sl2021["revocation"][h.idx]}

\* The manager's own steps (StatusManager).
Manage ==
    /\ Next
    /\ UNCHANGED <<followed, fetch, cache>>
    /\ revoked_at' = [h \in Revoked' |->
                         IF h \in DOMAIN revoked_at THEN revoked_at[h] ELSE 0]

-------------------------------------------------------------------------------
\* Publishing.

\* The lists as tokens carry them.
BuildTokenStatusList(list_id) == [bits |-> 2, lst |-> tsl[list_id]]
MdocStatusList == [bits |-> 1, lst |-> mdoc]

\* The list is copied under the lock.
CopyList ==
    /\ fetch # NONE /\ fetch.at = "asked"
    /\ fetch' = [at |-> "copied", asked |-> fetch.asked, copied |-> 0,
                 list |-> IF followed = "mdoc" THEN MdocStatusList
                          ELSE BuildTokenStatusList(followed)]
    /\ UNCHANGED <<vars, followed, cache, revoked_at>>

\* Mutant of Ttl: a token may be kept until it expires.
TtlOfLifetime == TOKEN_LIFETIME

\* The ttl claim both handlers write.
Ttl == STATUS_LIST_TTL

\* get_token_status_list.
StatusListJwt(list, iat) ==
    SignCompact(IssuerKey,
                [BuildHeader(IssuerKey, "statuslist+jwt") EXCEPT !.x5c = <<pki.leaf>>],
                [uri |-> "/status/revocation/token", iat |-> iat, exp |-> iat + TOKEN_LIFETIME,
                 ttl |-> Ttl, bits |-> list.bits, lst |-> list.lst])

\* get_mdoc_status_list.
StatusListCwt(list, iat) ==
    SignStatusListCwt([uri |-> "/status/mdoc", iat |-> iat, exp |-> iat + TOKEN_LIFETIME,
                       ttl |-> Ttl, bits |-> list.bits, lst |-> list.lst],
                      <<pki.mdoc_status_signer>>, IssuerKey)

\* iat is the time of signing, not of copying.
SignToken ==
    /\ fetch # NONE /\ fetch.at = "copied"
    /\ fetch' = [at |-> "signed", asked |-> fetch.asked, list |-> fetch.list, iat |-> 0]
    /\ UNCHANGED <<vars, followed, cache, revoked_at>>

-------------------------------------------------------------------------------
\* The relying party (external).

Ask ==
    /\ fetch = NONE /\ cache = NONE
    /\ fetch' = [at |-> "asked", asked |-> 0]
    /\ UNCHANGED <<vars, followed, cache, revoked_at>>

\* What the answer verifies to, or NONE.
Answer ==
    IF followed = "mdoc"
    THEN VerifyStatusListCwt(StatusListCwt(fetch.list, fetch.iat), {pki.trust_anchor}, 0)
    ELSE LET jwt == StatusListJwt(fetch.list, fetch.iat)
             key == ValidateChain(jwt.header.x5c, {pki.trust_anchor}, 0)
         IN  IF key # NONE /\ VerifyCompact(jwt, key) /\ 0 <= jwt.payload.exp
             THEN [uri |-> jwt.payload.uri, bits |-> jwt.payload.bits, lst |-> jwt.payload.lst]
             ELSE NONE

Receive ==
    /\ fetch # NONE /\ fetch.at = "signed"
    /\ cache' = IF Answer # NONE THEN [lst |-> Answer.lst, received |-> 0] ELSE NONE
    /\ fetch' = NONE
    /\ UNCHANGED <<vars, followed, revoked_at>>

GiveUp ==
    /\ fetch # NONE /\ fetch.asked = -FETCH_TIMEOUT
    /\ fetch' = NONE
    /\ UNCHANGED <<vars, followed, cache, revoked_at>>

\* A handler does not wait between copying and signing, and the relying party
\* gives up on time and drops a token on time.
Back(t) == IF t > LONG_AGO THEN t - 1 ELSE LONG_AGO

Tick ==
    /\ fetch # NONE => fetch.asked > -FETCH_TIMEOUT
    /\ fetch # NONE /\ fetch.at = "copied" => fetch.copied > -HANDLER_TIME
    /\ fetch' = IF fetch = NONE THEN NONE
                ELSE [f \in DOMAIN fetch |-> IF f \in {"asked", "copied", "iat"}
                                             THEN Back(fetch[f]) ELSE fetch[f]]
    /\ cache' = IF cache = NONE \/ cache.received = -Ttl THEN NONE
                ELSE [cache EXCEPT !.received = Back(@)]
    /\ revoked_at' = [h \in DOMAIN revoked_at |-> Back(revoked_at[h])]
    /\ UNCHANGED <<vars, followed>>

PublicationNext ==
    \/ Manage
    \/ CopyList \/ SignToken
    \/ Ask \/ Receive \/ GiveUp
    \/ Tick

\* Time passes, the relying party keeps asking, and answers are not late every
\* time it asks.
PublicationSpec ==
    /\ InitPublication /\ [][PublicationNext]_all_vars
    /\ WF_all_vars(Tick) /\ WF_all_vars(Ask)
    /\ SF_all_vars(CopyList) /\ SF_all_vars(SignToken) /\ SF_all_vars(Receive)

-------------------------------------------------------------------------------
\* Properties.

\* What a copy of the followed list says.
SaysValid(lst, h) == lst[h.idx] = IF followed = "mdoc" THEN 0 ELSE "valid"

\* However its copy and its signature straddle a revocation, a token whose iat is
\* later than the revocation by more than a handler takes shows it; and a relying
\* party that keeps tokens for their ttl has stopped reading valid by the ttl
\* after the revocation, plus the time it waits for an answer.
RevocationSeenInTime ==
    \A h \in DOMAIN revoked_at :
        /\ fetch # NONE /\ fetch.at = "signed"
              => (revoked_at[h] < fetch.iat - HANDLER_TIME => ~SaysValid(fetch.list.lst, h))
        /\ cache # NONE
              => (revoked_at[h] < -(STATUS_LIST_TTL + FETCH_TIMEOUT) => ~SaysValid(cache.lst, h))

\* A revoked credential is found revoked in the end: the relying party comes to
\* hold a token that says so (the status claim's promise, routes/status.rs).
RevokedIsEventuallyRejected ==
    \A h \in Handles :
        h \in DOMAIN revoked_at
            ~> cache # NONE /\ ~SaysValid(cache.lst, h)

===============================================================================
