--------------------------------- MODULE SdJwt ---------------------------------
(***************************************************************************)
(* SD-JWT VCs (crypto crate, sd_jwt.rs; types crate, credentials.rs):      *)
(* issuance, parsing, presentation and verification, with the symbolic     *)
(* signatures of Jose.  The compact form is the sequence of the parts      *)
(* between its '~'s.  An operator that can fail yields NONE.               *)
(***************************************************************************)
EXTENDS Jose, Integers, Sequences

CONSTANTS
    DAY_SECS,           \* ticks in a day
    VALIDITY_DAYS       \* how long a credential is good for

ASSUME SdJwtAssumption == DAY_SECS \in Nat \ {0} /\ VALIDITY_DAYS \in Nat

\* The parts: a JWT (the only one with dots), a disclosure, nothing.
JwtPart(jwt) == [kind |-> "jwt", jwt |-> jwt]
DisclosurePart(disclosure) == [kind |-> "disclosure", disclosure |-> disclosure]
NoPart == [kind |-> "empty"]

\* Disclosure::new, and the hash that goes into _sd.
Disclosure(salt, name, value) == [salt |-> salt, claim_name |-> name, claim_value |-> value]
DisclosureHash(disclosure) == <<"sha-256", disclosure>>

\* Time claims are rounded down to the day.
Issued(at) == (at \div DAY_SECS) * DAY_SECS

\* issue_sd_jwt_vc_with_x5c.  disclosable is a sequence of name and value, in the
\* order the HashMap yields them; salt makes this credential's salts new.
IssueSdJwtVc(key, iss, vct, plain, disclosable, cnf, status, x5c, salt, at) ==
    LET disclosures == [i \in 1..Len(disclosable) |->
                          Disclosure(<<salt, i>>, disclosable[i][1], disclosable[i][2])]
        payload == [iss |-> iss, vct |-> vct, iat |-> Issued(at), nbf |-> Issued(at),
                    exp |-> Issued(at) + DAY_SECS * VALIDITY_DAYS,
                    sd |-> {DisclosureHash(disclosures[i]) : i \in DOMAIN disclosures},
                    cnf |-> cnf, status |-> status, plain |-> plain]
        header == [BuildHeader(key, "dc+sd-jwt") EXCEPT !.x5c = x5c]
    IN  <<JwtPart(SignCompact(key, header, payload))>>
          \o [i \in DOMAIN disclosures |-> DisclosurePart(disclosures[i])]
          \o <<NoPart>>

-------------------------------------------------------------------------------
\* SdJwtVc::parse: a JWT in the last place is the key binding JWT, and any other
\* part after the first that is not empty a disclosure.
KeyBindingJwt(parts) ==
    IF Len(parts) > 1 /\ parts[Len(parts)].kind = "jwt" THEN parts[Len(parts)].jwt ELSE NONE

Disclosures(parts) ==
    LET rest == SubSeq(parts, 2, IF KeyBindingJwt(parts) = NONE THEN Len(parts)
                                 ELSE Len(parts) - 1)
        NotEmpty(part) == part.kind # "empty"
    IN  SelectSeq(rest, NotEmpty)

\* Every disclosure decodes, comes once, and is among the hashes the issuer signed.
DisclosuresSigned(disclosures, sd) ==
    /\ \A i, j \in DOMAIN disclosures : disclosures[i] = disclosures[j] => i = j
    /\ \A i \in DOMAIN disclosures :
          /\ disclosures[i].kind = "disclosure"
          /\ DisclosureHash(disclosures[i].disclosure) \in sd

\* The claims shown: a later disclosure of a name replaces an earlier one, and a
\* plain claim replaces both.
MergedClaims(disclosures, plain) ==
    LET name(i) == disclosures[i].disclosure.claim_name
        last(n) == CHOOSE i \in DOMAIN disclosures :
                       name(i) = n /\ \A j \in DOMAIN disclosures : name(j) = n => j <= i
    IN  [n \in DOMAIN plain \cup {name(i) : i \in DOMAIN disclosures} |->
            IF n \in DOMAIN plain THEN plain[n]
            ELSE disclosures[last(n)].disclosure.claim_value]

\* verify_sd_jwt_vc: the claims and the confirmation key, or NONE.
VerifySdJwtVc(parts, key, at) ==
    LET jwt == parts[1].jwt
        disclosures == Disclosures(parts)
        verified ==
            /\ parts[1].kind = "jwt"
            /\ VerifyCompact(jwt, key)
            /\ jwt.payload.nbf <= at /\ at < jwt.payload.exp
            /\ DisclosuresSigned(disclosures, jwt.payload.sd)
    IN  IF verified THEN [claims |-> MergedClaims(disclosures, jwt.payload.plain),
                          holder_jwk |-> jwt.payload.cnf]
        ELSE NONE

-------------------------------------------------------------------------------
\* Key binding.

\* compute_sd_hash, of everything up to the '~' before the key binding JWT.
SdHash(parts) == <<"sha-256", SubSeq(parts, 1, Len(parts) - 1)>>

\* create_key_binding_jwt.
CreateKeyBindingJwt(holder_jwk, nonce, audience, sd_hash) ==
    SignCompact(holder_jwk, BuildHeaderWithJwk(holder_jwk, "kb+jwt"),
                [nonce |-> nonce, aud |-> audience, sd_hash |-> sd_hash])

\* Mutant of VerifyKeyBinding: the nonce is not compared.
VerifyKeyBindingAnyNonce(parts, holder_jwk, nonce, audience) ==
    LET kb == KeyBindingJwt(parts)
    IN  /\ kb # NONE
        /\ kb.header.alg = AlgorithmForJwk(holder_jwk) /\ kb.header.typ = "kb+jwt"
        /\ VerifyWithJwk(holder_jwk, <<kb.header, kb.payload>>, kb.signature)
        /\ kb.payload.aud = audience
        /\ kb.payload.sd_hash = SdHash(parts)

\* Mutant of VerifyKeyBinding: sd_hash is not compared.
VerifyKeyBindingAnyDisclosures(parts, holder_jwk, nonce, audience) ==
    LET kb == KeyBindingJwt(parts)
    IN  /\ kb # NONE
        /\ kb.header.alg = AlgorithmForJwk(holder_jwk) /\ kb.header.typ = "kb+jwt"
        /\ VerifyWithJwk(holder_jwk, <<kb.header, kb.payload>>, kb.signature)
        /\ kb.payload.nonce = nonce
        /\ kb.payload.aud = audience

\* verify_key_binding: signed by the confirmation key, for this nonce and this
\* verifier, over exactly what is presented.
VerifyKeyBinding(parts, holder_jwk, nonce, audience) ==
    LET kb == KeyBindingJwt(parts)
    IN  /\ kb # NONE
        /\ kb.header.alg = AlgorithmForJwk(holder_jwk) /\ kb.header.typ = "kb+jwt"
        /\ VerifyWithJwk(holder_jwk, <<kb.header, kb.payload>>, kb.signature)
        /\ kb.payload.nonce = nonce
        /\ kb.payload.aud = audience
        /\ kb.payload.sd_hash = SdHash(parts)

===============================================================================
