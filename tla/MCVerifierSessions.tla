--------------------------- MODULE MCVerifierSessions ---------------------------
(***************************************************************************)
(* Two credentials and what is made of them: presentations in order, for   *)
(* each session and for another verifier; and presentations with a         *)
(* disclosure or a key binding that is not theirs.                         *)
(***************************************************************************)
EXTENDS VerifierSessions, TLC

MCSymmetry == Permutations(Workers)

MCIssuerKey == P256("issuer")
MCQuery == [name \in {"given_name"} |-> NONE]

\* A query for a credential type, with no claims.
MCTypeQuery == EmptyMap

Subject == <<<<"given_name", "John">>, <<"family_name", "Doe">>>>

Credential(holder_jwk, salt, at) ==
    IssueSdJwtVc(MCIssuerKey, "issuer", "identity", EmptyMap, Subject, holder_jwk, NONE, NONE,
                 salt, at)

\* One bound to a P-256 key and valid from the start; one to an Ed25519 key, later.
C1 == Credential(P256("h1"), 1, 0)
C2 == Credential(Ed25519("h2"), 2, DAY_SECS)

\* A wallet shows some of a credential's disclosures.
Present(credential, shown, holder_jwk, nonce, audience) ==
    LET parts == <<credential[1]>> \o [i \in 1..Len(shown) |-> credential[shown[i] + 1]]
    IN  Append(parts, JwtPart(CreateKeyBindingJwt(holder_jwk, nonce, audience,
                                                  SdHash(Append(parts, NoPart)))))

Given(id) == Present(C1, <<1>>, P256("h1"), NonceOf(id), ClientId)
Both == Present(C1, <<1, 2>>, P256("h1"), NonceOf("s1"), ClientId)
Later == Present(C2, <<1>>, Ed25519("h2"), NonceOf("s2"), ClientId)

KeyBindingOf(vp) == vp[Len(vp)]

MCVpTokens ==
    [given_s1 |-> Given("s1"), given_s2 |-> Given("s2"), later |-> Later, both |-> Both,
     family |-> Present(C1, <<2>>, P256("h1"), NonceOf("s1"), ClientId),
     elsewhere |-> Present(C1, <<1>>, P256("h1"), NonceOf("s1"), "other"),
     \* No key binding; a disclosure twice; a disclosure of the other credential;
     unbound |-> C1,
     twice |-> Present(C1, <<1, 1>>, P256("h1"), NonceOf("s1"), ClientId),
     mixed |-> Present(<<C1[1], C2[2]>>, <<1>>, P256("h1"), NonceOf("s1"), ClientId),
     \* another key's binding; a disclosure added, and one taken out, after binding.
     not_mine |-> Present(C1, <<1>>, Ed25519("h2"), NonceOf("s1"), ClientId),
     added |-> <<C1[1], C1[2], C1[3], KeyBindingOf(Given("s1"))>>,
     taken |-> <<C1[1], C1[2], KeyBindingOf(Both)>>]

Of(credential, nonce, audience, claims) ==
    [nonce |-> nonce, audience |-> audience,
     claims |-> [n \in claims |-> IF n = "given_name" THEN "John" ELSE "Doe"],
     valid_from |-> credential[1].jwt.payload.nbf, valid_until |-> credential[1].jwt.payload.exp]

MCMade ==
    [given_s1 |-> Of(C1, NonceOf("s1"), ClientId, {"given_name"}),
     given_s2 |-> Of(C1, NonceOf("s2"), ClientId, {"given_name"}),
     later |-> Of(C2, NonceOf("s2"), ClientId, {"given_name"}),
     both |-> Of(C1, NonceOf("s1"), ClientId, {"given_name", "family_name"}),
     family |-> Of(C1, NonceOf("s1"), ClientId, {"family_name"}),
     elsewhere |-> Of(C1, NonceOf("s1"), "other", {"given_name"})]

\* The issuer-signed part of a credential alone: no '~'.
MCBareJwt == [bare |-> <<C1[1]>>]
MCNothingMade == EmptyMap

===============================================================================
