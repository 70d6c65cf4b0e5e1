------------------------- MODULE MdocCredentials_proofs -------------------------
(***************************************************************************)
(* Proofs about mDLs, for any number of roots, holders, mDLs, requests and *)
(* days: an issued mDL verifies until it expires, and what a relying party *)
(* accepts was presented to it by the holder.                              *)
(***************************************************************************)
EXTENDS MdocCredentials, SequenceTheorems, TLAPS

-------------------------------------------------------------------------------
\* Days.

\* start_of_day goes back less than a day.
LEMMA DayRounded ==
    ASSUME NEW t \in Nat
    PROVE  /\ StartOfDay(t) \in Nat /\ StartOfDay(t) <= t /\ t < StartOfDay(t) + DAY
           /\ \E q \in Nat : StartOfDay(t) = q * DAY
<1> DEFINE q == t \div DAY
<1>1. DAY \in Nat /\ DAY > 0
  BY CertificateAssumption
<1>2. q \in Nat /\ t = DAY * q + (t % DAY) /\ t % DAY \in 0..DAY-1
  BY <1>1
<1>3. q * DAY = DAY * q /\ DAY * q \in Nat
  BY <1>1, <1>2
<1> HIDE DEF q
<1>4. q * DAY \in Nat /\ q * DAY <= t /\ t < q * DAY + DAY
  BY <1>1, <1>2, <1>3
<1>5. StartOfDay(t) = q * DAY
  BY DEF StartOfDay, q
<1> QED
  BY <1>2, <1>4, <1>5

\* A day that starts later than another starts after all of it.
LEMMA DaysApart ==
    ASSUME NEW s \in Nat, NEW t \in Nat, StartOfDay(s) < StartOfDay(t)
    PROVE  s < StartOfDay(t)
<1>1. DAY \in Nat /\ DAY > 0
  BY CertificateAssumption
<1>2. PICK p \in Nat : StartOfDay(s) = p * DAY
  BY DayRounded
<1>3. PICK q \in Nat : StartOfDay(t) = q * DAY
  BY DayRounded
<1>4. p < q
  <2>1. SUFFICES ASSUME q <= p PROVE FALSE
    OBVIOUS
  <2>2. q * DAY <= p * DAY
    BY <1>1, <2>1
  <2>3. p * DAY < q * DAY /\ p * DAY \in Nat /\ q * DAY \in Nat
    BY <1>1, <1>2, <1>3
  <2> QED
    BY <2>2, <2>3
<1>5. (p + 1) * DAY <= q * DAY
  BY <1>1, <1>4
<1>6. (p + 1) * DAY = p * DAY + DAY
  BY <1>1
<1>7. s < StartOfDay(s) + DAY
  BY DayRounded
<1>8. p * DAY \in Nat /\ q * DAY \in Nat
  BY <1>1
<1> QED
  BY <1>1, <1>2, <1>3, <1>5, <1>6, <1>7, <1>8

-------------------------------------------------------------------------------
\* Keys and certificates.

\* The supported keys of the model are P-256, and survive as a COSE key.
LEMMA KeyRoundTrip ==
    ASSUME NEW k \in HolderKeys \cup {IssuerKey}
    PROVE  /\ AlgorithmForJwk(k) = "ES256" /\ k # NONE
           /\ CoseKey(k) = [kty |-> 2, crv |-> 1, x |-> k.x]
           /\ JwkFromCoseKey(CoseKey(k)) = k
<1>1. k = P256(k.x) /\ k # NONE
  BY MdocAssumption
<1>2. AlgorithmForJwk(P256(k.x)) = "ES256"
  BY DEF AlgorithmForJwk, P256
<1>3. CoseKey(k) = [kty |-> 2, crv |-> 1, x |-> k.x]
  BY <1>1, <1>2 DEF CoseKey
<1>4. JwkFromCoseKey([kty |-> 2, crv |-> 1, x |-> k.x]) = P256(k.x)
  BY DEF JwkFromCoseKey
<1> QED
  BY <1>1, <1>2, <1>3, <1>4

Signer(n) == Pki(n).mdoc_signer

\* What mint_development puts into the n-th root and the document signer under it.
LEMMA RootFields ==
    ASSUME NEW n
    PROVE  /\ Root(n).tbs.subject = IACA /\ Root(n).tbs.ca
           /\ Root(n).tbs.jwk = P256(<<"root", n>>)
           /\ Root(n).tbs.not_before = minted[n] - DAY
           /\ Root(n).tbs.not_after = minted[n] + ROOT_DAYS * DAY
BY DEF Root, Pki, MintDevelopment, Certificate, NotBefore

LEMMA SignerFields ==
    ASSUME NEW n
    PROVE  /\ Signer(n).tbs.issuer = IACA /\ ~Signer(n).tbs.ca
           /\ Signer(n).tbs.jwk = IssuerKey /\ Signer(n).tbs.country = COUNTRY
           /\ Signer(n).tbs.not_before = minted[n] - DAY
           /\ Signer(n).tbs.not_after = minted[n] + LEAF_DAYS * DAY
           /\ Signer(n).signature = KeySign(P256(<<"root", n>>), Signer(n).tbs)
BY DEF Signer, Pki, MintDevelopment, Certificate, NotBefore

\* A document signer under one of the roots: only the root it was minted under
\* vouches for it, although all roots have one name (validate_chain).
LEMMA ChainNamesRoot ==
    ASSUME NEW m, NEW roots, NEW at,
           ValidateChain(<<Signer(m)>>, {Root(n) : n \in roots}, at) # NONE
    PROVE  /\ m \in roots
           /\ ValidateChain(<<Signer(m)>>, {Root(n) : n \in roots}, at) = IssuerKey
<1> DEFINE chain == <<Signer(m)>>
<1>1. /\ Len(chain) = 1 /\ chain[1] = Signer(m)
      /\ chain[1].tbs.jwk = IssuerKey
  BY SignerFields
<1>2. /\ \E a \in {Root(n) : n \in roots} : a = chain[1] \/ VerifyIssuedBy(chain[1], a)
      /\ ValidateChain(chain, {Root(n) : n \in roots}, at) = chain[1].tbs.jwk
  BY <1>1 DEF ValidateChain
<1>3. PICK n \in roots : Root(n) = Signer(m) \/ VerifyIssuedBy(Signer(m), Root(n))
  BY <1>1, <1>2
<1> HIDE DEF chain
<1>4. Root(n) # Signer(m)
  BY RootFields, SignerFields
<1>5. Root(n).tbs.jwk = P256(<<"root", n>>)
  BY RootFields
<1>6. P256(<<"root", n>>) = P256(<<"root", m>>)
  <2>1. Signer(m).signature = KeySign(P256(<<"root", n>>), Signer(m).tbs)
    BY <1>3, <1>4, <1>5 DEF VerifyIssuedBy, VerifyWithJwk
  <2>2. Signer(m).signature = KeySign(P256(<<"root", m>>), Signer(m).tbs)
    BY SignerFields
  <2> QED
    BY <2>1, <2>2 DEF KeySign
<1>7. n = m
  BY <1>6 DEF P256
<1> QED
  BY <1>1, <1>2, <1>7 DEF chain

\* The root vouches for its document signer while both are valid.
LEMMA ChainValid ==
    ASSUME NEW n, NEW at \in Int, minted[n] \in Nat,
           minted[n] - DAY <= at, at <= minted[n] + LEAF_DAYS * DAY
    PROVE  ValidateChain(<<Signer(n)>>, {Root(n)}, at) = IssuerKey
<1> DEFINE chain == <<Signer(n)>>
<1>1. Len(chain) = 1 /\ chain[1] = Signer(n) /\ chain[Len(chain)] = Signer(n) /\ chain # <<>>
  OBVIOUS
<1>2. minted[n] + LEAF_DAYS * DAY <= minted[n] + ROOT_DAYS * DAY
  <2>1. DAY \in Nat /\ LEAF_DAYS \in Nat /\ ROOT_DAYS \in Nat /\ LEAF_DAYS <= ROOT_DAYS
    BY CertificateAssumption, MdocAssumption
  <2>2. LEAF_DAYS * DAY <= ROOT_DAYS * DAY
    BY <2>1
  <2>3. LEAF_DAYS * DAY \in Nat /\ ROOT_DAYS * DAY \in Nat
    BY <2>1
  <2> QED
    BY <2>2, <2>3
<1>3. at <= minted[n] + ROOT_DAYS * DAY
  <2>1. LEAF_DAYS * DAY \in Nat /\ ROOT_DAYS * DAY \in Nat
    BY CertificateAssumption
  <2> QED
    BY <1>2, <2>1
<1>4. CheckValidity(Signer(n), at) /\ CheckValidity(Root(n), at)
  <2>1. /\ Signer(n).tbs.not_before = minted[n] - DAY
        /\ Signer(n).tbs.not_after = minted[n] + LEAF_DAYS * DAY
    BY SignerFields
  <2>2. /\ Root(n).tbs.not_before = minted[n] - DAY
        /\ Root(n).tbs.not_after = minted[n] + ROOT_DAYS * DAY
    BY RootFields
  <2> QED
    BY <1>3, <2>1, <2>2 DEF CheckValidity
<1>5. AlgorithmForJwk(P256(<<"root", n>>)) = "ES256"
  BY DEF AlgorithmForJwk, P256
<1>6. VerifyIssuedBy(Signer(n), Root(n))
  <2>1. "ES256" # NONE
    BY NoneAssumption
  <2>2. Signer(n).tbs.issuer = Root(n).tbs.subject
    BY SignerFields, RootFields
  <2>3. Root(n).tbs.jwk = P256(<<"root", n>>)
    BY RootFields
  <2>4. Signer(n).signature = KeySign(P256(<<"root", n>>), Signer(n).tbs)
    BY SignerFields
  <2> QED
    BY <1>5, <2>1, <2>2, <2>3, <2>4 DEF VerifyIssuedBy, VerifyWithJwk
<1>7. AlgorithmForJwk(Signer(n).tbs.jwk) = "ES256" /\ Signer(n).tbs.jwk = IssuerKey
  BY KeyRoundTrip, SignerFields
<1> QED
  BY <1>1, <1>4, <1>6, <1>7 DEF ValidateChain

-------------------------------------------------------------------------------
\* Issued mdocs.

\* The parts of the mdoc issue makes for the idx-th mDL.
ItemsFor(signer, idx, at) ==
    [e \in MDL_ELEMENTS |-> Item(e, MdlElements(signer.tbs.country, StartOfDay(at))[e], idx)]
DigestsFor(signer, idx, at) ==
    LET item == ItemsFor(signer, idx, at)
    IN  [d \in {item[e].digestID : e \in MDL_ELEMENTS} |-> item[d[2]]]
MsoFor(holder_jwk, signer, idx, at) ==
    [version |-> "1.0", digestAlgorithm |-> "SHA-256", docType |-> MDL_DOCTYPE,
     valueDigests |-> DigestsFor(signer, idx, at), deviceKey |-> CoseKey(holder_jwk),
     signed |-> StartOfDay(at), validFrom |-> StartOfDay(at),
     validUntil |-> ValidUntil(StartOfDay(at), signer), status |-> idx]
AuthFor(mso, signer) ==
    CoseSign(IssuerKey, mso, NoHeader, [NoHeader EXCEPT !.x5chain = <<signer>>])

\* issue_mdoc_credential either fails or makes exactly these, with a validity that
\* is not empty.
LEMMA MdocMade ==
    ASSUME NEW k, NEW signer, NEW idx, NEW at \in Nat, MdocFor(k, signer, idx, at) # NONE
    PROVE  /\ StartOfDay(at) < ValidUntil(StartOfDay(at), signer)
           /\ MdocFor(k, signer, idx, at) =
                 [nameSpaces |-> ItemsFor(signer, idx, at),
                  issuerAuth |-> AuthFor(MsoFor(k, signer, idx, at), signer)]
<1> DEFINE today == StartOfDay(at)
           elements == MdlElements(signer.tbs.country, today)
           request == [doc_type |-> MDL_DOCTYPE, elements |-> elements, device_key |-> k,
                       signed |-> today, valid_from |-> today,
                       valid_until |-> ValidUntil(today, signer),
                       status |-> idx, salt |-> idx, x5chain |-> <<signer>>]
<1>1. MdocFor(k, signer, idx, at) = IssueMdoc(request, IssuerKey)
  BY DEF MdocFor
<1>2. DOMAIN elements = MDL_ELEMENTS
  BY DEF MdlElements
<1>3. today \in Nat /\ ~(today > today)
  BY DayRounded
<1>4. ItemsFor(signer, idx, at) =
          [e \in DOMAIN request.elements |-> Item(e, request.elements[e], request.salt)]
  BY <1>2 DEF ItemsFor
<1>5. DOMAIN ItemsFor(signer, idx, at) = MDL_ELEMENTS
  BY DEF ItemsFor
<1> HIDE DEF elements
<1>6. IF today < ValidUntil(today, signer) /\ CoseKey(k) # NONE
      THEN IssueMdoc(request, IssuerKey) =
               [nameSpaces |-> ItemsFor(signer, idx, at),
                issuerAuth |-> AuthFor(MsoFor(k, signer, idx, at), signer)]
      ELSE IssueMdoc(request, IssuerKey) = NONE
  BY <1>3, <1>4, <1>5 DEF IssueMdoc, MsoFor, DigestsFor, AuthFor
<1> QED
  BY <1>1, <1>6

LEMMA AuthFields ==
    ASSUME NEW mso, NEW signer
    PROVE  /\ AuthFor(mso, signer).payload = mso
           /\ IssuerX5chain(AuthFor(mso, signer)) = <<signer>>
           /\ (mso # NONE) => CoseVerify(AuthFor(mso, signer), IssuerKey)
<1>1. AlgorithmForJwk(IssuerKey) = "ES256" /\ "ES256" # NONE
  BY KeyRoundTrip, NoneAssumption
<1>2. AuthFor(mso, signer).unprotected.x5chain = <<signer>>
  BY DEF AuthFor, CoseSign, NoHeader
<1>3. <<signer>> # <<>>
  OBVIOUS
<1>4. AuthFor(mso, signer).payload = mso
  BY DEF AuthFor, CoseSign
<1>5. IssuerX5chain(AuthFor(mso, signer)) = <<signer>>
  BY <1>2, <1>3 DEF IssuerX5chain
<1>6. ASSUME mso # NONE PROVE CoseVerify(AuthFor(mso, signer), IssuerKey)
  BY <1>1, <1>6 DEF AuthFor, CoseSign, CoseVerify, CheckAlgorithm, VerifyWithJwk
<1> QED
  BY <1>4, <1>5, <1>6

LEMMA ItemDigestID ==
    ASSUME NEW e \in MDL_ELEMENTS, NEW signer, NEW idx, NEW at
    PROVE  ItemsFor(signer, idx, at)[e].digestID = <<"id", e>>
BY DEF ItemsFor, Item

\* Items carry the salt of their mdoc, so that no other MSO vouches for them.
LEMMA ItemSalt ==
    ASSUME NEW e \in MDL_ELEMENTS, NEW signer, NEW idx, NEW at
    PROVE  ItemsFor(signer, idx, at)[e].random = <<idx, e>>
BY DEF ItemsFor, Item

\* The MSO holds the digest of every item of its mdoc.
LEMMA DigestOfItem ==
    ASSUME NEW e \in MDL_ELEMENTS, NEW signer, NEW idx, NEW at
    PROVE  /\ <<"id", e>> \in DOMAIN DigestsFor(signer, idx, at)
           /\ DigestsFor(signer, idx, at)[<<"id", e>>] = ItemsFor(signer, idx, at)[e]
<1> DEFINE item == ItemsFor(signer, idx, at)
<1>1. item[e].digestID = <<"id", e>>
  BY ItemDigestID
<1> HIDE DEF item
<1>2. <<"id", e>> \in {item[f].digestID : f \in MDL_ELEMENTS}
  BY <1>1
<1>3. DigestsFor(signer, idx, at) =
          [d \in {item[f].digestID : f \in MDL_ELEMENTS} |-> item[d[2]]]
  BY DEF DigestsFor, item
<1>4. <<"id", e>>[2] = e
  OBVIOUS
<1> QED
  BY <1>1, <1>2, <1>3, <1>4 DEF item

-------------------------------------------------------------------------------
\* The invariant: an mdoc in a wallet was signed under a root minted before it,
\* and wallets and relying party only know what exists.

ClockInv == now \in Nat /\ now <= DAY + MaxTime

MintedInv ==
    /\ minted \in Seq(Nat) /\ Len(minted) > 0
    /\ \A n \in 1..Len(minted) : minted[n] <= now

WellIssued(i) ==
    /\ issued[i] \in [key : HolderKeys, root : 1..Len(minted), at : 0..now]
    /\ minted[issued[i].root] <= issued[i].at
    /\ Mdoc(i) # NONE

IssuedInv ==
    /\ issued \in Seq([key : HolderKeys, root : Nat, at : Nat] \cup {NONE})
    /\ Len(issued) <= MaxIssued
    /\ \A i \in Mdocs : WellIssued(i)

KnownInv ==
    /\ anchors \subseteq 1..Len(minted)
    /\ sent \subseteq [mdoc : Mdocs, disclose : Disclosures, transcript : Transcripts]

MdocInv == ClockInv /\ MintedInv /\ IssuedInv /\ KnownInv

\* What the invariant says of one mdoc, in the terms of the lemmas above.
IssuedAs(i, k, n, at) ==
    /\ k \in HolderKeys /\ n \in 1..Len(minted) /\ at \in Nat /\ at <= DAY + MaxTime
    /\ minted[n] \in Nat /\ minted[n] <= at
    /\ issued[i].key = k /\ issued[i].root = n /\ issued[i].at = at
    /\ i \in 1..MaxIssued
    /\ StartOfDay(at) < ValidUntil(StartOfDay(at), Signer(n))
    /\ Mdoc(i) = [nameSpaces |-> ItemsFor(Signer(n), i, at),
                  issuerAuth |-> AuthFor(MsoFor(k, Signer(n), i, at), Signer(n))]

LEMMA IssuedFields ==
    ASSUME MdocInv, NEW i \in Mdocs
    PROVE  IssuedAs(i, issued[i].key, issued[i].root, issued[i].at)
<1> DEFINE k == issued[i].key
           n == issued[i].root
           at == issued[i].at
<1>1. WellIssued(i) /\ now \in Nat /\ now <= DAY + MaxTime /\ minted \in Seq(Nat)
  BY DEF MdocInv, IssuedInv, ClockInv, MintedInv
<1>2. k \in HolderKeys /\ n \in 1..Len(minted) /\ at \in 0..now /\ minted[n] <= at
  BY <1>1 DEF WellIssued
<1>3. DAY \in Nat /\ MaxTime \in Nat
  BY CertificateAssumption, MdocAssumption
<1>4. i \in 1..Len(issued) /\ Len(issued) \in Nat /\ Len(issued) <= MaxIssued
  BY DEF Mdocs, MdocInv, IssuedInv
<1>5. Mdoc(i) = MdocFor(k, Signer(n), i, at) /\ Mdoc(i) # NONE
  BY <1>1 DEF Mdoc, Signer, WellIssued
<1> HIDE DEF k, n, at
<1>6. /\ StartOfDay(at) < ValidUntil(StartOfDay(at), Signer(n))
      /\ Mdoc(i) = [nameSpaces |-> ItemsFor(Signer(n), i, at),
                    issuerAuth |-> AuthFor(MsoFor(k, Signer(n), i, at), Signer(n))]
  BY <1>2, <1>5, MdocMade
<1>7. minted[n] \in Nat /\ at \in Nat /\ at <= DAY + MaxTime
  BY <1>1, <1>2, <1>3
<1>8. i \in 1..MaxIssued
  BY <1>4, MdocAssumption
<1> QED
  BY <1>2, <1>6, <1>7, <1>8 DEF IssuedAs, k, n, at

\* An mDL's validity lies in its certificate's and outlasts the day it was issued.
LEMMA ValidityInCertificate ==
    ASSUME NEW n, NEW at \in Nat, minted[n] \in Nat, minted[n] <= at,
           StartOfDay(at) < ValidUntil(StartOfDay(at), Signer(n))
    PROVE  LET until == ValidUntil(StartOfDay(at), Signer(n))
           IN  /\ until \in Nat /\ at < until
               /\ until <= minted[n] + LEAF_DAYS * DAY
               /\ minted[n] - DAY < StartOfDay(at)
<1> DEFINE today == StartOfDay(at)
           wanted == today + MSO_VALIDITY_DAYS * DAY
           not_after == minted[n] + LEAF_DAYS * DAY
           end == IF wanted < not_after THEN wanted ELSE not_after
           until == ValidUntil(today, Signer(n))
<1>1. today \in Nat /\ today <= at /\ at < today + DAY
  BY DayRounded
<1>2. DAY \in Nat /\ MSO_VALIDITY_DAYS * DAY \in Nat /\ LEAF_DAYS * DAY \in Nat
  BY CertificateAssumption, MdocAssumption
<1>3. end \in Nat /\ end <= not_after
  <2>1. wanted \in Nat /\ not_after \in Nat
    BY <1>1, <1>2
  <2> QED
    BY <2>1
<1>4. until = StartOfDay(end)
  <2>1. Signer(n).tbs.not_after = not_after
    BY SignerFields
  <2> QED
    BY <2>1 DEF ValidUntil
<1> HIDE DEF end
<1>5. until \in Nat /\ until <= end
  BY <1>3, <1>4, DayRounded
<1>6. at < until
  BY <1>3, <1>4, DaysApart
<1>7. until <= not_after
  <2>1. not_after \in Nat
    BY <1>2
  <2> QED
    BY <1>3, <1>5, <2>1
<1>8. minted[n] - DAY < today
  BY <1>1, <1>2
<1> QED
  BY <1>5, <1>6, <1>7, <1>8

\* The values, items and records NoneAssumption is about.
ElementValues ==
    {MdlElements(COUNTRY, StartOfDay(t))[e] : e \in MDL_ELEMENTS, t \in 0..DAY + MaxTime}
DigestIDs == {<<"id", e>> : e \in MDL_ELEMENTS}
SomeItems ==
    [digestID : DigestIDs, random : (1..MaxIssued) \X MDL_ELEMENTS,
     elementIdentifier : MDL_ELEMENTS, elementValue : ElementValues]
SomeMsos ==
    [version : {"1.0"}, digestAlgorithm : {"SHA-256"}, docType : {MDL_DOCTYPE},
     valueDigests : [DigestIDs -> SomeItems], deviceKey : {CoseKey(k) : k \in HolderKeys},
     signed : Nat, validFrom : Nat, validUntil : Nat, status : Nat]
SomeVerified ==
    [doc_type : {MDL_DOCTYPE}, device_key : HolderKeys, status : Nat,
     claims : [MDL_ELEMENTS -> ElementValues]]

LEMMA NoneIsApart == NONE # "ES256" /\ NONE \notin SomeMsos /\ NONE \notin SomeVerified
BY NoneAssumption DEF SomeMsos, SomeVerified, SomeItems, ElementValues, DigestIDs

LEMMA ItemsOfMdoc ==
    ASSUME NEW i, NEW k, NEW n, NEW at, IssuedAs(i, k, n, at), NEW e \in MDL_ELEMENTS
    PROVE  /\ ItemsFor(Signer(n), i, at)[e] \in SomeItems
           /\ ItemsFor(Signer(n), i, at)[e].elementValue \in ElementValues
           /\ ItemsFor(Signer(n), i, at)[e].elementValue = MdlElements(COUNTRY, StartOfDay(at))[e]
<1> DEFINE value == MdlElements(COUNTRY, StartOfDay(at))[e]
<1>1. Signer(n).tbs.country = COUNTRY
  BY SignerFields
<1>2. ItemsFor(Signer(n), i, at)[e] = Item(e, value, i)
  BY <1>1 DEF ItemsFor
<1>3. value \in ElementValues
  BY CertificateAssumption, MdocAssumption DEF ElementValues, IssuedAs
<1> HIDE DEF value
<1>4. Item(e, value, i) \in SomeItems
  BY <1>3 DEF Item, SomeItems, DigestIDs, IssuedAs
<1>5. Item(e, value, i).elementValue = value
  BY DEF Item
<1> QED
  BY <1>2, <1>3, <1>4, <1>5 DEF value

LEMMA MsoIsSome ==
    ASSUME NEW i, NEW k, NEW n, NEW at, IssuedAs(i, k, n, at)
    PROVE  MsoFor(k, Signer(n), i, at) \in SomeMsos
<1>1. DOMAIN DigestsFor(Signer(n), i, at) = DigestIDs
  <2> DEFINE item == ItemsFor(Signer(n), i, at)
  <2>1. ASSUME NEW e \in MDL_ELEMENTS PROVE item[e].digestID = <<"id", e>>
    BY ItemDigestID
  <2>2. DOMAIN DigestsFor(Signer(n), i, at) = {item[e].digestID : e \in MDL_ELEMENTS}
    BY DEF DigestsFor
  <2> HIDE DEF item
  <2> QED
    BY <2>1, <2>2 DEF DigestIDs
<1>2. ASSUME NEW d \in DigestIDs PROVE DigestsFor(Signer(n), i, at)[d] \in SomeItems
  <2>1. PICK e \in MDL_ELEMENTS : d = <<"id", e>>
    BY DEF DigestIDs
  <2> QED
    BY <2>1, DigestOfItem, ItemsOfMdoc
<1>3. DigestsFor(Signer(n), i, at) \in [DigestIDs -> SomeItems]
  <2>1. DigestsFor(Signer(n), i, at) =
            [d \in DOMAIN DigestsFor(Signer(n), i, at) |-> DigestsFor(Signer(n), i, at)[d]]
    BY DEF DigestsFor
  <2> QED
    BY <1>1, <1>2, <2>1
<1>4. StartOfDay(at) \in Nat
  BY DayRounded DEF IssuedAs
<1>5. ValidUntil(StartOfDay(at), Signer(n)) \in Nat
  BY ValidityInCertificate DEF IssuedAs
<1> QED
  BY <1>3, <1>4, <1>5, MdocAssumption DEF MsoFor, SomeMsos, IssuedAs

\* The heart of IssuedMdocVerifies: one mdoc at one instant.
LEMMA MdocVerifies ==
    ASSUME NEW i, NEW k, NEW n, NEW at, IssuedAs(i, k, n, at),
           NEW then \in at..ValidUntil(StartOfDay(at), Signer(n))
    PROVE  LET verified == VerifyIssuerSigned(Mdoc(i), MDL_DOCTYPE, {Root(n)}, then)
           IN  /\ verified # NONE
               /\ DOMAIN verified.claims = MDL_ELEMENTS
               /\ verified.claims["issuing_country"] = COUNTRY
<1> DEFINE signer == Signer(n)
           items == ItemsFor(signer, i, at)
           mso == MsoFor(k, signer, i, at)
           auth == AuthFor(mso, signer)
           until == ValidUntil(StartOfDay(at), signer)
<1>1. /\ Mdoc(i) = [nameSpaces |-> items, issuerAuth |-> auth]
      /\ at \in Nat /\ minted[n] \in Nat /\ minted[n] <= at /\ k \in HolderKeys
      /\ StartOfDay(at) < until
  BY DEF IssuedAs
<1>2. /\ until \in Nat /\ until <= minted[n] + LEAF_DAYS * DAY
      /\ minted[n] - DAY < StartOfDay(at) /\ StartOfDay(at) \in Nat /\ StartOfDay(at) <= at
  BY <1>1, ValidityInCertificate, DayRounded
<1>3. LEAF_DAYS * DAY \in Nat /\ DAY \in Nat
  BY CertificateAssumption
<1>4. mso # NONE
  BY MsoIsSome, NoneIsApart
<1>5. /\ auth.payload = mso /\ IssuerX5chain(auth) = <<signer>> /\ CoseVerify(auth, IssuerKey)
  BY <1>4, AuthFields
<1>6. /\ mso.version = "1.0" /\ mso.digestAlgorithm = "SHA-256" /\ mso.docType = MDL_DOCTYPE
      /\ mso.signed = StartOfDay(at) /\ mso.validFrom = StartOfDay(at) /\ mso.validUntil = until
      /\ mso.status = i /\ mso.deviceKey = CoseKey(k)
      /\ mso.valueDigests = DigestsFor(signer, i, at)
  BY DEF MsoFor
<1>7. DOMAIN items = MDL_ELEMENTS
  BY DEF ItemsFor
<1> HIDE DEF signer, items, mso, auth, until
<1>8. ValidateChain(<<signer>>, {Root(n)}, then) = IssuerKey
  <2>1. then \in Int /\ at <= then /\ then <= until
    BY <1>1, <1>2 DEF until, signer
  <2>2. minted[n] - DAY <= then /\ then <= minted[n] + LEAF_DAYS * DAY
    BY <1>1, <1>2, <1>3, <2>1
  <2> QED
    BY <1>1, <2>1, <2>2, ChainValid DEF signer
<1>9. ValidateChain(<<signer>>, {Root(n)}, StartOfDay(at)) = IssuerKey
  <2>1. StartOfDay(at) \in Int /\ minted[n] - DAY <= StartOfDay(at)
        /\ StartOfDay(at) <= minted[n] + LEAF_DAYS * DAY
    BY <1>1, <1>2, <1>3
  <2> QED
    BY <1>1, <2>1, ChainValid DEF signer
<1>10. IssuerKey # NONE /\ JwkFromCoseKey(mso.deviceKey) = k /\ k # NONE
  BY <1>1, <1>6, KeyRoundTrip
<1>11. PeriodCovers(mso, <<signer>>, {Root(n)}, then)
  <2>1. StartOfDay(at) <= then /\ then <= until
    BY <1>1, <1>2 DEF until, signer
  <2> QED
    BY <1>6, <1>9, <1>10, <2>1 DEF PeriodCovers
<1>12. DigestsMatch(items, mso)
  <2> SUFFICES ASSUME NEW e \in MDL_ELEMENTS
               PROVE  /\ items[e].digestID \in DOMAIN mso.valueDigests
                      /\ mso.valueDigests[items[e].digestID] = items[e]
    BY <1>7 DEF DigestsMatch
  <2>1. items[e].digestID = <<"id", e>>
    BY ItemDigestID DEF items
  <2>2. /\ <<"id", e>> \in DOMAIN DigestsFor(signer, i, at)
        /\ DigestsFor(signer, i, at)[<<"id", e>>] = items[e]
    BY DigestOfItem DEF items
  <2> QED
    BY <1>6, <2>1, <2>2
<1> DEFINE verified == [doc_type |-> MDL_DOCTYPE, device_key |-> k, status |-> i,
                        claims |-> [e \in MDL_ELEMENTS |-> items[e].elementValue]]
<1>13. VerifyIssuerSigned(Mdoc(i), MDL_DOCTYPE, {Root(n)}, then) = verified
  <2>1. Mdoc(i).issuerAuth = auth /\ Mdoc(i).nameSpaces = items
    BY <1>1
  <2> QED
    BY <1>5, <1>6, <1>7, <1>8, <1>10, <1>11, <1>12, <2>1 DEF VerifyIssuerSigned
<1>14. verified # NONE
  <2>1. i \in Nat
    BY MdocAssumption DEF IssuedAs
  <2>2. \A e \in MDL_ELEMENTS : items[e].elementValue \in ElementValues
    BY ItemsOfMdoc DEF items, signer
  <2>3. verified \in SomeVerified
    BY <1>1, <2>1, <2>2 DEF SomeVerified
  <2> QED
    BY <2>3, NoneIsApart
<1>15. items["issuing_country"].elementValue = COUNTRY
  <2>1. "issuing_country" \in MDL_ELEMENTS
    BY DEF MDL_ELEMENTS
  <2>2. MdlElements(COUNTRY, StartOfDay(at))["issuing_country"] = COUNTRY
    BY <2>1 DEF MdlElements
  <2> QED
    BY <2>1, <2>2, ItemsOfMdoc DEF items, signer
<1>16. "issuing_country" \in MDL_ELEMENTS
  BY DEF MDL_ELEMENTS
<1> QED
  BY <1>13, <1>14, <1>15, <1>16

\* In a state that satisfies the invariant every mdoc in a wallet verifies.
LEMMA InvariantVerifies ==
    ASSUME MdocInv
    PROVE  IssuedMdocVerifies
<1> SUFFICES ASSUME NEW i \in Mdocs
             PROVE  LET until == Mdoc(i).issuerAuth.payload.validUntil
                    IN  /\ issued[i].at < until
                        /\ \A then \in issued[i].at..until :
                              LET verified == VerifyIssuerSigned(Mdoc(i), MDL_DOCTYPE,
                                                  {Pki(issued[i].root).trust_anchor}, then)
                              IN  /\ verified # NONE
                                  /\ DOMAIN verified.claims = ConfigurationsSupported[MDL].claims
                                  /\ verified.claims["issuing_country"] =
                                         Pki(issued[i].root).mdoc_signer.tbs.country
  BY DEF IssuedMdocVerifies
<1>1. PICK k, n, at : IssuedAs(i, k, n, at)
  BY IssuedFields
<1>2. issued[i].at = at /\ issued[i].root = n
  BY <1>1 DEF IssuedAs
<1>3. Mdoc(i).issuerAuth.payload.validUntil = ValidUntil(StartOfDay(at), Signer(n))
  <2>1. Mdoc(i).issuerAuth = AuthFor(MsoFor(k, Signer(n), i, at), Signer(n))
    BY <1>1 DEF IssuedAs
  <2>2. MsoFor(k, Signer(n), i, at).validUntil = ValidUntil(StartOfDay(at), Signer(n))
    BY DEF MsoFor
  <2> QED
    BY <2>1, <2>2, AuthFields
<1>4. at < ValidUntil(StartOfDay(at), Signer(n))
  BY <1>1, ValidityInCertificate DEF IssuedAs
<1>5. ConfigurationsSupported[MDL].claims = MDL_ELEMENTS
  BY DEF ConfigurationsSupported, MDL, IDENTITY
<1>6. Pki(n).trust_anchor = Root(n) /\ Pki(n).mdoc_signer.tbs.country = COUNTRY
  BY SignerFields DEF Root, Signer
<1>7. ASSUME NEW then \in at..ValidUntil(StartOfDay(at), Signer(n))
      PROVE  LET verified == VerifyIssuerSigned(Mdoc(i), MDL_DOCTYPE, {Root(n)}, then)
             IN  /\ verified # NONE
                 /\ DOMAIN verified.claims = MDL_ELEMENTS
                 /\ verified.claims["issuing_country"] = COUNTRY
  BY <1>1, MdocVerifies
<1> QED
  BY <1>2, <1>3, <1>4, <1>5, <1>6, <1>7

-------------------------------------------------------------------------------
\* The invariant is inductive.

\* No step forgets a root or an mdoc, or turns the clock back.
Grows ==
    /\ minted' \in Seq(Nat) /\ Len(minted) <= Len(minted')
    /\ \A n \in 1..Len(minted) : minted'[n] = minted[n]
    /\ Len(issued) <= Len(issued') /\ DOMAIN issued' = 1..Len(issued')
    /\ \A i \in 1..Len(issued) : issued'[i] = issued[i]
    /\ now \in Nat /\ now' \in Nat /\ now <= now'
    /\ anchors \subseteq anchors' /\ sent \subseteq sent'

LEMMA StepGrows ==
    ASSUME MdocInv, [Next]_vars
    PROVE  Grows
<1>1. minted \in Seq(Nat) /\ now \in Nat
  BY DEF MdocInv, ClockInv, MintedInv
<1>2. PICK S : issued \in Seq(S)
  BY DEF MdocInv, IssuedInv
<1>3. Len(issued) \in Nat /\ DOMAIN issued = 1..Len(issued) /\ Len(minted) \in Nat
  BY <1>1, <1>2
<1>4. CASE Remint
  BY <1>1, <1>3, <1>4 DEF Remint, Grows
<1>5. ASSUME NEW k \in HolderKeys, Issue(k) PROVE Grows
  <2>1. PICK x : issued' = Append(issued, x)
    BY <1>5 DEF Issue
  <2>2. /\ Len(issued') = Len(issued) + 1 /\ DOMAIN issued' = 1..Len(issued) + 1
        /\ \A i \in 1..Len(issued) : issued'[i] = issued[i]
    <3>1. issued \in Seq(S \cup {x}) /\ x \in S \cup {x}
      BY <1>2
    <3> QED
      BY <2>1, <3>1
  <2> QED
    BY <1>1, <1>3, <1>5, <2>2 DEF Issue, Grows
<1>6. CASE Trust
  BY <1>1, <1>3, <1>6 DEF Trust, Grows
<1>7. ASSUME NEW i \in Mdocs, NEW d \in Disclosures, NEW t \in Transcripts, Present(i, d, t)
      PROVE  Grows
  BY <1>1, <1>3, <1>7 DEF Present, Grows
<1>8. ASSUME NEW r \in Deliverable, NEW t \in Transcripts, Verify(r, t) PROVE Grows
  BY <1>1, <1>3, <1>8 DEF Verify, Grows
<1>9. CASE Tick
  BY <1>1, <1>3, <1>9 DEF Tick, Grows
<1>10. CASE UNCHANGED vars
  BY <1>1, <1>3, <1>10 DEF vars, Grows
<1> QED
  BY <1>4, <1>5, <1>6, <1>7, <1>8, <1>9, <1>10 DEF Next

LEMMA MdocsKept ==
    ASSUME MdocInv, Grows, NEW i \in Mdocs
    PROVE  /\ i \in Mdocs' /\ issued'[i] = issued[i] /\ Mdoc(i)' = Mdoc(i)
           /\ WellIssued(i)'
<1>1. PICK S : issued \in Seq(S)
  BY DEF MdocInv, IssuedInv
<1>2. i \in 1..Len(issued) /\ issued[i] # NONE /\ Len(issued) \in Nat
  BY <1>1 DEF Mdocs
<1>3. issued'[i] = issued[i] /\ i \in DOMAIN issued'
  BY <1>2 DEF Grows
<1>4. i \in Mdocs'
  BY <1>2, <1>3 DEF Mdocs
<1>5. WellIssued(i) /\ minted \in Seq(Nat)
  BY DEF MdocInv, IssuedInv, MintedInv
<1>6. issued[i].root \in 1..Len(minted) /\ minted'[issued[i].root] = minted[issued[i].root]
  BY <1>5 DEF WellIssued, Grows
<1>7. Mdoc(i)' = Mdoc(i)
  BY <1>3, <1>6 DEF Mdoc, Pki
<1>8. issued[i] \in [key : HolderKeys, root : 1..Len(minted'), at : 0..now']
  <2>1. 1..Len(minted) \subseteq 1..Len(minted') /\ 0..now \subseteq 0..now'
    BY <1>5 DEF Grows
  <2> QED
    BY <1>5, <2>1 DEF WellIssued
<1>9. WellIssued(i)'
  BY <1>3, <1>5, <1>6, <1>7, <1>8 DEF WellIssued
<1> QED
  BY <1>3, <1>4, <1>7, <1>9

\* issue_mdoc_credential records an mdoc exactly when it could be signed.
LEMMA IssueKeeps ==
    ASSUME MdocInv, NEW k \in HolderKeys, Issue(k)
    PROVE  IssuedInv'
<1> DEFINE root == Len(minted)
           idx == Len(issued) + 1
           mdoc == MdocFor(k, Pki(root).mdoc_signer, idx, now)
           entry == [key |-> k, root |-> root, at |-> now]
           new == IF mdoc # NONE THEN entry ELSE NONE
           S == [key : HolderKeys, root : Nat, at : Nat] \cup {NONE}
<1>1. /\ issued \in Seq(S) /\ now \in Nat /\ minted \in Seq(Nat) /\ Len(minted) > 0
      /\ minted[root] <= now
  BY DEF MdocInv, IssuedInv, ClockInv, MintedInv
<1>2. Len(issued) < MaxIssued /\ issued' = Append(issued, new)
      /\ UNCHANGED <<minted, now>>
  BY DEF Issue
<1>3. Len(minted) \in Nat /\ Len(issued) \in Nat
  BY <1>1
<1>4. new \in S
  BY <1>1, <1>3
<1>5. issued' \in Seq(S) /\ Len(issued') = idx
      /\ issued'[idx] = new /\ DOMAIN issued' = 1..idx
  BY <1>1, <1>2, <1>4
<1>6. Len(issued') <= MaxIssued
  BY <1>2, <1>3, <1>5, MdocAssumption
<1>7. Grows
  BY StepGrows DEF Next
<1>8. ASSUME NEW i \in Mdocs' PROVE WellIssued(i)'
  <2>1. i \in 1..idx /\ issued'[i] # NONE
    BY <1>5, <1>8 DEF Mdocs
  <2>2. CASE i \in 1..Len(issued)
    <3>1. issued'[i] = issued[i] /\ i \in DOMAIN issued
      BY <1>1, <1>7, <2>2 DEF Grows
    <3>2. i \in Mdocs
      BY <2>1, <3>1 DEF Mdocs
    <3> QED
      BY <1>7, <3>2, MdocsKept
  <2>3. CASE i = idx
    <3>1. issued'[i] = entry /\ mdoc # NONE
      BY <1>5, <2>1, <2>3
    <3>2. Mdoc(i)' = mdoc
      <4>1. issued'[i].key = k /\ issued'[i].root = root /\ issued'[i].at = now
        BY <3>1
      <4> QED
        BY <1>2, <2>3, <4>1 DEF Mdoc, Pki
    <3>3. entry \in [key : HolderKeys, root : 1..Len(minted), at : 0..now]
      BY <1>1, <1>3
    <3>4. minted'[entry.root] <= entry.at
      BY <1>1, <1>2
    <3> HIDE DEF mdoc, entry
    <3> QED
      BY <1>2, <3>1, <3>2, <3>3, <3>4 DEF WellIssued
  <2> QED
    BY <1>3, <2>1, <2>2, <2>3
<1> HIDE DEF S
<1> QED
  BY <1>5, <1>6, <1>8 DEF IssuedInv, S

LEMMA InvariantInductive == MdocInv /\ [Next]_vars => MdocInv'
<1> SUFFICES ASSUME MdocInv, [Next]_vars PROVE MdocInv'
  OBVIOUS
<1>1. Grows
  BY StepGrows
<1>2. /\ minted \in Seq(Nat) /\ Len(minted) > 0 /\ now \in Nat /\ now <= DAY + MaxTime
      /\ \A n \in 1..Len(minted) : minted[n] <= now
  BY DEF MdocInv, ClockInv, MintedInv
<1>3. Len(minted) \in Nat /\ DAY \in Nat /\ MaxTime \in Nat
  BY <1>2, CertificateAssumption, MdocAssumption
<1>4. ClockInv'
  <2>1. CASE Tick
    BY <1>2, <1>3, <2>1 DEF Tick, ClockInv
  <2>2. CASE now' = now
    BY <1>2, <2>2 DEF ClockInv
  <2> QED
    BY <2>1, <2>2 DEF Next, vars, Remint, Issue, Trust, Present, Verify
<1>5. MintedInv'
  <2>1. CASE Remint
    <3>1. minted' = Append(minted, now) /\ now' = now
      BY <2>1 DEF Remint
    <3>2. minted' \in Seq(Nat) /\ Len(minted') = Len(minted) + 1
          /\ minted'[Len(minted) + 1] = now
      BY <1>2, <3>1
    <3>3. ASSUME NEW n \in 1..Len(minted') PROVE minted'[n] <= now'
      <4>1. CASE n \in 1..Len(minted)
        BY <1>1, <1>2, <3>1, <4>1 DEF Grows
      <4>2. CASE n = Len(minted) + 1
        BY <1>2, <3>1, <3>2, <4>2
      <4> QED
        BY <1>3, <3>2, <4>1, <4>2
    <3> QED
      BY <1>3, <3>2, <3>3 DEF MintedInv
  <2>2. CASE minted' = minted
    <3>1. ASSUME NEW n \in 1..Len(minted) PROVE minted[n] <= now'
      <4>1. minted[n] \in Nat /\ minted[n] <= now /\ now <= now' /\ now' \in Nat
        BY <1>1, <1>2 DEF Grows
      <4> QED
        BY <1>2, <4>1
    <3> QED
      BY <1>2, <2>2, <3>1 DEF MintedInv
  <2> QED
    BY <2>1, <2>2 DEF Next, vars, Issue, Trust, Present, Verify, Tick
<1>6. IssuedInv'
  <2>1. ASSUME NEW k \in HolderKeys, Issue(k) PROVE IssuedInv'
    BY <2>1, IssueKeeps
  <2>2. CASE issued' = issued
    <3>1. Mdocs' = Mdocs
      BY <2>2 DEF Mdocs
    <3>2. \A i \in Mdocs : WellIssued(i)'
      BY <1>1, MdocsKept
    <3> QED
      BY <2>2, <3>1, <3>2 DEF MdocInv, IssuedInv
  <2> QED
    BY <2>1, <2>2 DEF Next, vars, Remint, Trust, Present, Verify, Tick
<1>7. KnownInv'
  <2>1. Mdocs \subseteq Mdocs'
    BY <1>1, MdocsKept
  <2>2. 1..Len(minted) \subseteq 1..Len(minted') /\ Len(minted) \in 1..Len(minted')
    BY <1>1, <1>2, <1>3 DEF Grows
  <2>3. /\ anchors \subseteq 1..Len(minted)
        /\ sent \subseteq [mdoc : Mdocs, disclose : Disclosures, transcript : Transcripts]
    BY DEF MdocInv, KnownInv
  <2>4. anchors' \subseteq 1..Len(minted')
    <3>1. CASE Trust
      BY <2>2, <2>3, <3>1 DEF Trust
    <3>2. CASE anchors' = anchors
      BY <2>2, <2>3, <3>2
    <3> QED
      BY <3>1, <3>2 DEF Next, vars, Remint, Issue, Present, Verify, Tick
  <2>5. sent' \subseteq [mdoc : Mdocs', disclose : Disclosures, transcript : Transcripts]
    <3>1. ASSUME NEW i \in Mdocs, NEW d \in Disclosures, NEW t \in Transcripts, Present(i, d, t)
          PROVE  sent' \subseteq [mdoc : Mdocs', disclose : Disclosures, transcript : Transcripts]
      BY <2>1, <2>3, <3>1 DEF Present
    <3>2. CASE sent' = sent
      BY <2>1, <2>3, <3>2
    <3> QED
      BY <3>1, <3>2 DEF Next, vars, Remint, Issue, Trust, Verify, Tick
  <2> QED
    BY <2>4, <2>5 DEF KnownInv
<1> QED
  BY <1>4, <1>5, <1>6, <1>7 DEF MdocInv

LEMMA InvariantInitially == Init => MdocInv
<1> SUFFICES ASSUME Init PROVE MdocInv
  OBVIOUS
<1>1. now \in Nat /\ now <= DAY + MaxTime
  BY CertificateAssumption, MdocAssumption DEF Init
<1>2. minted = <<now>> /\ minted \in Seq(Nat) /\ Len(minted) = 1 /\ minted[1] = now
  BY <1>1 DEF Init
<1>3. \A n \in 1..Len(minted) : minted[n] <= now
  BY <1>1, <1>2
<1>4. issued = <<>> /\ Mdocs = {}
  BY DEF Init, Mdocs
<1>5. 0 <= MaxIssued
  BY MdocAssumption
<1>6. issued \in Seq([key : HolderKeys, root : Nat, at : Nat] \cup {NONE}) /\ Len(issued) = 0
  BY <1>4
<1> QED
  BY <1>1, <1>2, <1>3, <1>4, <1>5, <1>6
  DEF Init, MdocInv, ClockInv, MintedInv, IssuedInv, KnownInv

\* From its issuance to its validUntil every mDL verifies under the root it was
\* issued under and reveals the advertised elements, however long certificates,
\* days and validities are (credential.rs, issue_mdoc_credential; mdoc.rs,
\* verify_issuer_signed).
THEOREM IssuedVerifies == Spec => []IssuedMdocVerifies
<1>1. MdocInv => IssuedMdocVerifies
  BY InvariantVerifies
<1> QED
  BY <1>1, InvariantInitially, InvariantInductive, PTL DEF Spec

-------------------------------------------------------------------------------
\* Presentations.

\* A DeviceResponse by its three parts, and how the network can change them.
DeviceResponse(items, auth, signature) ==
    [version |-> "1.0", status |-> 0,
     documents |-> << [docType |-> MDL_DOCTYPE,
                       issuerSigned |-> [nameSpaces |-> items, issuerAuth |-> auth],
                       deviceNameSpaces |-> {}, deviceSignature |-> signature] >>]

LEMMA ResponseParts ==
    ASSUME NEW items, NEW auth, NEW signature
    PROVE  LET r == DeviceResponse(items, auth, signature)
           IN  /\ r.version = "1.0" /\ r.status = 0 /\ Len(r.documents) = 1
               /\ r.documents # <<>>
               /\ r.documents[1].docType = MDL_DOCTYPE
               /\ r.documents[1].issuerSigned.nameSpaces = items
               /\ r.documents[1].issuerSigned.issuerAuth = auth
               /\ r.documents[1].deviceNameSpaces = {}
               /\ r.documents[1].deviceSignature = signature
BY DEF DeviceResponse

LEMMA PartsReplaced ==
    ASSUME NEW items, NEW auth, NEW signature, NEW other
    PROVE  LET r == DeviceResponse(items, auth, signature)
           IN  /\ Items(r) = items /\ Signature(r) = signature
               /\ WithItems(r, other) = DeviceResponse(other, auth, signature)
               /\ WithSignature(r, other) = DeviceResponse(items, auth, other)
<1> DEFINE r == DeviceResponse(items, auth, signature)
<1>1. Items(r) = items /\ Signature(r) = signature
  BY DEF DeviceResponse, Items, Signature
<1>2. WithItems(r, other) = DeviceResponse(other, auth, signature)
  BY DEF DeviceResponse, WithItems
<1>3. WithSignature(r, other) = DeviceResponse(items, auth, other)
  BY DEF DeviceResponse, WithSignature
<1> QED
  BY <1>1, <1>2, <1>3

Revealed(s, elements) == [e \in elements |-> Mdoc(s.mdoc).nameSpaces[e]]
Signed(s) ==
    CoseSignDetached(issued[s.mdoc].key, DeviceAuthentication(s.transcript, MDL_DOCTYPE, {}))

\* The MSO of a, some of the items of b and the device signature of c.
PutTogether(r, a, b, c) ==
    \E elements \in SUBSET (MDL_ELEMENTS \cap b.disclose) :
        r = DeviceResponse(Revealed(b, elements), Mdoc(a.mdoc).issuerAuth, Signed(c))

\* What a wallet sends.
LEMMA ResponseShape ==
    ASSUME MdocInv, NEW s \in sent
    PROVE  Response(s) = DeviceResponse(Revealed(s, MDL_ELEMENTS \cap s.disclose),
                                        Mdoc(s.mdoc).issuerAuth, Signed(s))
<1> DEFINE i == s.mdoc
<1>1. i \in Mdocs
  BY DEF MdocInv, KnownInv
<1>2. PICK k, n, at : IssuedAs(i, k, n, at)
  BY <1>1, IssuedFields
<1> DEFINE items == ItemsFor(Signer(n), i, at)
           auth == AuthFor(MsoFor(k, Signer(n), i, at), Signer(n))
<1>3. Mdoc(i) = [nameSpaces |-> items, issuerAuth |-> auth] /\ DOMAIN items = MDL_ELEMENTS
  BY <1>2 DEF IssuedAs, ItemsFor
<1>4. auth.payload.docType = MDL_DOCTYPE
  <2>1. auth.payload = MsoFor(k, Signer(n), i, at)
    BY AuthFields
  <2> QED
    BY <2>1 DEF MsoFor
<1> HIDE DEF i, items, auth
<1>5. [Mdoc(i) EXCEPT !.nameSpaces = [e \in DOMAIN @ \cap s.disclose |-> @[e]]] =
          [nameSpaces |-> [e \in MDL_ELEMENTS \cap s.disclose |-> items[e]], issuerAuth |-> auth]
  BY <1>3
<1>6. Mdoc(i).issuerAuth = auth /\ Mdoc(i).nameSpaces = items
  BY <1>3
<1> QED
  BY <1>4, <1>5, <1>6 DEF Response, PresentMdoc, DeviceResponse, Revealed, Signed, i

LEMMA DeliverableShape ==
    ASSUME MdocInv, NEW r \in Deliverable
    PROVE  \E a, b, c \in sent : PutTogether(r, a, b, c)
<1> DEFINE elements(s) == MDL_ELEMENTS \cap s.disclose
           auth(s) == Mdoc(s.mdoc).issuerAuth
<1>1. ASSUME NEW s \in sent
      PROVE  /\ Response(s) = DeviceResponse(Revealed(s, elements(s)), auth(s), Signed(s))
             /\ Items(Response(s)) = Revealed(s, elements(s))
             /\ Signature(Response(s)) = Signed(s)
  <2>1. Response(s) = DeviceResponse(Revealed(s, elements(s)), auth(s), Signed(s))
    BY ResponseShape
  <2> HIDE DEF elements, auth
  <2>2. /\ Items(DeviceResponse(Revealed(s, elements(s)), auth(s), Signed(s))) =
              Revealed(s, elements(s))
        /\ Signature(DeviceResponse(Revealed(s, elements(s)), auth(s), Signed(s))) = Signed(s)
    BY PartsReplaced
  <2> QED
    BY <2>1, <2>2
<1>2. \/ \E s \in sent : r = Response(s)
      \/ \E s \in sent, o \in sent : \E kept \in SUBSET UNION Disclosures :
            r = WithItems(Response(s), Kept(Items(Response(o)), kept))
      \/ \E s \in sent, o \in sent : r = WithSignature(Response(s), Signature(Response(o)))
  <2>1. \A x \in Responses : \E s \in sent : x = Response(s)
    BY DEF Responses
  <2>2. \/ r \in Responses
        \/ \E x \in Responses, o \in Responses : \E kept \in SUBSET UNION Disclosures :
               r = WithItems(x, Kept(Items(o), kept))
        \/ \E x \in Responses, o \in Responses : r = WithSignature(x, Signature(o))
    BY DEF Deliverable
  <2> QED
    BY <2>1, <2>2
<1>3. ASSUME NEW s \in sent, r = Response(s) PROVE PutTogether(r, s, s, s)
  BY <1>1, <1>3 DEF PutTogether
<1>4. ASSUME NEW s \in sent, NEW o \in sent, NEW kept,
             r = WithItems(Response(s), Kept(Items(Response(o)), kept))
      PROVE  PutTogether(r, s, o, s)
  <2>1. Kept(Items(Response(o)), kept) = Revealed(o, elements(o) \cap kept)
    BY <1>1 DEF Revealed, Kept
  <2>2. r = WithItems(DeviceResponse(Revealed(s, elements(s)), auth(s), Signed(s)),
                      Revealed(o, elements(o) \cap kept))
    BY <1>1, <1>4, <2>1
  <2>3. elements(o) \cap kept \in SUBSET elements(o)
    OBVIOUS
  <2> HIDE DEF auth
  <2>4. r = DeviceResponse(Revealed(o, elements(o) \cap kept), auth(s), Signed(s))
    BY <2>2, PartsReplaced
  <2> QED
    BY <2>3, <2>4 DEF PutTogether, auth
<1>5. ASSUME NEW s \in sent, NEW o \in sent,
             r = WithSignature(Response(s), Signature(Response(o)))
      PROVE  PutTogether(r, s, s, o)
  <2>1. r = WithSignature(DeviceResponse(Revealed(s, elements(s)), auth(s), Signed(s)), Signed(o))
    BY <1>1, <1>5
  <2> HIDE DEF auth
  <2>2. r = DeviceResponse(Revealed(s, elements(s)), auth(s), Signed(o))
    BY <2>1, PartsReplaced
  <2> QED
    BY <2>2 DEF PutTogether, auth
<1> QED
  BY <1>2, <1>3, <1>4, <1>5

-------------------------------------------------------------------------------
\* What a relying party accepts.

\* verify_issuer_signed says what the MSO and the items say, after its checks.
LEMMA VerifiedIssuerSigned ==
    ASSUME NEW issuer_signed, NEW doc_type, NEW roots, NEW at,
           VerifyIssuerSigned(issuer_signed, doc_type, roots, at) # NONE
    PROVE  LET v == VerifyIssuerSigned(issuer_signed, doc_type, roots, at)
               mso == issuer_signed.issuerAuth.payload
               items == issuer_signed.nameSpaces
           IN  /\ ValidateChain(IssuerX5chain(issuer_signed.issuerAuth), roots, at) # NONE
               /\ mso.validFrom <= at /\ at <= mso.validUntil
               /\ DigestsMatch(items, mso)
               /\ v.device_key = JwkFromCoseKey(mso.deviceKey) /\ v.status = mso.status
               /\ v.claims = [e \in DOMAIN items |-> items[e].elementValue]
BY DEF VerifyIssuerSigned, PeriodCovers

\* verify_device_response of one document.
LEMMA VerifiedResponse ==
    ASSUME NEW items, NEW auth, NEW signature, NEW transcript, NEW roots, NEW at,
           VerifyDeviceResponse(DeviceResponse(items, auth, signature), transcript, roots, at) # NONE
    PROVE  LET v == VerifyIssuerSigned([nameSpaces |-> items, issuerAuth |-> auth],
                                       MDL_DOCTYPE, roots, at)
           IN  /\ v # NONE
               /\ VerifyDeviceResponse(DeviceResponse(items, auth, signature),
                                       transcript, roots, at)[1] = v
               /\ CoseVerifyDetached(signature,
                     DeviceAuthentication(transcript, MDL_DOCTYPE, {}), v.device_key)
<1> DEFINE r == DeviceResponse(items, auth, signature)
           signed == [nameSpaces |-> items, issuerAuth |-> auth]
           v == VerifyIssuerSigned(signed, MDL_DOCTYPE, roots, at)
           verified == [i \in 1..Len(r.documents) |->
                          VerifyIssuerSigned(r.documents[i].issuerSigned,
                                             r.documents[i].docType, roots, at)]
<1>1. /\ Len(r.documents) = 1
      /\ r.documents[1] = [docType |-> MDL_DOCTYPE, issuerSigned |-> signed,
                           deviceNameSpaces |-> {}, deviceSignature |-> signature]
  BY DEF DeviceResponse
<1>2. DOMAIN verified = 1..Len(r.documents) /\ 1 \in DOMAIN verified
  BY <1>1
<1>3. r.documents[1].issuerSigned = signed /\ r.documents[1].docType = MDL_DOCTYPE
      /\ r.documents[1].deviceNameSpaces = {} /\ r.documents[1].deviceSignature = signature
  BY <1>1
<1>4. verified[1] = v
  BY <1>2, <1>3
<1> HIDE DEF r, v, signed
<1>5. /\ \A i \in DOMAIN verified :
            /\ verified[i] # NONE
            /\ DeviceAuthenticated(r.documents[i], transcript, verified[i].device_key)
      /\ VerifyDeviceResponse(r, transcript, roots, at) = verified
  BY DEF VerifyDeviceResponse, r
<1> HIDE DEF verified
<1>6. v # NONE /\ DeviceAuthenticated(r.documents[1], transcript, v.device_key)
  BY <1>2, <1>4, <1>5
<1>7. CoseVerifyDetached(signature, DeviceAuthentication(transcript, MDL_DOCTYPE, {}), v.device_key)
  BY <1>3, <1>6 DEF DeviceAuthenticated
<1> QED
  BY <1>4, <1>5, <1>6, <1>7 DEF r, v, signed

\* A device signature verifies only under the key and for the transcript it was
\* made with.
LEMMA DeviceSignature ==
    ASSUME NEW key, NEW jwk, NEW made_for, NEW transcript,
           CoseVerifyDetached(
               CoseSignDetached(key, DeviceAuthentication(made_for, MDL_DOCTYPE, {})),
               DeviceAuthentication(transcript, MDL_DOCTYPE, {}), jwk)
    PROVE  key = jwk /\ made_for = transcript
<1> DEFINE over(t) == DeviceAuthentication(t, MDL_DOCTYPE, {})
           sign1 == CoseSignDetached(key, over(made_for))
<1>1. sign1.signature = [key |-> key, over |-> <<sign1.protected, over(made_for)>>]
  BY DEF CoseSignDetached, CoseSign, KeySign
<1>2. sign1.signature = [key |-> jwk, over |-> <<sign1.protected, over(transcript)>>]
  BY DEF CoseVerifyDetached, VerifyWithJwk, KeySign
<1> HIDE DEF sign1, over
<1>3. key = jwk /\ over(made_for) = over(transcript)
  BY <1>1, <1>2
<1> QED
  BY <1>3 DEF over, DeviceAuthentication

\* The matrix of AcceptedWasPresented.
Answered(a, s, o) ==
    /\ s.transcript = a.transcript
    /\ issued[s.mdoc].key = a.document.device_key
    /\ issued[o.mdoc].key = a.document.device_key
    /\ issued[o.mdoc].root \in anchors
    /\ a.document.status = o.mdoc
    /\ DOMAIN a.document.claims \subseteq o.disclose
    /\ \A e \in DOMAIN a.document.claims :
          a.document.claims[e] = Mdoc(o.mdoc).nameSpaces[e].elementValue
    /\ Mso(o.mdoc).validFrom <= a.at /\ a.at <= Mso(o.mdoc).validUntil

\* The checks of verify_device_response pin every part of a response: the chain
\* names the root, the digests name the mDL the items are of, and the device
\* signature names the key and the request.
LEMMA AcceptedParts ==
    ASSUME MdocInv, NEW a \in sent, NEW b \in sent, NEW c \in sent,
           NEW r, PutTogether(r, a, b, c), NEW t,
           VerifyDeviceResponse(r, t, {Root(n) : n \in anchors}, now) # NONE
    PROVE  LET document == VerifyDeviceResponse(r, t, {Root(n) : n \in anchors}, now)[1]
           IN  \E o \in sent : Answered([document |-> document, transcript |-> t, at |-> now], c, o)
<1> DEFINE roots == {Root(n) : n \in anchors}
           auth == Mdoc(a.mdoc).issuerAuth
           mso == auth.payload
<1>1. PICK elements \in SUBSET (MDL_ELEMENTS \cap b.disclose) :
        r = DeviceResponse(Revealed(b, elements), auth, Signed(c))
  BY DEF PutTogether
<1> DEFINE items == Revealed(b, elements)
           v == VerifyIssuerSigned([nameSpaces |-> items, issuerAuth |-> auth],
                                   MDL_DOCTYPE, roots, now)
<1>2. /\ v # NONE /\ VerifyDeviceResponse(r, t, roots, now)[1] = v
      /\ CoseVerifyDetached(Signed(c), DeviceAuthentication(t, MDL_DOCTYPE, {}), v.device_key)
  <2>1. VerifyDeviceResponse(DeviceResponse(items, auth, Signed(c)), t, roots, now) # NONE
    BY <1>1
  <2> HIDE DEF auth, items, roots
  <2>2. /\ v # NONE
        /\ VerifyDeviceResponse(DeviceResponse(items, auth, Signed(c)), t, roots, now)[1] = v
        /\ CoseVerifyDetached(Signed(c), DeviceAuthentication(t, MDL_DOCTYPE, {}), v.device_key)
    BY <2>1, VerifiedResponse
  <2>3. r = DeviceResponse(items, auth, Signed(c))
    BY <1>1 DEF items
  <2> QED
    BY <2>2, <2>3
<1>3. a.mdoc \in Mdocs /\ b.mdoc \in Mdocs
  BY DEF MdocInv, KnownInv
<1>4. PICK k, n, at : IssuedAs(a.mdoc, k, n, at)
  BY <1>3, IssuedFields
<1>5. PICK kb, nb, atb : IssuedAs(b.mdoc, kb, nb, atb)
  BY <1>3, IssuedFields
<1>6. /\ k \in HolderKeys /\ issued[a.mdoc].key = k /\ issued[a.mdoc].root = n
      /\ auth = AuthFor(MsoFor(k, Signer(n), a.mdoc, at), Signer(n))
      /\ Mdoc(a.mdoc).nameSpaces = ItemsFor(Signer(n), a.mdoc, at)
      /\ Mdoc(b.mdoc).nameSpaces = ItemsFor(Signer(nb), b.mdoc, atb)
  BY <1>4, <1>5 DEF IssuedAs
<1>7. mso = MsoFor(k, Signer(n), a.mdoc, at) /\ IssuerX5chain(auth) = <<Signer(n)>>
  BY <1>6, AuthFields
<1>8. mso.status = a.mdoc /\ mso.deviceKey = CoseKey(k)
      /\ mso.valueDigests = DigestsFor(Signer(n), a.mdoc, at)
  BY <1>7 DEF MsoFor
<1> HIDE DEF mso, auth, roots
<1>9. /\ ValidateChain(<<Signer(n)>>, roots, now) # NONE
      /\ mso.validFrom <= now /\ now <= mso.validUntil
      /\ DigestsMatch(items, mso)
      /\ v.device_key = JwkFromCoseKey(mso.deviceKey) /\ v.status = mso.status
      /\ v.claims = [e \in DOMAIN items |-> items[e].elementValue]
  <2> DEFINE issuer_signed == [nameSpaces |-> items, issuerAuth |-> auth]
  <2>1. issuer_signed.nameSpaces = items /\ issuer_signed.issuerAuth = auth /\ auth.payload = mso
    BY DEF mso
  <2> HIDE DEF issuer_signed, items
  <2>2. VerifyIssuerSigned(issuer_signed, MDL_DOCTYPE, roots, now) # NONE
    BY <1>2 DEF issuer_signed
  <2> QED
    BY <1>7, <2>1, <2>2, VerifiedIssuerSigned DEF issuer_signed
<1> HIDE DEF v
<1>10. n \in anchors
  BY <1>9, ChainNamesRoot DEF roots
<1>11. v.device_key = k /\ v.status = a.mdoc
  BY <1>6, <1>8, <1>9, KeyRoundTrip
<1>12. issued[c.mdoc].key = k /\ c.transcript = t
  BY <1>2, <1>11, DeviceSignature DEF Signed
<1>13. /\ DOMAIN items = elements
       /\ \A e \in elements : items[e] = Mdoc(b.mdoc).nameSpaces[e]
  BY DEF Revealed
<1> HIDE DEF items
<1>14. ASSUME NEW e \in elements PROVE b.mdoc = a.mdoc
  <2>1. e \in MDL_ELEMENTS
    OBVIOUS
  <2>2. items[e] = ItemsFor(Signer(nb), b.mdoc, atb)[e]
    BY <1>6, <1>13
  <2>3. items[e].digestID = <<"id", e>>
    BY <2>1, <2>2, ItemDigestID
  <2>4. items[e].random = <<b.mdoc, e>>
    BY <2>1, <2>2, ItemSalt
  <2>5. mso.valueDigests[<<"id", e>>] = items[e]
    BY <1>9, <1>13, <2>3 DEF DigestsMatch
  <2>6. mso.valueDigests[<<"id", e>>] = ItemsFor(Signer(n), a.mdoc, at)[e]
    BY <1>8, <2>1, DigestOfItem
  <2>7. ItemsFor(Signer(n), a.mdoc, at)[e].random = <<a.mdoc, e>>
    BY <2>1, ItemSalt
  <2>8. <<a.mdoc, e>> = <<b.mdoc, e>>
    BY <2>4, <2>5, <2>6, <2>7
  <2> QED
    BY <2>8
<1> DEFINE accept == [document |-> v, transcript |-> t, at |-> now]
<1>15. accept.document = v /\ accept.transcript = t /\ accept.at = now
  OBVIOUS
<1>16. Mso(a.mdoc) = mso
  BY DEF Mso, mso, auth
<1> HIDE DEF accept
<1>17. CASE elements = {}
  <2>1. DOMAIN v.claims = {}
    BY <1>9, <1>13, <1>17
  <2>2. Answered(accept, c, a)
    BY <1>6, <1>9, <1>10, <1>11, <1>12, <1>15, <1>16, <2>1 DEF Answered
  <2> QED
    BY <1>2, <2>2 DEF accept, roots
<1>18. CASE elements # {}
  <2>1. b.mdoc = a.mdoc
    BY <1>14, <1>18
  <2>2. DOMAIN v.claims \subseteq b.disclose
    BY <1>9, <1>13
  <2>3. \A e \in DOMAIN v.claims : v.claims[e] = Mdoc(b.mdoc).nameSpaces[e].elementValue
    BY <1>9, <1>13
  <2>4. Answered(accept, c, b)
    BY <1>6, <1>9, <1>10, <1>11, <1>12, <1>15, <1>16, <2>1, <2>2, <2>3 DEF Answered
  <2> QED
    BY <1>2, <2>4 DEF accept, roots
<1> QED
  BY <1>17, <1>18

\* What was answered stays answered.
LEMMA AnswerKept ==
    ASSUME MdocInv, Grows, NEW acc, NEW s \in sent, NEW o \in sent, Answered(acc, s, o)
    PROVE  s \in sent' /\ o \in sent' /\ Answered(acc, s, o)'
<1>1. s.mdoc \in Mdocs /\ o.mdoc \in Mdocs /\ s \in sent' /\ o \in sent'
      /\ anchors \subseteq anchors'
  BY DEF MdocInv, KnownInv, Grows
<1>2. issued'[s.mdoc] = issued[s.mdoc] /\ issued'[o.mdoc] = issued[o.mdoc]
      /\ Mdoc(o.mdoc)' = Mdoc(o.mdoc)
  BY <1>1, MdocsKept
<1>3. Mso(o.mdoc)' = Mso(o.mdoc)
  BY <1>2 DEF Mso
<1> QED
  BY <1>1, <1>2, <1>3 DEF Answered

LEMMA AcceptedInductive ==
    MdocInv /\ AcceptedWasPresented /\ [Next]_vars => AcceptedWasPresented'
<1> SUFFICES ASSUME MdocInv, AcceptedWasPresented, [Next]_vars PROVE AcceptedWasPresented'
  OBVIOUS
<1>1. Grows
  BY StepGrows
<1>2. CASE accepted' = accepted
  <2> SUFFICES ASSUME accepted # NONE PROVE AcceptedWasPresented'
    BY <1>2 DEF AcceptedWasPresented
  <2>1. PICK s \in sent, o \in sent : Answered(accepted, s, o)
    BY DEF AcceptedWasPresented, Answered
  <2>2. PICK acc : acc = accepted
    OBVIOUS
  <2>3. s \in sent' /\ o \in sent' /\ Answered(acc, s, o)'
    BY <1>1, <2>1, <2>2, AnswerKept
  <2> QED
    BY <1>2, <2>2, <2>3 DEF AcceptedWasPresented, Answered
<1>3. ASSUME NEW r \in Deliverable, NEW t \in Transcripts, Verify(r, t)
      PROVE  AcceptedWasPresented'
  <2>1. PICK a \in sent, b \in sent, c \in sent : PutTogether(r, a, b, c)
    BY DeliverableShape
  <2> DEFINE documents == VerifyDeviceResponse(r, t, {Root(n) : n \in anchors}, now)
  <2>2. PICK acc : acc = [document |-> documents[1], transcript |-> t, at |-> now]
    OBVIOUS
  <2>3. documents # NONE /\ accepted' = acc
    BY <1>3, <2>2 DEF Verify
  <2>4. PICK o \in sent : Answered(acc, c, o)
    BY <2>1, <2>2, <2>3, AcceptedParts
  <2>5. c \in sent' /\ o \in sent' /\ Answered(acc, c, o)'
    BY <1>1, <2>4, AnswerKept
  <2> QED
    BY <2>3, <2>5 DEF AcceptedWasPresented, Answered
<1> QED
  BY <1>2, <1>3 DEF Next, vars, Remint, Issue, Trust, Present, Tick

\* Whatever the network puts together out of what wallets sent, a relying party
\* accepts an mDL only from the holder who answered its own request, under a root
\* it trusts, while the mDL is valid, and with nothing revealed that the holder
\* did not reveal (mdoc.rs, verify_device_response).
THEOREM AcceptedIsPresented == Spec => []AcceptedWasPresented
<1>1. Init => AcceptedWasPresented
  BY DEF Init, AcceptedWasPresented
<1> QED
  BY <1>1, InvariantInitially, InvariantInductive, AcceptedInductive, PTL DEF Spec

===============================================================================
