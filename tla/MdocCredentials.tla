---------------------------- MODULE MdocCredentials ----------------------------
(***************************************************************************)
(* The life of an mDL: the issuer signs it under its certificates (issuer  *)
(* crate, credential.rs), wallets present it, and a relying party verifies *)
(* what it is sent with the crypto crate (mdoc.rs) against the roots it    *)
(* trusts.  Wallets, relying party and network are external: a response    *)
(* may be late, repeated, sent to another request, or carry items, or the  *)
(* device signature, of another response.  The certificates outlive the    *)
(* days of the model's clock or not, and a restart may mint new ones under *)
(* a new root.                                                             *)
(***************************************************************************)
EXTENDS FiniteSets, Mdoc, IssuerMetadata

CONSTANTS
    IssuerKey,          \* the issuer's P-256 key
    HolderKeys,         \* the P-256 keys wallets prove
    Transcripts,        \* the relying party's requests
    Disclosures,        \* what wallets reveal: sets of element names
    MSO_VALIDITY_DAYS,
    AGE_DAYS,           \* for n in {18, 21}, the day the subject turns n
    MaxMints, MaxIssued, MaxSent, MaxTime

ASSUME MdocAssumption ==
    /\ MSO_VALIDITY_DAYS \in Nat \ {0}
    /\ LEAF_DAYS <= ROOT_DAYS
    /\ MaxMints \in Nat /\ MaxIssued \in Nat /\ MaxSent \in Nat /\ MaxTime \in Nat
    /\ \A k \in HolderKeys \cup {IssuerKey} : k = P256(k.x) /\ k # NONE

VARIABLES
    minted,             \* when each root, with its certificates, was minted
    issued,             \* status index -> root, time and holder's key, or NONE
                        \* when the mdoc could not be signed
    anchors,            \* the roots the relying party trusts
    sent,               \* presentations: mdoc, what it reveals, transcript
    accepted,           \* what the relying party accepted last, and for which request
    now

vars == <<minted, issued, anchors, sent, accepted, now>>

\* AppState.issuer_pki under the n-th root.
Pki(n) == MintDevelopment(IssuerKey, P256(<<"root", n>>), minted[n])
Root(n) == Pki(n).trust_anchor

\* The server comes up at any time of a day.
Init ==
    /\ now \in 0..DAY-1
    /\ minted = <<now>>
    /\ issued = <<>>
    /\ anchors = {} /\ sent = {} /\ accepted = NONE

\* A restart that finds no bundle to load (Startup): the same key under a new root.
Remint ==
    /\ Len(minted) < MaxMints
    /\ minted' = Append(minted, now)
    /\ UNCHANGED <<issued, anchors, sent, accepted, now>>

-------------------------------------------------------------------------------
\* Issuance.

StartOfDay(at) == (at \div DAY) * DAY

\* mdl_elements.
MdlElements(country, today) ==
    [e \in MDL_ELEMENTS |->
        CASE e \in {"issue_date", "expiry_date", "driving_privileges"} -> <<e, today>>
          [] e \in {"issuing_country", "un_distinguishing_sign"} -> country
          [] e = "age_over_18" -> today \div DAY >= AGE_DAYS[18]
          [] e = "age_over_21" -> today \div DAY >= AGE_DAYS[21]
          [] OTHER -> "demo"]

ValidUntil(today, certificate) ==
    LET until == today + MSO_VALIDITY_DAYS * DAY
        not_after == certificate.tbs.not_after
    IN  StartOfDay(IF until < not_after THEN until ELSE not_after)

\* issue_mdoc_credential's request, and what mdoc::issue makes of it.
MdocFor(holder_jwk, signer, idx, at) ==
    LET today == StartOfDay(at)
    IN  IssueMdoc([doc_type |-> MDL_DOCTYPE,
                   elements |-> MdlElements(signer.tbs.country, today),
                   device_key |-> holder_jwk,
                   signed |-> today, valid_from |-> today,
                   valid_until |-> ValidUntil(today, signer),
                   status |-> idx, salt |-> idx, x5chain |-> <<signer>>],
                  IssuerKey)

\* NONE is no algorithm, no MSO and nothing verified: an Option is a value or None.
ASSUME NoneAssumption ==
    LET times == 0..DAY + MaxTime
        values == {MdlElements(COUNTRY, StartOfDay(t))[e] : e \in MDL_ELEMENTS, t \in times}
        items == [digestID : {<<"id", e>> : e \in MDL_ELEMENTS},
                  random : (1..MaxIssued) \X MDL_ELEMENTS,
                  elementIdentifier : MDL_ELEMENTS, elementValue : values]
    IN  /\ NONE # "ES256"
        /\ NONE \notin [version : {"1.0"}, digestAlgorithm : {"SHA-256"},
                        docType : {MDL_DOCTYPE},
                        valueDigests : [{<<"id", e>> : e \in MDL_ELEMENTS} -> items],
                        deviceKey : {CoseKey(k) : k \in HolderKeys},
                        signed : Nat, validFrom : Nat, validUntil : Nat, status : Nat]
        /\ NONE \notin [doc_type : {MDL_DOCTYPE}, device_key : HolderKeys, status : Nat,
                        claims : [MDL_ELEMENTS -> values]]

\* The mdocs in wallets, by their status index.
Mdocs == {i \in DOMAIN issued : issued[i] # NONE}
Mdoc(i) == MdocFor(issued[i].key, Pki(issued[i].root).mdoc_signer, i, issued[i].at)
Mso(i) == Mdoc(i).issuerAuth.payload

\* issue_mdoc_credential: the status index is drawn first and stays drawn when
\* the mdoc cannot be signed.
Issue(holder_jwk) ==
    LET root == Len(minted)
        idx == Len(issued) + 1
    IN  /\ Len(issued) < MaxIssued
        /\ issued' = Append(issued,
                IF MdocFor(holder_jwk, Pki(root).mdoc_signer, idx, now) # NONE
                THEN [key |-> holder_jwk, root |-> root, at |-> now]
                ELSE NONE)
        /\ UNCHANGED <<minted, anchors, sent, accepted, now>>

-------------------------------------------------------------------------------
\* Presentation (external).

\* The relying party is given the issuer's current root.
Trust ==
    /\ anchors' = anchors \cup {Len(minted)}
    /\ UNCHANGED <<minted, issued, sent, accepted, now>>

\* A wallet answers a request with an mdoc of its own.
Present(i, disclose, transcript) ==
    /\ Cardinality(sent) < MaxSent
    /\ sent' = sent \cup {[mdoc |-> i, disclose |-> disclose, transcript |-> transcript]}
    /\ UNCHANGED <<minted, issued, anchors, accepted, now>>

Response(s) == PresentMdoc(Mdoc(s.mdoc), s.disclose, s.transcript, issued[s.mdoc].key)
Responses == {Response(s) : s \in sent}

\* The two parts of a response that are not covered by one signature.
Items(response) == response.documents[1].issuerSigned.nameSpaces
Kept(items, elements) == [e \in DOMAIN items \cap elements |-> items[e]]
WithItems(response, items) ==
    [response EXCEPT !.documents[1].issuerSigned.nameSpaces = items]
Signature(response) == response.documents[1].deviceSignature
WithSignature(response, signature) ==
    [response EXCEPT !.documents[1].deviceSignature = signature]

\* Responses the network can make of the ones sent: a sent one, or one with some
\* of the items, or with the device signature, of any.
Deliverable ==
    Responses
      \cup {WithItems(r, Kept(Items(o), elements)) :
                r, o \in Responses, elements \in SUBSET UNION Disclosures}
      \cup {WithSignature(r, Signature(o)) : r, o \in Responses}

\* The relying party verifies a response against one of its own requests.
Verify(response, transcript) ==
    LET documents == VerifyDeviceResponse(response, transcript, {Root(n) : n \in anchors}, now)
    IN  /\ documents # NONE
        /\ accepted' = [document |-> documents[1], transcript |-> transcript, at |-> now]
        /\ UNCHANGED <<minted, issued, anchors, sent, now>>

Tick ==
    /\ now < MaxTime
    /\ now' = now + 1
    /\ UNCHANGED <<minted, issued, anchors, sent, accepted>>

Next ==
    \/ Remint
    \/ \E k \in HolderKeys : Issue(k)
    \/ Trust
    \/ \E i \in Mdocs, d \in Disclosures, t \in Transcripts : Present(i, d, t)
    \/ \E r \in Deliverable, t \in Transcripts : Verify(r, t)
    \/ Tick

Spec == Init /\ [][Next]_vars

-------------------------------------------------------------------------------
\* Properties.

\* From the moment it is issued until its validUntil an mDL verifies for whoever
\* trusts the root it was issued under, whatever the time of day the certificates
\* were minted and the mDL was signed, and reveals the advertised elements
\* (x509.rs: "every MSO signed under it must also expire before it does";
\* credential.rs rounds signed down to a day the certificate must cover).
IssuedMdocVerifies ==
    \A i \in Mdocs :
        LET mdoc == Mdoc(i)
            pki == Pki(issued[i].root)
            until == mdoc.issuerAuth.payload.validUntil
        IN  /\ issued[i].at < until
            /\ \A at \in issued[i].at..until :
                  LET verified == VerifyIssuerSigned(mdoc, MDL_DOCTYPE, {pki.trust_anchor}, at)
                  IN  /\ verified # NONE
                      /\ DOMAIN verified.claims = ConfigurationsSupported[MDL].claims
                      /\ verified.claims["issuing_country"] = pki.mdoc_signer.tbs.country

\* What the relying party accepted is an mDL issued under a root it trusts and
\* valid then, whose holder answered that very request, and it reveals nothing the
\* holder did not reveal of it: a response that is late, misrouted or put together
\* from two holders', or two mDLs', is refused (verify_device_response).  (The
\* device signature says neither which of the mDLs of one key answered nor which
\* of its elements, so items can get lost on the way.)
AcceptedWasPresented ==
    accepted # NONE => \E s, o \in sent : LET a == accepted IN
        /\ s.transcript = a.transcript
        /\ issued[s.mdoc].key = a.document.device_key
        /\ issued[o.mdoc].key = a.document.device_key
        /\ issued[o.mdoc].root \in anchors
        /\ a.document.status = o.mdoc
        /\ DOMAIN a.document.claims \subseteq o.disclose
        /\ \A e \in DOMAIN a.document.claims :
              a.document.claims[e] = Mdoc(o.mdoc).nameSpaces[e].elementValue
        /\ Mso(o.mdoc).validFrom <= a.at /\ a.at <= Mso(o.mdoc).validUntil

===============================================================================
