---------------------------------- MODULE Mdoc ----------------------------------
(***************************************************************************)
(* ISO/IEC 18013-5 mdocs (crypto crate, mdoc.rs): issuance, presentation   *)
(* over OpenID4VP, verification, and the MSO revocation list.  CBOR is the *)
(* record it encodes and a digest is the item it is the digest of.  There  *)
(* is one namespace.  An operator that can fail yields NONE.               *)
(***************************************************************************)
EXTENDS Certificates, HashMaps

\* An IssuerSignedItem.  Digest IDs are drawn so that no two items of an mdoc
\* share one; they are taken to be the same in every mdoc, which is where items
\* of two mdocs are easiest to confuse.  The random salt never repeats.
Item(element, value, salt) ==
    [digestID |-> <<"id", element>>, random |-> <<salt, element>>,
     elementIdentifier |-> element, elementValue |-> value]

\* issue: the elements, and the signed MSO over their digests.
IssueMdoc(request, key) ==
    LET item == [e \in DOMAIN request.elements |-> Item(e, request.elements[e], request.salt)]
        valid_from == IF request.valid_from > request.signed THEN request.valid_from
                      ELSE request.signed
        mso == [version |-> "1.0", digestAlgorithm |-> "SHA-256", docType |-> request.doc_type,
                valueDigests |-> [d \in {item[e].digestID : e \in DOMAIN item} |-> item[d[2]]],
                deviceKey |-> CoseKey(request.device_key), signed |-> request.signed,
                validFrom |-> valid_from, validUntil |-> request.valid_until,
                status |-> request.status]
    IN  IF valid_from < request.valid_until /\ mso.deviceKey # NONE
        THEN [nameSpaces |-> item,
              issuerAuth |-> CoseSign(key, mso, NoHeader,
                                      [NoHeader EXCEPT !.x5chain = request.x5chain])]
        ELSE NONE

-------------------------------------------------------------------------------
\* issuer_x5chain: from the unprotected header, or else the protected one.
IssuerX5chain(issuer_auth) ==
    IF issuer_auth.unprotected.x5chain # <<>> THEN issuer_auth.unprotected.x5chain
    ELSE issuer_auth.protected.header.x5chain

\* Every revealed item hashes to the digest signed under its ID.
DigestsMatch(name_spaces, mso) ==
    \A n \in DOMAIN name_spaces :
        /\ name_spaces[n].digestID \in DOMAIN mso.valueDigests
        /\ mso.valueDigests[name_spaces[n].digestID] = name_spaces[n]

\* The MSO is valid now and was signed while its certificate was valid.
PeriodCovers(mso, chain, anchors, at) ==
    /\ mso.validFrom <= at /\ at <= mso.validUntil
    /\ ValidateChain(chain, anchors, mso.signed) # NONE

\* verify_issuer_signed and verify_issuer_signed_value: what was signed and
\* revealed, or NONE.  (An element named twice is refused; here nameSpaces holds
\* an element once.)
VerifyIssuerSigned(issuer_signed, doc_type, anchors, at) ==
    LET auth == issuer_signed.issuerAuth
        mso == auth.payload
        chain == IssuerX5chain(auth)
        signer_key == ValidateChain(chain, anchors, at)
        device_key == JwkFromCoseKey(mso.deviceKey)
        verified ==
            /\ signer_key # NONE
            /\ CoseVerify(auth, signer_key)
            /\ mso.version = "1.0" /\ mso.digestAlgorithm = "SHA-256"
            /\ doc_type \in {NONE, mso.docType}
            /\ PeriodCovers(mso, chain, anchors, at)
            /\ DigestsMatch(issuer_signed.nameSpaces, mso)
            /\ device_key # NONE
    IN  IF verified
        THEN [doc_type |-> mso.docType, device_key |-> device_key, status |-> mso.status,
              claims |-> [n \in DOMAIN issuer_signed.nameSpaces |->
                             issuer_signed.nameSpaces[n].elementValue]]
        ELSE NONE

-------------------------------------------------------------------------------
\* Presentation.

\* oid4vp_session_transcript: null in place of the thumbprint when the response
\* is not encrypted.
SessionTranscript(client_id, nonce, jwk_thumbprint, response_uri) ==
    <<"OpenID4VPHandover", client_id, nonce, jwk_thumbprint, response_uri>>

\* device_authentication_bytes.
DeviceAuthentication(transcript, doc_type, device_name_spaces) ==
    <<"DeviceAuthentication", transcript, doc_type, device_name_spaces>>

\* present: a DeviceResponse with one document, revealing what is asked of it.
PresentMdoc(issuer_signed, disclose, transcript, device_key) ==
    LET doc_type == issuer_signed.issuerAuth.payload.docType
    IN  [version |-> "1.0", status |-> 0,
         documents |-> <<
            [docType |-> doc_type,
             issuerSigned |-> [issuer_signed EXCEPT !.nameSpaces =
                                   [e \in DOMAIN @ \cap disclose |-> @[e]]],
             deviceNameSpaces |-> {},
             deviceSignature |->
                 CoseSignDetached(device_key, DeviceAuthentication(transcript, doc_type, {}))] >>]

\* Mutant of DeviceAuthenticated: any transcript the device key signed will do.
DeviceAuthenticatedOnce(document, transcript, device_key) ==
    document.deviceSignature.signature.key = device_key

\* The device signature, over the transcript the verifier computed itself.
DeviceAuthenticated(document, transcript, device_key) ==
    CoseVerifyDetached(document.deviceSignature,
                       DeviceAuthentication(transcript, document.docType,
                                            document.deviceNameSpaces),
                       device_key)

\* verify_device_response: the verified documents, or NONE when one fails.
VerifyDeviceResponse(response, transcript, anchors, at) ==
    LET verified == [i \in 1..Len(response.documents) |->
                       VerifyIssuerSigned(response.documents[i].issuerSigned,
                                          response.documents[i].docType, anchors, at)]
        accepted ==
            /\ response.version = "1.0" /\ response.status = 0
            /\ response.documents # <<>>
            /\ \A i \in DOMAIN verified :
                  /\ verified[i] # NONE
                  /\ DeviceAuthenticated(response.documents[i], transcript, verified[i].device_key)
    IN  IF accepted THEN verified ELSE NONE

-------------------------------------------------------------------------------
\* The MSO revocation list, a Status List Token in CWT format.

STATUS_LIST_CWT_TYPE == "application/statuslist+cwt"

\* sign_status_list_cwt: type and chain are in the protected header.
SignStatusListCwt(list, x5chain, key) ==
    CoseSign(key, list, [typ |-> STATUS_LIST_CWT_TYPE, x5chain |-> x5chain], NoHeader)

\* verify_status_list_cwt: the list, or NONE.  Whether its uri is the one that was
\* asked for, and its ttl, are left to the caller.
VerifyStatusListCwt(token, anchors, at) ==
    LET key == ValidateChain(token.protected.header.x5chain, anchors, at)
        verified ==
            /\ token.protected.header.typ = STATUS_LIST_CWT_TYPE
            /\ key # NONE
            /\ CoseVerify(token, key)
            /\ at <= token.payload.exp
    IN  IF verified
        THEN [uri |-> token.payload.uri, bits |-> token.payload.bits, lst |-> token.payload.lst]
        ELSE NONE

===============================================================================
