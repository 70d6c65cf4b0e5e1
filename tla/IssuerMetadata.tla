----------------------------- MODULE IssuerMetadata -----------------------------
(***************************************************************************)
(* What the issuer publishes about itself (issuer crate, metadata.rs): the *)
(* credential configurations, with what the endpoints read from them.      *)
(***************************************************************************)

IDENTITY == "IdentityCredential_SD_JWT_VC"
MDL == "mDL_mso_mdoc"

MDL_DOCTYPE == "org.iso.18013.5.1.mDL"

\* MDL_ELEMENTS.
MDL_ELEMENTS ==
    {"family_name", "given_name", "birth_date", "issue_date", "expiry_date",
     "issuing_country", "issuing_authority", "document_number", "portrait",
     "driving_privileges", "un_distinguishing_sign", "age_over_18", "age_over_21"}

\* build_metadata's credential_configurations_supported; proof_algs are the
\* proof_signing_alg_values_supported of proof type jwt.
ConfigurationsSupported ==
    [c \in {IDENTITY, MDL} |->
        IF c = IDENTITY
        THEN [format |-> "dc+sd-jwt", scope |-> "identity_credential",
              proof_algs |-> {"ES256", "EdDSA"}, vct |-> "/credentials/identity",
              claims |-> {"given_name", "family_name", "birth_date"}]
        ELSE [format |-> "mso_mdoc", scope |-> "org.iso.18013.5.1.mDL",
              proof_algs |-> {"ES256"}, doctype |-> MDL_DOCTYPE, claims |-> MDL_ELEMENTS]]

SupportedConfigs == DOMAIN ConfigurationsSupported
SupportedFormats == {ConfigurationsSupported[c].format : c \in SupportedConfigs}

===============================================================================
