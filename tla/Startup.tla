-------------------------------- MODULE Startup --------------------------------
(***************************************************************************)
(* AppState::new: the signing keys and the certificates are loaded from    *)
(* disk, or made and saved on the first start, one file after the other.   *)
(* The process can die between any two steps, and while std::fs::write,    *)
(* which truncates first and writes afterwards, is in progress.  While the *)
(* server is down the operator can delete files.                           *)
(*                                                                         *)
(* A bundle is the certificates' key, root and last day, with the number   *)
(* of certificates and the CRL that made it to disk.                       *)
(***************************************************************************)
EXTENDS Integers, FiniteSets

CONSTANTS
    Keys,               \* key pairs that can be generated
    Roots,              \* development roots that can be minted
    LEGACY_ROOT,        \* the root of a server from before mdoc support
    Configurations,     \* sets of paths that can be configured
    LEAF_DAYS,          \* validity of the certificates, in days
    NONE, TORN,         \* no file; a file that was not completely written
    MayCrash,           \* whether the process can die
    MaxStarts, MaxDay   \* bounds

ASSUME StartupAssumption ==
    /\ LEAF_DAYS \in Nat /\ MaxStarts \in Nat /\ MaxDay \in Nat /\ MayCrash \in BOOLEAN
    /\ LEGACY_ROOT \notin Roots
    /\ {NONE, TORN} \cap (Keys \cup Roots \cup {LEGACY_ROOT}) = {}

KeyFiles == {"p256", "ed25519"}
CERTIFICATES == 4

Bundle == [key : Keys, root : Roots \cup {LEGACY_ROOT}, not_after : Nat,
           certs : 0..CERTIFICATES, crl : BOOLEAN]

\* No file is not a bundle.
ASSUME NoneAssumption == NONE \notin Bundle

VARIABLES
    config,             \* the paths that are configured
    key_file,           \* key file -> the key in it, TORN or NONE
    bundle_file,        \* the certificate bundle or NONE
    anchor_file,        \* the root in the trust anchor file, TORN or NONE
    at,                 \* where start-up is, "down" or "serving"
    key, pki,           \* the process's keys and certificates
    day,                \* the clock
    generated, minted,  \* history: keys and roots that exist
    served,             \* history: what credentials were signed with, since the
                        \* operator last deleted the file it is kept in
    starts

files == <<key_file, bundle_file, anchor_file>>
history == <<generated, minted, served>>
vars == <<config, files, at, key, pki, day, history, starts>>

NoKeys == [f \in KeyFiles |-> NONE]

\* A bundle written before mdoc support holds the one x5c leaf.
Legacy(k) ==
    [key |-> k, root |-> LEGACY_ROOT, not_after |-> LEAF_DAYS, certs |-> 1, crl |-> FALSE]

\* The first start finds nothing, or what a server from before mdoc support has left,
\* which has been signing with its key and its root.
Init ==
    /\ config \in Configurations
    /\ \/ /\ key_file = NoKeys /\ bundle_file = NONE /\ anchor_file = NONE
          /\ generated = {}
          /\ served = [f \in KeyFiles \cup {"root"} |-> {}]
       \/ \E k \in Keys :
          /\ key_file = [NoKeys EXCEPT !["p256"] = k]
          /\ bundle_file = Legacy(k) /\ anchor_file = LEGACY_ROOT
          /\ generated = {k}
          /\ served = [f \in KeyFiles \cup {"root"} |->
                          CASE f = "p256" -> {k} [] f = "root" -> {LEGACY_ROOT} [] OTHER -> {}]
    /\ at = "down"
    /\ key = NoKeys /\ pki = NONE
    /\ day = 0
    /\ minted = {}
    /\ starts = 0

\* The process is gone, and what it held in memory.
Down == at' = "down" /\ key' = NoKeys /\ pki' = NONE

Start ==
    /\ at = "down" /\ starts < MaxStarts
    /\ at' = "p256" /\ starts' = starts + 1
    /\ UNCHANGED <<config, files, key, pki, day, history>>

-------------------------------------------------------------------------------
\* load_or_create_p256 and load_or_create_ed25519.

After(f) == IF f = "p256" THEN "pki" ELSE "attesters"
Writing(f) == IF f = "p256" THEN "write p256" ELSE "write ed25519"

LoadKey(f) ==
    /\ at = f /\ f \in config
    /\ key_file[f] \in Keys
    /\ key' = [key EXCEPT ![f] = key_file[f]]
    /\ at' = After(f)
    /\ UNCHANGED <<config, files, pki, day, history, starts>>

\* A file that does not parse ends start-up.
RefuseKey(f) ==
    /\ at = f /\ f \in config
    /\ key_file[f] = TORN
    /\ Down
    /\ UNCHANGED <<config, files, day, history, starts>>

\* Without a path the key lives as long as the process.
EphemeralKey(f) ==
    /\ at = f /\ f \notin config
    /\ \E k \in Keys \ generated :
           key' = [key EXCEPT ![f] = k] /\ generated' = generated \cup {k}
    /\ at' = After(f)
    /\ UNCHANGED <<config, files, pki, day, minted, served, starts>>

\* Mutant of CreateKey: the key is used and not saved.
CreateKeyUnsaved(f) ==
    /\ at = f /\ f \in config
    /\ key_file[f] = NONE
    /\ \E k \in Keys \ generated :
           key' = [key EXCEPT ![f] = k] /\ generated' = generated \cup {k}
    /\ at' = After(f)
    /\ UNCHANGED <<config, files, pki, day, minted, served, starts>>

\* A new key: its file is created empty ...
CreateKey(f) ==
    /\ at = f /\ f \in config
    /\ key_file[f] = NONE
    /\ \E k \in Keys \ generated :
           key' = [key EXCEPT ![f] = k] /\ generated' = generated \cup {k}
    /\ key_file' = [key_file EXCEPT ![f] = TORN]
    /\ at' = Writing(f)
    /\ UNCHANGED <<config, bundle_file, anchor_file, pki, day, minted, served, starts>>

\* ... and then written.
WriteKey(f) ==
    /\ at = Writing(f)
    /\ key_file' = [key_file EXCEPT ![f] = key[f]]
    /\ at' = After(f)
    /\ UNCHANGED <<config, bundle_file, anchor_file, key, pki, day, history, starts>>

-------------------------------------------------------------------------------
\* load_or_create_pki.

\* Mutant of FromPem: the certificates are not compared with the key.
FromPemAnyKey(b, k) == b.certs = CERTIFICATES /\ b.crl /\ day <= b.not_after

\* IssuerPki::from_pem: a whole bundle, for this key, that chains to its root now.
FromPem(b, k) == b.certs = CERTIFICATES /\ b.crl /\ b.key = k /\ day <= b.not_after

\* Mutant of MustMint: any bundle that does not load is replaced.
MintOverBroken ==
    "bundle" \in config /\ bundle_file # NONE => ~FromPem(bundle_file, key["p256"])

\* No bundle, or one certificate only.
MustMint == "bundle" \in config /\ bundle_file # NONE => bundle_file.certs = 1

LoadPki ==
    /\ at = "pki" /\ ~MustMint
    /\ FromPem(bundle_file, key["p256"])
    /\ pki' = bundle_file
    /\ at' = "ed25519"
    /\ UNCHANGED <<config, files, key, day, history, starts>>

RefusePki ==
    /\ at = "pki" /\ ~MustMint
    /\ ~FromPem(bundle_file, key["p256"])
    /\ Down
    /\ UNCHANGED <<config, files, day, history, starts>>

\* A new root and certificates; a configured bundle file is truncated ...
MintPki ==
    /\ at = "pki" /\ MustMint
    /\ \E r \in Roots \ minted :
        /\ pki' = [key |-> key["p256"], root |-> r, not_after |-> day + LEAF_DAYS,
                   certs |-> CERTIFICATES, crl |-> TRUE]
        /\ minted' = minted \cup {r}
    /\ IF "bundle" \in config
       THEN bundle_file' = [pki' EXCEPT !.certs = 0, !.crl = FALSE] /\ at' = "write bundle"
       ELSE at' = "anchor" /\ UNCHANGED bundle_file
    /\ UNCHANGED <<config, key_file, anchor_file, key, day, generated, served, starts>>

\* ... and written.
WriteBundle ==
    /\ at = "write bundle"
    /\ bundle_file' = pki
    /\ at' = "anchor"
    /\ UNCHANGED <<config, key_file, anchor_file, key, pki, day, history, starts>>

\* The root goes to its own file, or to the log.
PublishAnchor ==
    /\ at = "anchor"
    /\ IF "anchor" \in config
       THEN anchor_file' = TORN /\ at' = "write anchor"
       ELSE at' = "ed25519" /\ UNCHANGED anchor_file
    /\ UNCHANGED <<config, key_file, bundle_file, key, pki, day, history, starts>>

WriteAnchor ==
    /\ at = "write anchor"
    /\ anchor_file' = pki.root
    /\ at' = "ed25519"
    /\ UNCHANGED <<config, key_file, bundle_file, key, pki, day, history, starts>>

-------------------------------------------------------------------------------
\* load_client_attesters: the file is the operator's, and may not parse.
RefuseAttesters ==
    /\ at = "attesters"
    /\ Down
    /\ UNCHANGED <<config, files, day, history, starts>>

\* The server comes up and signs credentials.
Serve ==
    /\ at = "attesters"
    /\ at' = "serving"
    /\ served' = [f \in KeyFiles \cup {"root"} |->
                     served[f] \cup {IF f = "root" THEN pki.root ELSE key[f]}]
    /\ UNCHANGED <<config, files, key, pki, day, generated, minted, starts>>

Shutdown ==
    /\ at = "serving"
    /\ Down
    /\ UNCHANGED <<config, files, day, history, starts>>

\* The process dies.  A bundle being written keeps any prefix.
Crash ==
    /\ MayCrash /\ at \notin {"down", "serving"}
    /\ Down
    /\ IF at = "write bundle"
       THEN \E n \in 0..CERTIFICATES : bundle_file' = [bundle_file EXCEPT !.certs = n]
       ELSE UNCHANGED bundle_file
    /\ UNCHANGED <<config, key_file, anchor_file, day, history, starts>>

\* The operator rotates a key ...
DeleteKey(f) ==
    /\ at = "down" /\ key_file[f] # NONE
    /\ key_file' = [key_file EXCEPT ![f] = NONE]
    /\ served' = [served EXCEPT ![f] = {}]
    /\ UNCHANGED <<config, bundle_file, anchor_file, at, key, pki, day, generated, minted, starts>>

\* ... or follows the message "delete it to mint a new one".
DeleteBundle ==
    /\ at = "down" /\ bundle_file # NONE
    /\ bundle_file' = NONE
    /\ served' = [served EXCEPT !["root"] = {}]
    /\ UNCHANGED <<config, key_file, anchor_file, at, key, pki, day, generated, minted, starts>>

Tick ==
    /\ day < MaxDay
    /\ day' = day + 1
    /\ UNCHANGED <<config, files, at, key, pki, history, starts>>

Next ==
    \/ Start \/ Serve \/ RefuseAttesters \/ Shutdown \/ Crash
    \/ \E f \in KeyFiles :
        \/ LoadKey(f) \/ RefuseKey(f) \/ EphemeralKey(f) \/ CreateKey(f) \/ WriteKey(f)
        \/ DeleteKey(f)
    \/ LoadPki \/ RefusePki \/ MintPki \/ WriteBundle \/ PublishAnchor \/ WriteAnchor
    \/ DeleteBundle
    \/ Tick

Spec == Init /\ [][Next]_vars

-------------------------------------------------------------------------------
\* Properties.

\* The key a server has signed with is the key of every later one, whatever
\* start-up was interrupted in between (state.rs: "Signing keys must survive a
\* restart").
KeySurvives ==
    \A f \in KeyFiles \cap config : Cardinality(served[f]) <= 1

\* A root that relying parties were given keeps anchoring the credentials.  The one
\* exception is a bundle from before mdoc support: it has been served, and start-up
\* mints another root over it (state.rs, load_or_create_pki: "A file holding one
\* certificate predates mdoc support and is replaced"); from then on, however often
\* start-up is interrupted, every server has the root of the first.
RootSurvives == "bundle" \in config => Cardinality(served["root"] \ {LEGACY_ROOT}) <= 1

\* The certificates a server serves are whole and certify the key it signs with
\* (state.rs: a stale bundle "fails at startup rather than at every relying party").
ServesCertifiedKey ==
    at = "serving" => pki.key = key["p256"] /\ pki.certs = CERTIFICATES /\ pki.crl

\* A running server's root is the one in the trust anchor file (README,
\* ISSUER_TRUST_ANCHOR_PEM: "Where a minted development root is written, for
\* relying parties to trust").
AnchorPublished ==
    at = "serving" /\ "anchor" \in config => anchor_file = pki.root

===============================================================================
