------------------------------ MODULE Startup_proofs ------------------------------
(***************************************************************************)
(* Proofs about start-up, for any keys, roots, sets of configured paths,   *)
(* lifetimes and number of starts, wherever the process dies: the keys and *)
(* the root of a server are those of its predecessors, and the             *)
(* certificates it serves are whole and for its key.                       *)
(***************************************************************************)
EXTENDS Startup, FiniteSetTheorems, TLAPS

Steps == {"down", "p256", "write p256", "pki", "write bundle", "anchor", "write anchor",
          "ed25519", "write ed25519", "attesters", "serving"}

\* The steps at which the process has its certificates, and has a key.
HasPki == {"anchor", "write anchor", "ed25519", "write ed25519", "attesters", "serving"}
HasKey(f) ==
    IF f = "p256" THEN HasPki \cup {"pki", "write bundle"} ELSE {"attesters", "serving"}

TypeInv ==
    /\ at \in Steps
    /\ key_file \in [KeyFiles -> Keys \cup {NONE, TORN}]
    /\ key \in [KeyFiles -> Keys \cup {NONE}]
    /\ bundle_file \in Bundle \cup {NONE}
    /\ day \in Nat
    /\ served \in [KeyFiles \cup {"root"} -> SUBSET (Keys \cup Roots \cup {LEGACY_ROOT})]

\* A key that is configured is in its file by the time it is used, and what has
\* been signed with is what is in the file.
KeyInv(f) ==
    /\ at = Writing(f) => f \in config /\ key_file[f] = TORN /\ key[f] \in Keys
    /\ at \in HasKey(f) => key[f] \in Keys /\ (f \in config => key_file[f] = key[f])
    /\ f \in config => served[f] \subseteq {key_file[f]}

KeysInv == \A f \in KeyFiles : KeyInv(f)

\* The certificates in memory are whole and for the key; they are the ones in the
\* bundle, once it is written; and a bundle that has been served is whole, unless it
\* is from before mdoc support.
Whole(b) == b \in Bundle /\ b.key = key["p256"] /\ b.certs = CERTIFICATES /\ b.crl

PkiInv ==
    /\ at \in HasPki => Whole(pki) /\ ("bundle" \in config => bundle_file = pki)
    /\ at = "write bundle" => Whole(pki) /\ bundle_file \in Bundle /\ bundle_file.certs = 0
    /\ "bundle" \in config =>
        \A r \in served["root"] \ {LEGACY_ROOT} :
            bundle_file \in Bundle /\ bundle_file.certs = CERTIFICATES /\ bundle_file.root = r

StartupInv == TypeInv /\ KeysInv /\ PkiInv

-------------------------------------------------------------------------------
LEMMA InitStartupInv == Init => StartupInv
<1> SUFFICES ASSUME Init PROVE StartupInv
  OBVIOUS
<1>1. at = "down" /\ key = NoKeys /\ day = 0
  BY DEF Init
<1>2. /\ key_file \in [KeyFiles -> Keys \cup {NONE, TORN}]
      /\ bundle_file \in Bundle \cup {NONE}
      /\ served \in [KeyFiles \cup {"root"} -> SUBSET (Keys \cup Roots \cup {LEGACY_ROOT})]
      /\ \A f \in KeyFiles : served[f] \subseteq {key_file[f]}
      /\ served["root"] \subseteq {LEGACY_ROOT}
  <2>1. CASE /\ key_file = NoKeys /\ bundle_file = NONE
             /\ served = [f \in KeyFiles \cup {"root"} |-> {}]
    BY <2>1 DEF NoKeys
  <2>2. ASSUME NEW k \in Keys, key_file = [NoKeys EXCEPT !["p256"] = k],
               bundle_file = Legacy(k),
               served = [f \in KeyFiles \cup {"root"} |->
                   CASE f = "p256" -> {k} [] f = "root" -> {LEGACY_ROOT} [] OTHER -> {}]
        PROVE  /\ key_file \in [KeyFiles -> Keys \cup {NONE, TORN}]
               /\ bundle_file \in Bundle
               /\ served \in [KeyFiles \cup {"root"} -> SUBSET (Keys \cup Roots \cup {LEGACY_ROOT})]
               /\ \A f \in KeyFiles : served[f] \subseteq {key_file[f]}
               /\ served["root"] \subseteq {LEGACY_ROOT}
    <3>1. Legacy(k) \in Bundle
      BY StartupAssumption DEF Legacy, Bundle, CERTIFICATES
    <3>2. /\ served["p256"] = {k} /\ served["ed25519"] = {} /\ served["root"] = {LEGACY_ROOT}
          /\ key_file["p256"] = k
      BY <2>2 DEF KeyFiles, NoKeys
    <3>3. served \in [KeyFiles \cup {"root"} -> SUBSET (Keys \cup Roots \cup {LEGACY_ROOT})]
      BY <2>2 DEF KeyFiles
    <3> QED
      BY <2>2, <3>1, <3>2, <3>3 DEF NoKeys, KeyFiles
  <2> QED
    BY <2>1, <2>2 DEF Init
<1>3. TypeInv
  BY <1>1, <1>2 DEF TypeInv, Steps, NoKeys
<1>4. KeysInv
  BY <1>1, <1>2 DEF KeysInv, KeyInv, Writing, HasKey, HasPki, KeyFiles
<1>5. PkiInv
  BY <1>1, <1>2 DEF PkiInv, HasPki
<1> QED
  BY <1>3, <1>4, <1>5 DEF StartupInv

\* The process ends, in order or not; the files stay as they are.
LEMMA DownKeeps ==
    ASSUME StartupInv, Down, UNCHANGED <<config, files, day, history>>
    PROVE  StartupInv'
<1>1. at' = "down" /\ key' = NoKeys
  BY DEF Down
<1>2. TypeInv'
  BY <1>1 DEF StartupInv, TypeInv, Steps, NoKeys, files, history
<1>3. KeysInv'
  BY <1>1 DEF StartupInv, KeysInv, KeyInv, Writing, HasKey, HasPki, KeyFiles, files, history
<1>4. PkiInv'
  BY <1>1 DEF StartupInv, PkiInv, HasPki, files, history
<1> QED
  BY <1>2, <1>3, <1>4 DEF StartupInv

\* A bundle that has been served is whole, unless it is from before mdoc support.
LEMMA ServedIsWhole ==
    ASSUME StartupInv, "bundle" \in config, NEW r \in served["root"] \ {LEGACY_ROOT}
    PROVE  bundle_file \in Bundle /\ bundle_file.certs = 4
<1>1. PkiInv
  BY DEF StartupInv
<1>2. bundle_file \in Bundle /\ bundle_file.certs = CERTIFICATES
  BY <1>1 DEF PkiInv
<1> QED
  BY <1>2 DEF CERTIFICATES

\* The bundle that is being written has never been served, nor has another since
\* mdoc support.
LEMMA CrashKeeps ==
    ASSUME StartupInv, Crash
    PROVE  StartupInv'
<1>1. CASE at # "write bundle"
  BY <1>1, DownKeeps DEF Crash, files
<1>2. CASE at = "write bundle"
  <2>1. at' = "down" /\ key' = NoKeys /\ UNCHANGED <<config, key_file, day, history>>
    BY DEF Crash, Down
  <2>2. bundle_file \in Bundle /\ bundle_file.certs = 0
    BY <1>2 DEF StartupInv, PkiInv
  <2>3. bundle_file' \in Bundle
    BY <1>2, <2>2 DEF Crash, Bundle
  <2>4. ASSUME "bundle" \in config, NEW r \in served["root"] \ {LEGACY_ROOT} PROVE FALSE
    BY <2>2, <2>4, ServedIsWhole
  <2>5. TypeInv'
    BY <2>1, <2>3 DEF StartupInv, TypeInv, Steps, NoKeys, history
  <2>6. KeysInv'
    BY <2>1 DEF StartupInv, KeysInv, KeyInv, Writing, HasKey, HasPki, KeyFiles, history
  <2>7. PkiInv'
    BY <2>1, <2>4 DEF PkiInv, HasPki, history
  <2> QED
    BY <2>5, <2>6, <2>7 DEF StartupInv
<1> QED
  BY <1>1, <1>2

\* The steps that make or load a key, given what they leave in memory and on disk.
LEMMA KeyStepKeeps ==
    ASSUME StartupInv, NEW f \in KeyFiles, at = f \/ at = Writing(f),
           NEW k \in Keys, NEW file \in Keys \cup {NONE, TORN},
           key' = [key EXCEPT ![f] = k], key_file' = [key_file EXCEPT ![f] = file],
           \/ at' = After(f) /\ (f \in config => file = k)
           \/ at' = Writing(f) /\ f \in config /\ file = TORN,
           f \in config => served[f] \subseteq {file},
           UNCHANGED <<config, bundle_file, day, served>>, at = "ed25519" => UNCHANGED pki,
           at = Writing("ed25519") => UNCHANGED pki
    PROVE  StartupInv'
<1>1. f = "p256" \/ f = "ed25519"
  BY DEF KeyFiles
<1>2. at' \in Steps
  BY <1>1 DEF After, Writing, Steps
<1>3. /\ key' \in [KeyFiles -> Keys \cup {NONE}] /\ key'[f] = k
      /\ key_file' \in [KeyFiles -> Keys \cup {NONE, TORN}] /\ key_file'[f] = file
      /\ \A g \in KeyFiles \ {f} : key'[g] = key[g] /\ key_file'[g] = key_file[g]
  BY DEF StartupInv, TypeInv
<1>4. TypeInv'
  BY <1>2, <1>3 DEF StartupInv, TypeInv
<1>5. KeyInv(f)'
  BY <1>1, <1>3 DEF KeyInv, Writing, HasKey, HasPki, After
<1>6. ASSUME NEW g \in KeyFiles \ {f} PROVE KeyInv(g)'
  <2>1. KeyInv(g)
    BY DEF StartupInv, KeysInv
  <2>2. at' = Writing(g) => FALSE
    BY <1>1 DEF After, Writing, KeyFiles
  <2>3. at' \in HasKey(g) => at \in HasKey(g)
    BY <1>1 DEF After, Writing, KeyFiles, HasKey, HasPki
  <2> QED
    BY <1>3, <2>1, <2>2, <2>3 DEF KeyInv, Writing, HasKey, HasPki
<1>7. PkiInv'
  <2>1. CASE f = "p256"
    BY <2>1 DEF StartupInv, PkiInv, After, Writing, HasPki
  <2>2. CASE f = "ed25519"
    <3>1. at \in HasPki /\ key'["p256"] = key["p256"] /\ UNCHANGED pki
      BY <1>3, <2>2 DEF Writing, HasPki, KeyFiles
    <3>2. at' # "write bundle"
      BY <2>2 DEF After, Writing
    <3> QED
      BY <3>1, <3>2 DEF StartupInv, PkiInv, Whole
  <2> QED
    BY <1>1, <2>1, <2>2
<1> QED
  BY <1>4, <1>5, <1>6, <1>7 DEF StartupInv, KeysInv

LEMMA LoadKeyKeeps ==
    ASSUME StartupInv, NEW f \in KeyFiles, LoadKey(f) PROVE StartupInv'
<1>1. key_file' = [key_file EXCEPT ![f] = key_file[f]]
  BY DEF LoadKey, files, StartupInv, TypeInv
<1>2. f \in config => served[f] \subseteq {key_file[f]}
  BY DEF StartupInv, KeysInv, KeyInv
<1> QED
  BY <1>1, <1>2, KeyStepKeeps DEF LoadKey, files, history

LEMMA EphemeralKeyKeeps ==
    ASSUME StartupInv, NEW f \in KeyFiles, EphemeralKey(f) PROVE StartupInv'
<1>1. key_file' = [key_file EXCEPT ![f] = key_file[f]]
  BY DEF EphemeralKey, files, StartupInv, TypeInv
<1>2. PICK k \in Keys : key' = [key EXCEPT ![f] = k]
  BY DEF EphemeralKey
<1>3. key_file[f] \in Keys \cup {NONE, TORN}
  BY DEF StartupInv, TypeInv
<1> QED
  BY <1>1, <1>2, <1>3, KeyStepKeeps DEF EphemeralKey, files

\* Nothing has been signed with a key whose file is missing or torn.
LEMMA NothingServed ==
    ASSUME StartupInv, NEW f \in KeyFiles, f \in config, key_file[f] \in {NONE, TORN}
    PROVE  served[f] = {}
<1>1. served[f] \subseteq {key_file[f]} /\ served[f] \subseteq Keys \cup Roots \cup {LEGACY_ROOT}
  BY DEF StartupInv, KeysInv, KeyInv, TypeInv
<1>2. key_file[f] \notin Keys \cup Roots \cup {LEGACY_ROOT}
  BY StartupAssumption
<1> QED
  BY <1>1, <1>2

LEMMA CreateKeyKeeps ==
    ASSUME StartupInv, NEW f \in KeyFiles, CreateKey(f) PROVE StartupInv'
<1>1. served[f] = {}
  BY NothingServed DEF CreateKey
<1>2. PICK k \in Keys : key' = [key EXCEPT ![f] = k]
  BY DEF CreateKey
<1> QED
  BY <1>1, <1>2, KeyStepKeeps DEF CreateKey

LEMMA WriteKeyKeeps ==
    ASSUME StartupInv, NEW f \in KeyFiles, WriteKey(f) PROVE StartupInv'
<1>1. f \in config /\ key_file[f] = TORN /\ key[f] \in Keys
  BY DEF WriteKey, StartupInv, KeysInv, KeyInv
<1>2. served[f] = {}
  BY <1>1, NothingServed
<1>3. key' = [key EXCEPT ![f] = key[f]]
  BY DEF WriteKey, StartupInv, TypeInv
<1> QED
  BY <1>1, <1>2, <1>3, KeyStepKeeps DEF WriteKey, history

-------------------------------------------------------------------------------
\* The steps that leave the keys and their files alone.
LEMMA KeysStay ==
    ASSUME KeysInv, UNCHANGED <<config, key, key_file>>,
           \A f \in KeyFiles : served'[f] = served[f],
           \A f \in KeyFiles : at' # Writing(f),
           \A f \in KeyFiles : at' \in HasKey(f) => at \in HasKey(f)
    PROVE  KeysInv'
<1> SUFFICES ASSUME NEW f \in KeyFiles PROVE KeyInv(f)'
  BY DEF KeysInv
<1>1. KeyInv(f)
  BY DEF KeysInv
<1>2. Writing(f)' = Writing(f) /\ HasKey(f)' = HasKey(f)
  BY DEF Writing, HasKey, HasPki
<1> QED
  BY <1>1, <1>2 DEF KeyInv

LEMMA LoadPkiKeeps ==
    ASSUME StartupInv, LoadPki PROVE StartupInv'
<1>1. /\ at = "pki" /\ at' = "ed25519" /\ pki' = bundle_file
      /\ UNCHANGED <<config, key_file, bundle_file, key, day, served>>
  BY DEF LoadPki, files, history
<1>2. "bundle" \in config /\ bundle_file \in Bundle
  BY DEF LoadPki, MustMint, StartupInv, TypeInv
<1>3. Whole(pki)'
  BY <1>1, <1>2 DEF LoadPki, FromPem, Whole
<1>4. TypeInv'
  BY <1>1 DEF StartupInv, TypeInv, Steps
<1>5. KeysInv'
  BY <1>1, KeysStay DEF StartupInv, KeyFiles, Writing, HasKey, HasPki
<1>6. PkiInv'
  BY <1>1, <1>3 DEF StartupInv, PkiInv, HasPki
<1> QED
  BY <1>4, <1>5, <1>6 DEF StartupInv

\* A root is only minted where none has been served, or one from before mdoc support.
LEMMA MintPkiKeeps ==
    ASSUME StartupInv, MintPki PROVE StartupInv'
<1>1. /\ at = "pki"
      /\ UNCHANGED <<config, key_file, key, day, served>>
  BY DEF MintPki
<1>2. PICK r \in Roots :
          pki' = [key |-> key["p256"], root |-> r, not_after |-> day + LEAF_DAYS,
                  certs |-> CERTIFICATES, crl |-> TRUE]
  BY DEF MintPki
<1>3. key["p256"] \in Keys
  BY <1>1 DEF StartupInv, KeysInv, KeyInv, KeyFiles, HasKey
<1>4. pki' \in Bundle
  BY <1>2, <1>3, StartupAssumption DEF StartupInv, TypeInv, Bundle, CERTIFICATES
<1>5. Whole(pki)'
  BY <1>1, <1>2, <1>4 DEF Whole
<1>6. ASSUME "bundle" \in config, NEW q \in served["root"] \ {LEGACY_ROOT} PROVE FALSE
  <2>1. MustMint
    BY DEF MintPki
  <2>2. bundle_file # NONE => bundle_file.certs = 1
    BY <1>6, <2>1 DEF MustMint
  <2>3. bundle_file \in Bundle /\ bundle_file.certs = 4
    BY <1>6, ServedIsWhole
  <2> QED
    BY <2>2, <2>3, NoneAssumption
<1>7. CASE "bundle" \in config
  <2>1. at' = "write bundle" /\ bundle_file' = [pki' EXCEPT !.certs = 0, !.crl = FALSE]
    BY <1>7 DEF MintPki
  <2>2. bundle_file' \in Bundle /\ bundle_file'.certs = 0
    <3>1. bundle_file' = [key |-> key["p256"], root |-> r, not_after |-> day + LEAF_DAYS,
                          certs |-> 0, crl |-> FALSE]
      BY <1>2, <2>1
    <3>2. day + LEAF_DAYS \in Nat
      BY StartupAssumption DEF StartupInv, TypeInv
    <3> QED
      BY <1>3, <3>1, <3>2 DEF Bundle, CERTIFICATES
  <2>3. TypeInv'
    BY <1>1, <2>1, <2>2 DEF StartupInv, TypeInv, Steps
  <2>4. KeysInv'
    BY <1>1, <2>1, KeysStay DEF StartupInv, KeyFiles, Writing, HasKey, HasPki
  <2>5. PkiInv'
    BY <1>1, <1>5, <1>6, <1>7, <2>1, <2>2 DEF PkiInv, HasPki
  <2> QED
    BY <2>3, <2>4, <2>5 DEF StartupInv
<1>8. CASE "bundle" \notin config
  <2>1. at' = "anchor" /\ UNCHANGED bundle_file
    BY <1>8 DEF MintPki
  <2>2. TypeInv'
    BY <1>1, <2>1 DEF StartupInv, TypeInv, Steps
  <2>3. KeysInv'
    BY <1>1, <2>1, KeysStay DEF StartupInv, KeyFiles, Writing, HasKey, HasPki
  <2>4. PkiInv'
    BY <1>1, <1>5, <1>8, <2>1 DEF PkiInv, HasPki
  <2> QED
    BY <2>2, <2>3, <2>4 DEF StartupInv
<1> QED
  BY <1>7, <1>8

LEMMA WriteBundleKeeps ==
    ASSUME StartupInv, WriteBundle PROVE StartupInv'
<1>1. /\ at = "write bundle" /\ at' = "anchor" /\ bundle_file' = pki
      /\ UNCHANGED <<config, key_file, key, pki, day, served>>
  BY DEF WriteBundle, history
<1>2. Whole(pki) /\ bundle_file.certs = 0
  BY <1>1 DEF StartupInv, PkiInv
<1>3. ASSUME "bundle" \in config, NEW q \in served["root"] \ {LEGACY_ROOT} PROVE FALSE
  BY <1>2, <1>3, ServedIsWhole
<1>4. TypeInv'
  BY <1>1, <1>2 DEF StartupInv, TypeInv, Steps, Whole
<1>5. KeysInv'
  BY <1>1, KeysStay DEF StartupInv, KeyFiles, Writing, HasKey, HasPki
<1>6. PkiInv'
  BY <1>1, <1>2, <1>3 DEF PkiInv, HasPki, Whole
<1> QED
  BY <1>4, <1>5, <1>6 DEF StartupInv

\* The trust anchor file: the certificates and the bundle are there already.
LEMMA AnchorKeeps ==
    ASSUME StartupInv, PublishAnchor \/ WriteAnchor PROVE StartupInv'
<1>1. /\ at \in {"anchor", "write anchor"} /\ at' \in {"write anchor", "ed25519"}
      /\ UNCHANGED <<config, key_file, bundle_file, key, pki, day, served>>
  BY DEF PublishAnchor, WriteAnchor, history
<1>2. TypeInv'
  BY <1>1 DEF StartupInv, TypeInv, Steps
<1>3. KeysInv'
  BY <1>1, KeysStay DEF StartupInv, KeyFiles, Writing, HasKey, HasPki
<1>4. PkiInv'
  BY <1>1 DEF StartupInv, PkiInv, HasPki, Whole
<1> QED
  BY <1>2, <1>3, <1>4 DEF StartupInv

-------------------------------------------------------------------------------
LEMMA StartKeeps ==
    ASSUME StartupInv, Start PROVE StartupInv'
<1>1. /\ at' = "p256"
      /\ UNCHANGED <<config, key_file, bundle_file, key, pki, day, served>>
  BY DEF Start, files, history
<1>2. TypeInv'
  BY <1>1 DEF StartupInv, TypeInv, Steps
<1>3. KeysInv'
  BY <1>1, KeysStay DEF StartupInv, KeyFiles, Writing, HasKey, HasPki
<1>4. PkiInv'
  BY <1>1 DEF StartupInv, PkiInv, HasPki
<1> QED
  BY <1>2, <1>3, <1>4 DEF StartupInv

\* What a server signs with is in its files.
LEMMA ServeKeeps ==
    ASSUME StartupInv, Serve PROVE StartupInv'
<1>1. /\ at = "attesters" /\ at' = "serving"
      /\ UNCHANGED <<config, key_file, bundle_file, key, pki, day>>
  BY DEF Serve, files
<1>2. /\ \A f \in KeyFiles : served'[f] = served[f] \cup {key[f]}
      /\ served'["root"] = served["root"] \cup {pki.root}
      /\ served' = [f \in KeyFiles \cup {"root"} |->
                       served[f] \cup {IF f = "root" THEN pki.root ELSE key[f]}]
  BY DEF Serve, KeyFiles
<1>3. Whole(pki) /\ ("bundle" \in config => bundle_file = pki)
  BY <1>1 DEF StartupInv, PkiInv, HasPki
<1>4. \A f \in KeyFiles : KeyInv(f) /\ key[f] \in Keys /\ (f \in config => key_file[f] = key[f])
  BY <1>1 DEF StartupInv, KeysInv, KeyInv, HasKey, HasPki
<1>5. TypeInv'
  <2>1. served' \in [KeyFiles \cup {"root"} -> SUBSET (Keys \cup Roots \cup {LEGACY_ROOT})]
    <3>1. pki.root \in Roots \cup {LEGACY_ROOT}
      BY <1>3 DEF Whole, Bundle
    <3>2. ASSUME NEW f \in KeyFiles \cup {"root"}
          PROVE  served[f] \cup {IF f = "root" THEN pki.root ELSE key[f]}
                     \in SUBSET (Keys \cup Roots \cup {LEGACY_ROOT})
      BY <1>4, <3>1 DEF StartupInv, TypeInv
    <3> QED
      BY <1>2, <3>2
  <2> QED
    BY <1>1, <2>1 DEF StartupInv, TypeInv, Steps
<1>6. KeysInv'
  <2> SUFFICES ASSUME NEW f \in KeyFiles PROVE KeyInv(f)'
    BY DEF KeysInv
  <2>1. at' # Writing(f)
    BY <1>1 DEF Writing
  <2> QED
    BY <1>1, <1>2, <1>4, <2>1 DEF KeyInv, Writing
<1>7. PkiInv'
  BY <1>1, <1>2, <1>3 DEF StartupInv, PkiInv, HasPki, Whole
<1> QED
  BY <1>5, <1>6, <1>7 DEF StartupInv

LEMMA DeleteKeyKeeps ==
    ASSUME StartupInv, NEW f \in KeyFiles, DeleteKey(f) PROVE StartupInv'
<1>1. /\ at = "down" /\ at' = "down"
      /\ key_file' = [key_file EXCEPT ![f] = NONE] /\ served' = [served EXCEPT ![f] = {}]
      /\ UNCHANGED <<config, bundle_file, key, day>>
  BY DEF DeleteKey
<1>2. TypeInv'
  BY <1>1 DEF StartupInv, TypeInv, Steps
<1>3. KeysInv'
  <2> SUFFICES ASSUME NEW g \in KeyFiles PROVE KeyInv(g)'
    BY DEF KeysInv
  <2>1. KeyInv(g) /\ at' # Writing(g) /\ at' \notin HasKey(g)
    BY <1>1 DEF StartupInv, KeysInv, Writing, HasKey, HasPki
  <2>2. \/ g = f /\ served'[g] = {}
        \/ g # f /\ served'[g] = served[g] /\ key_file'[g] = key_file[g]
    BY <1>1 DEF StartupInv, TypeInv
  <2> QED
    BY <1>1, <2>1, <2>2 DEF KeyInv, Writing, HasKey, HasPki
<1>4. PkiInv'
  <2>1. served'["root"] = served["root"]
    BY <1>1 DEF StartupInv, TypeInv, KeyFiles
  <2> QED
    BY <1>1, <2>1 DEF StartupInv, PkiInv, HasPki
<1> QED
  BY <1>2, <1>3, <1>4 DEF StartupInv

LEMMA DeleteBundleKeeps ==
    ASSUME StartupInv, DeleteBundle PROVE StartupInv'
<1>1. /\ at = "down" /\ at' = "down"
      /\ bundle_file' = NONE /\ served' = [served EXCEPT !["root"] = {}]
      /\ UNCHANGED <<config, key_file, key, day>>
  BY DEF DeleteBundle
<1>2. served'["root"] = {} /\ \A f \in KeyFiles : served'[f] = served[f]
  BY <1>1 DEF StartupInv, TypeInv, KeyFiles
<1>3. TypeInv'
  BY <1>1 DEF StartupInv, TypeInv, Steps
<1>4. KeysInv'
  BY <1>1, <1>2, KeysStay DEF StartupInv, KeyFiles, Writing, HasKey, HasPki
<1>5. PkiInv'
  BY <1>1, <1>2 DEF PkiInv, HasPki
<1> QED
  BY <1>3, <1>4, <1>5 DEF StartupInv

\* The clock, and a step that changes nothing.
LEMMA IdleKeeps ==
    ASSUME StartupInv, Tick \/ UNCHANGED vars PROVE StartupInv'
<1>1. /\ UNCHANGED <<config, key_file, bundle_file, at, key, pki, served>>
      /\ day' \in Nat
  BY DEF Tick, vars, files, history, StartupInv, TypeInv
<1>2. TypeInv'
  BY <1>1 DEF StartupInv, TypeInv
<1>3. KeysInv'
  BY <1>1 DEF StartupInv, KeysInv, KeyInv, Writing, HasKey, HasPki
<1>4. PkiInv'
  BY <1>1 DEF StartupInv, PkiInv, HasPki, Whole
<1> QED
  BY <1>2, <1>3, <1>4 DEF StartupInv

LEMMA StartupInvariant == Spec => []StartupInv
<1>1. ASSUME StartupInv, [Next]_vars PROVE StartupInv'
  <2>1. ASSUME NEW f \in KeyFiles, RefuseKey(f) PROVE StartupInv'
    BY <1>1, <2>1, DownKeeps DEF RefuseKey
  <2>2. CASE RefusePki \/ RefuseAttesters \/ Shutdown
    BY <1>1, <2>2, DownKeeps DEF RefusePki, RefuseAttesters, Shutdown
  <2> QED
    BY <1>1, <2>1, <2>2, StartKeeps, ServeKeeps, CrashKeeps, LoadKeyKeeps, EphemeralKeyKeeps,
       CreateKeyKeeps, WriteKeyKeeps, DeleteKeyKeeps, LoadPkiKeeps, MintPkiKeeps,
       WriteBundleKeeps, AnchorKeeps, DeleteBundleKeeps, IdleKeeps DEF Next
<1> QED
  BY <1>1, InitStartupInv, PTL DEF Spec

-------------------------------------------------------------------------------
LEMMA AtMostOne ==
    ASSUME NEW S, NEW x, S \subseteq {x} PROVE Cardinality(S) <= 1
<1>1. CASE S = {}
  BY <1>1, FS_EmptySet
<1>2. CASE S # {}
  <2>1. S = {x}
    BY <1>2
  <2> QED
    BY <2>1, FS_Singleton
<1> QED
  BY <1>1, <1>2

\* The key a server signs with is the key of every server before it, back to the
\* last time the operator deleted the file, wherever a start-up was interrupted
\* (state.rs, load_or_create_p256 and load_or_create_ed25519).
THEOREM KeysSurviveRestarts == Spec => []KeySurvives
<1>1. StartupInv => KeySurvives
  <2> SUFFICES ASSUME StartupInv, NEW f \in KeyFiles \cap config
               PROVE  Cardinality(served[f]) <= 1
    BY DEF KeySurvives
  <2>1. served[f] \subseteq {key_file[f]}
    BY DEF StartupInv, KeysInv, KeyInv
  <2> QED
    BY <2>1, AtMostOne
<1> QED
  BY <1>1, StartupInvariant, PTL

\* Start-up never mints a root over a bundle that a server has served, wherever an
\* earlier start-up was interrupted, but for the one bundle that may be there from
\* before mdoc support (state.rs, load_or_create_pki).
THEOREM RootsSurviveRestarts == Spec => []RootSurvives
<1>1. StartupInv => RootSurvives
  <2> SUFFICES ASSUME StartupInv, "bundle" \in config
               PROVE  Cardinality(served["root"] \ {LEGACY_ROOT}) <= 1
    BY DEF RootSurvives
  <2>1. served["root"] \ {LEGACY_ROOT} \subseteq {bundle_file.root}
    BY DEF StartupInv, PkiInv
  <2> QED
    BY <2>1, AtMostOne
<1> QED
  BY <1>1, StartupInvariant, PTL

\* A server that comes up has four certificates and a CRL, for the key it signs
\* with: a bundle that is torn or belongs to another key ends start-up
\* (state.rs, load_or_create_pki; x509.rs, IssuerPki::from_pem).
THEOREM ServersAreCertified == Spec => []ServesCertifiedKey
<1>1. StartupInv => ServesCertifiedKey
  BY DEF StartupInv, PkiInv, HasPki, Whole, ServesCertifiedKey
<1> QED
  BY <1>1, StartupInvariant, PTL

===============================================================================
