----------------------------- MODULE StatusManager -----------------------------
(***************************************************************************)
(* The status manager: a revocation and a suspension list, each kept in    *)
(* both encodings, and a separate one-bit list for mdocs; with the admin   *)
(* endpoints that write them and the credential endpoint that allocates    *)
(* from them.  Each operation runs under one mutex and is one step.  The   *)
(* packed encodings are arrays here, which is what StatusLists shows them  *)
(* to be.                                                                  *)
(***************************************************************************)
EXTENDS Integers, FiniteSets, HashMaps

CONSTANTS
    LIST_CAPACITY,      \* entries of every list
    Requested,          \* indices admin requests name, in range or not
    Credentials         \* credentials that can be issued

ASSUME CapacityAssumption == LIST_CAPACITY \in Nat /\ Requested \subseteq Nat

Indices == 0..LIST_CAPACITY-1

Lists == {"revocation", "suspension"}
Formats == {"dc+sd-jwt", "mso_mdoc"}

Handles == [format : Formats, idx : Indices]

VARIABLES
    sl2021,             \* list -> StatusList2021 bit of each index
    tsl,                \* list -> Token Status List entry of each index
    allocated,          \* list -> indices drawn
    mdoc,               \* one bit per mdoc index
    mdoc_allocated,     \* mdoc indices drawn
    credentials         \* history: delivered credential -> its handle

vars == <<sl2021, tsl, allocated, mdoc, mdoc_allocated, credentials>>

TokenStatus == {"valid", "invalid", "suspended"}

Init ==
    /\ sl2021 = [l \in Lists |-> [i \in Indices |-> FALSE]]
    /\ tsl = [l \in Lists |-> [i \in Indices |-> "valid"]]
    /\ allocated = [l \in Lists |-> {}]
    /\ mdoc = [i \in Indices |-> 0]
    /\ mdoc_allocated = {}
    /\ credentials = EmptyMap

-------------------------------------------------------------------------------
\* Allocation, by the credential endpoint.

\* draw_index: a random index not drawn before, none when the list is full.
DrawIndex(drawn) == Indices \ drawn

\* The credential is signed and delivered with its handle, or signing fails
\* and the index is never used.
Deliver(format, i) ==
    \/ \E c \in Credentials \ DOMAIN credentials :
           credentials' = Put(credentials, c, [format |-> format, idx |-> i])
    \/ UNCHANGED credentials

\* allocate_entry: SD-JWT VCs always take their index from the revocation list.
AllocateEntry ==
    \E i \in DrawIndex(allocated["revocation"]) :
        /\ allocated' = [allocated EXCEPT !["revocation"] = @ \cup {i}]
        /\ Deliver("dc+sd-jwt", i)
        /\ UNCHANGED <<sl2021, tsl, mdoc, mdoc_allocated>>

AllocateMdocIndex ==
    \E i \in DrawIndex(mdoc_allocated) :
        /\ mdoc_allocated' = mdoc_allocated \cup {i}
        /\ Deliver("mso_mdoc", i)
        /\ UNCHANGED <<sl2021, tsl, allocated, mdoc>>

-------------------------------------------------------------------------------
\* The admin endpoints.

\* Mutant of UpdateStatus: returns after the first encoding.
UpdateOneEncoding(list, index, value) ==
    /\ index \in Indices
    /\ sl2021' = [sl2021 EXCEPT ![list][index] = value]
    /\ UNCHANGED <<tsl, allocated, mdoc, mdoc_allocated, credentials>>

\* update_status: both encodings, in one critical section.  An index past the
\* end fails in the first and changes nothing; whether the index was ever
\* allocated is not asked.
UpdateStatus(list, index, value) ==
    /\ index \in Indices
    /\ sl2021' = [sl2021 EXCEPT ![list][index] = value]
    /\ tsl' = [tsl EXCEPT ![list][index] =
                  IF ~value THEN "valid"
                  ELSE IF list = "revocation" THEN "invalid" ELSE "suspended"]
    /\ UNCHANGED <<allocated, mdoc, mdoc_allocated, credentials>>

Revoke(index) == UpdateStatus("revocation", index, TRUE)
Suspend(index) == UpdateStatus("suspension", index, TRUE)

\* Mutant of Reinstate: clears the credential's entry in the list it points at.
ReinstateRevoked(index) == UpdateStatus("revocation", index, FALSE)

Reinstate(index) == UpdateStatus("suspension", index, FALSE)

\* Mutant of RevokeMdoc: writes a value that one bit cannot hold.
RevokeMdocAsSuspended(index) ==
    /\ index \in Indices
    /\ mdoc' = [mdoc EXCEPT ![index] = 2]
    /\ UNCHANGED <<sl2021, tsl, allocated, mdoc_allocated, credentials>>

RevokeMdoc(index) ==
    /\ index \in Indices
    /\ mdoc' = [mdoc EXCEPT ![index] = 1]
    /\ UNCHANGED <<sl2021, tsl, allocated, mdoc_allocated, credentials>>

Next ==
    \/ AllocateEntry
    \/ AllocateMdocIndex
    \/ \E i \in Requested : Revoke(i) \/ Suspend(i) \/ Reinstate(i) \/ RevokeMdoc(i)

Spec == Init /\ [][Next]_vars

\* AppState::new on a restart: the signing keys are loaded from disk, the lists
\* are created empty.  Credentials already delivered live on in wallets.
Restart ==
    /\ sl2021' = [l \in Lists |-> [i \in Indices |-> FALSE]]
    /\ tsl' = [l \in Lists |-> [i \in Indices |-> "valid"]]
    /\ allocated' = [l \in Lists |-> {}]
    /\ mdoc' = [i \in Indices |-> 0]
    /\ mdoc_allocated' = {}
    /\ UNCHANGED credentials

RestartSpec == Init /\ [][Next \/ Restart]_vars

-------------------------------------------------------------------------------
\* Properties.

TypeOK ==
    /\ sl2021 \in [Lists -> [Indices -> BOOLEAN]]
    /\ tsl \in [Lists -> [Indices -> TokenStatus]]
    /\ allocated \in [Lists -> SUBSET Indices]
    /\ mdoc \in [Indices -> {0, 1}]
    /\ mdoc_allocated \in SUBSET Indices
    /\ DOMAIN credentials \subseteq Credentials
    /\ credentials \in [DOMAIN credentials -> Handles]

\* The two published encodings never disagree about a credential (manager.rs:
\* "ensuring consistency between them"), whichever was fetched.
EncodingsAgree ==
    \A l \in Lists, i \in Indices : sl2021[l][i] <=> tsl[l][i] # "valid"

RevokedHandles ==
    {h \in Handles : IF h.format = "mso_mdoc" THEN mdoc[h.idx] = 1
                                              ELSE tsl["revocation"][h.idx] # "valid"}

Registry == INSTANCE RevocationRegistry WITH
    handles <- credentials, revoked <- RevokedHandles

\* No two credentials share a handle and no operation ever un-revokes one:
\* the manager implements the registry.
ImplementsRegistry == Registry!Spec

\* The status a relying party reads by following the credential's status claim,
\* which names the revocation list or the mdoc list (routes/issuer.rs).
StatusSeen(c) ==
    LET h == credentials[c]
    IN  IF h.format = "mso_mdoc" THEN (IF mdoc[h.idx] = 1 THEN "invalid" ELSE "valid")
                                 ELSE tsl["revocation"][h.idx]

\* Suspending the index of an SD-JWT VC makes its status claim stop saying
\* valid (README: POST /admin/status/suspend "Suspend a credential").
SuspensionIsSeen ==
    \A c \in DOMAIN credentials :
        credentials[c].format = "dc+sd-jwt" /\ tsl["suspension"][credentials[c].idx] = "suspended"
            => StatusSeen(c) # "valid"

\* A revocation hits an index that a credential was given, never "an
\* unallocated index" (README, Status).
RevocationHitsAllocated ==
    \A i \in Indices : tsl["revocation"][i] = "invalid" => i \in allocated["revocation"]

\* A revoked credential is never reported valid again (types/status.rs: "The
\* credential has been permanently revoked").
RevocationIsPermanent ==
    [][\A c \in DOMAIN credentials :
          StatusSeen(c) = "invalid" => StatusSeen(c)' = "invalid"]_vars

===============================================================================
