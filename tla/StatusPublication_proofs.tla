------------------------ MODULE StatusPublication_proofs ------------------------
(***************************************************************************)
(* Proofs about the status service.  First the manager, for lists of any   *)
(* capacity and any number of credentials: its type invariant, the         *)
(* agreement of the two encodings, and that it implements                  *)
(* RevocationRegistry.  Then the publication of its lists, for any ttl,    *)
(* lifetime, handler time and timeout: the manager's promises hold with    *)
(* relying parties around it, and a revocation is seen in time.            *)
(***************************************************************************)
EXTENDS StatusPublication, TLAPS

-------------------------------------------------------------------------------
\* The manager.

\* Deliver adds at most one credential, with the handle just drawn.
LEMMA DeliverTypeOK ==
    ASSUME TypeOK, NEW f \in Formats, NEW i \in Indices, Deliver(f, i)
    PROVE  DOMAIN credentials' \subseteq Credentials
           /\ credentials' \in [DOMAIN credentials' -> Handles]
<1>1. CASE UNCHANGED credentials
  BY <1>1 DEF TypeOK
<1>2. ASSUME NEW c \in Credentials \ DOMAIN credentials,
             credentials' = Put(credentials, c, [format |-> f, idx |-> i])
      PROVE  DOMAIN credentials' \subseteq Credentials
             /\ credentials' \in [DOMAIN credentials' -> Handles]
  <2>1. [format |-> f, idx |-> i] \in Handles
    BY DEF Handles
  <2> QED
    BY <1>2, <2>1 DEF Put, TypeOK
<1> QED
  BY <1>1, <1>2 DEF Deliver

\* The mutex-protected update of both encodings keeps them well formed.
LEMMA UpdateStatusTypeOK ==
    ASSUME TypeOK, NEW l \in Lists, NEW i \in Nat, NEW v \in BOOLEAN,
           UpdateStatus(l, i, v)
    PROVE  TypeOK'
BY DEF TypeOK, UpdateStatus, TokenStatus

\* Every operation of the manager keeps its lists well formed: in particular the
\* one-bit mdoc list only ever holds 0 and 1 (manager.rs, StatusManager).
THEOREM TypeCorrect == Spec => []TypeOK
<1>1. Init => TypeOK
  BY DEF Init, TypeOK, TokenStatus, EmptyMap
<1>2. TypeOK /\ [Next]_vars => TypeOK'
  <2> SUFFICES ASSUME TypeOK, [Next]_vars PROVE TypeOK'
    OBVIOUS
  <2>1. CASE AllocateEntry
    <3>1. PICK i \in Indices :
            /\ allocated' = [allocated EXCEPT !["revocation"] = @ \cup {i}]
            /\ Deliver("dc+sd-jwt", i)
            /\ UNCHANGED <<sl2021, tsl, mdoc, mdoc_allocated>>
      BY <2>1 DEF AllocateEntry, DrawIndex
    <3>2. DOMAIN credentials' \subseteq Credentials
          /\ credentials' \in [DOMAIN credentials' -> Handles]
      BY <3>1, DeliverTypeOK DEF Formats
    <3>3. allocated' \in [Lists -> SUBSET Indices]
      BY <3>1 DEF TypeOK, Lists
    <3> QED
      BY <3>1, <3>2, <3>3 DEF TypeOK
  <2>2. CASE AllocateMdocIndex
    <3>1. PICK i \in Indices :
            /\ mdoc_allocated' = mdoc_allocated \cup {i}
            /\ Deliver("mso_mdoc", i)
            /\ UNCHANGED <<sl2021, tsl, allocated, mdoc>>
      BY <2>2 DEF AllocateMdocIndex, DrawIndex
    <3>2. DOMAIN credentials' \subseteq Credentials
          /\ credentials' \in [DOMAIN credentials' -> Handles]
      BY <3>1, DeliverTypeOK DEF Formats
    <3> QED
      BY <3>1, <3>2 DEF TypeOK
  <2>3. ASSUME NEW i \in Requested, Revoke(i) PROVE TypeOK'
    BY <2>3, UpdateStatusTypeOK, CapacityAssumption DEF Revoke, Lists
  <2>4. ASSUME NEW i \in Requested, Suspend(i) PROVE TypeOK'
    BY <2>4, UpdateStatusTypeOK, CapacityAssumption DEF Suspend, Lists
  <2>5. ASSUME NEW i \in Requested, Reinstate(i) PROVE TypeOK'
    BY <2>5, UpdateStatusTypeOK, CapacityAssumption DEF Reinstate, Lists
  <2>6. ASSUME NEW i \in Requested, RevokeMdoc(i) PROVE TypeOK'
    BY <2>6 DEF RevokeMdoc, TypeOK
  <2>7. CASE UNCHANGED vars
    BY <2>7 DEF vars, TypeOK
  <2> QED
    BY <2>1, <2>2, <2>3, <2>4, <2>5, <2>6, <2>7 DEF Next
<1> QED
  BY <1>1, <1>2, PTL DEF Spec

-------------------------------------------------------------------------------
\* UpdateStatus is the only operation that writes an encoding, and it writes both.
LEMMA UpdateStatusAgrees ==
    ASSUME TypeOK, EncodingsAgree, NEW l \in Lists, NEW i \in Nat, NEW v \in BOOLEAN,
           UpdateStatus(l, i, v)
    PROVE  EncodingsAgree'
<1> SUFFICES ASSUME NEW k \in Lists, NEW j \in Indices
             PROVE  sl2021'[k][j] <=> tsl'[k][j] # "valid"
  BY DEF EncodingsAgree
<1>1. CASE k = l /\ j = i
  <2>1. sl2021'[k][j] = v
    BY <1>1 DEF UpdateStatus, TypeOK
  <2>2. tsl'[k][j] = IF ~v THEN "valid" ELSE IF l = "revocation" THEN "invalid" ELSE "suspended"
    BY <1>1 DEF UpdateStatus, TypeOK
  <2> QED
    BY <2>1, <2>2
<1>2. CASE ~(k = l /\ j = i)
  <2>1. sl2021'[k][j] = sl2021[k][j] /\ tsl'[k][j] = tsl[k][j]
    BY <1>2 DEF UpdateStatus, TypeOK
  <2> QED
    BY <2>1 DEF EncodingsAgree
<1> QED
  BY <1>1, <1>2

\* Whichever of the two published encodings a relying party fetches, it reads the
\* same status (manager.rs, update_status writes both under one lock).
THEOREM EncodingsAlwaysAgree == Spec => []EncodingsAgree
<1>1. Init => EncodingsAgree
  BY DEF Init, EncodingsAgree
<1>2. TypeOK /\ EncodingsAgree /\ [Next]_vars => EncodingsAgree'
  <2> SUFFICES ASSUME TypeOK, EncodingsAgree, [Next]_vars PROVE EncodingsAgree'
    OBVIOUS
  <2>1. CASE AllocateEntry
    BY <2>1 DEF AllocateEntry, EncodingsAgree
  <2>2. CASE AllocateMdocIndex
    BY <2>2 DEF AllocateMdocIndex, EncodingsAgree
  <2>3. ASSUME NEW i \in Requested, Revoke(i) PROVE EncodingsAgree'
    BY <2>3, UpdateStatusAgrees, CapacityAssumption DEF Revoke, Lists
  <2>4. ASSUME NEW i \in Requested, Suspend(i) PROVE EncodingsAgree'
    BY <2>4, UpdateStatusAgrees, CapacityAssumption DEF Suspend, Lists
  <2>5. ASSUME NEW i \in Requested, Reinstate(i) PROVE EncodingsAgree'
    BY <2>5, UpdateStatusAgrees, CapacityAssumption DEF Reinstate, Lists
  <2>6. ASSUME NEW i \in Requested, RevokeMdoc(i) PROVE EncodingsAgree'
    BY <2>6 DEF RevokeMdoc, EncodingsAgree
  <2>7. CASE UNCHANGED vars
    BY <2>7 DEF vars, EncodingsAgree
  <2> QED
    BY <2>1, <2>2, <2>3, <2>4, <2>5, <2>6, <2>7 DEF Next
<1> QED
  BY <1>1, <1>2, TypeCorrect, PTL DEF Spec

-------------------------------------------------------------------------------
\* A delivered credential's index has been drawn from the list its status claim
\* names.  This is what makes a freshly drawn index a handle of its own; no run's
\* property says it, and ImplementsRegistry is not inductive without it.
HandlesAllocated ==
    \A c \in DOMAIN credentials :
        /\ credentials[c].format = "dc+sd-jwt" => credentials[c].idx \in allocated["revocation"]
        /\ credentials[c].format = "mso_mdoc" => credentials[c].idx \in mdoc_allocated

\* An index drawn for a format makes a handle that no delivered credential has.
LEMMA DrawnIsFresh ==
    ASSUME TypeOK, HandlesAllocated, NEW f \in Formats,
           NEW i \in DrawIndex(IF f = "mso_mdoc" THEN mdoc_allocated ELSE allocated["revocation"])
    PROVE  /\ [format |-> f, idx |-> i] \in Handles
           /\ \A d \in DOMAIN credentials : credentials[d] # [format |-> f, idx |-> i]
BY DEF DrawIndex, HandlesAllocated, TypeOK, Handles, Formats

\* Delivering a credential with a fresh handle is the registry's Issue, or nothing.
LEMMA DeliverRefines ==
    ASSUME TypeOK, NEW f \in Formats, NEW i \in Indices, Deliver(f, i),
           [format |-> f, idx |-> i] \in Handles,
           \A d \in DOMAIN credentials : credentials[d] # [format |-> f, idx |-> i],
           UNCHANGED <<tsl, mdoc>>
    PROVE  [Registry!Next]_<<credentials, RevokedHandles>>
<1>1. UNCHANGED RevokedHandles
  BY DEF RevokedHandles
<1>2. CASE UNCHANGED credentials
  BY <1>1, <1>2
<1>3. ASSUME NEW c \in Credentials \ DOMAIN credentials,
             credentials' = Put(credentials, c, [format |-> f, idx |-> i])
      PROVE  Registry!Next
  <2>1. Registry!Issue(c, [format |-> f, idx |-> i])
    BY <1>1, <1>3 DEF Registry!Issue, Registry!Put, Put
  <2> QED
    BY <2>1 DEF Registry!Next
<1> QED
  BY <1>2, <1>3 DEF Deliver

\* Drawing an index and delivering keeps every delivered handle allocated.
LEMMA DeliverAllocated ==
    ASSUME TypeOK, HandlesAllocated, NEW f \in Formats, NEW i \in Indices, Deliver(f, i),
           allocated["revocation"] \subseteq allocated'["revocation"],
           mdoc_allocated \subseteq mdoc_allocated',
           f = "dc+sd-jwt" => i \in allocated'["revocation"],
           f = "mso_mdoc" => i \in mdoc_allocated'
    PROVE  HandlesAllocated'
<1>1. CASE UNCHANGED credentials
  BY <1>1 DEF HandlesAllocated
<1>2. ASSUME NEW c \in Credentials \ DOMAIN credentials,
             credentials' = Put(credentials, c, [format |-> f, idx |-> i])
      PROVE  HandlesAllocated'
  <2> SUFFICES ASSUME NEW d \in DOMAIN credentials'
               PROVE  /\ credentials'[d].format = "dc+sd-jwt"
                            => credentials'[d].idx \in allocated'["revocation"]
                      /\ credentials'[d].format = "mso_mdoc"
                            => credentials'[d].idx \in mdoc_allocated'
    BY DEF HandlesAllocated
  <2>1. CASE d = c
    BY <1>2, <2>1 DEF Put
  <2>2. CASE d \in DOMAIN credentials \ {c}
    BY <1>2, <2>2 DEF HandlesAllocated, Put
  <2> QED
    BY <1>2, <2>1, <2>2 DEF Put
<1> QED
  BY <1>1, <1>2 DEF Deliver

\* Revoking is the registry's Revoke of the same handle ...
LEMMA RevokeRefines ==
    ASSUME TypeOK, NEW i \in Nat, Revoke(i)
    PROVE  [Registry!Next]_<<credentials, RevokedHandles>>
<1>1. i \in Indices /\ UNCHANGED <<mdoc, credentials>>
  BY DEF Revoke, UpdateStatus
<1>2. \A j \in Indices : tsl'["revocation"][j] =
                             IF j = i THEN "invalid" ELSE tsl["revocation"][j]
  BY DEF Revoke, UpdateStatus, TypeOK, Lists
<1> DEFINE h == [format |-> "dc+sd-jwt", idx |-> i]
<1>3. h \in Handles
  BY <1>1 DEF Handles, Formats
<1>4. RevokedHandles' = RevokedHandles \cup {h}
  <2> SUFFICES ASSUME NEW g \in Handles
               PROVE  g \in RevokedHandles' <=> g \in RevokedHandles \/ g = h
    BY <1>3 DEF RevokedHandles
  <2>1. g.idx \in Indices /\ g.format \in Formats
        /\ g = [format |-> g.format, idx |-> g.idx]
    BY DEF Handles
  <2>2. CASE g.format = "mso_mdoc"
    BY <1>1, <2>1, <2>2 DEF RevokedHandles
  <2>3. CASE g.format = "dc+sd-jwt"
    BY <1>2, <2>1, <2>3 DEF RevokedHandles
  <2> QED
    BY <2>1, <2>2, <2>3 DEF Formats
<1> QED
  BY <1>1, <1>3, <1>4 DEF Registry!Next, Registry!Revoke

\* ... and so is revoking an mdoc.
LEMMA RevokeMdocRefines ==
    ASSUME TypeOK, NEW i \in Nat, RevokeMdoc(i)
    PROVE  [Registry!Next]_<<credentials, RevokedHandles>>
<1>1. i \in Indices /\ UNCHANGED <<tsl, credentials>>
  BY DEF RevokeMdoc
<1>2. \A j \in Indices : mdoc'[j] = IF j = i THEN 1 ELSE mdoc[j]
  BY DEF RevokeMdoc, TypeOK
<1> DEFINE h == [format |-> "mso_mdoc", idx |-> i]
<1>3. h \in Handles
  BY <1>1 DEF Handles, Formats
<1>4. RevokedHandles' = RevokedHandles \cup {h}
  <2> SUFFICES ASSUME NEW g \in Handles
               PROVE  g \in RevokedHandles' <=> g \in RevokedHandles \/ g = h
    BY <1>3 DEF RevokedHandles
  <2>1. g.idx \in Indices /\ g.format \in Formats
        /\ g = [format |-> g.format, idx |-> g.idx]
    BY DEF Handles
  <2>2. CASE g.format = "mso_mdoc"
    BY <1>2, <2>1, <2>2 DEF RevokedHandles
  <2>3. CASE g.format = "dc+sd-jwt"
    BY <1>1, <2>1, <2>3 DEF RevokedHandles
  <2> QED
    BY <2>1, <2>2, <2>3 DEF Formats
<1> QED
  BY <1>1, <1>3, <1>4 DEF Registry!Next, Registry!Revoke

\* Suspending and reinstating write the suspension list only: no registry step.
LEMMA SuspensionRefines ==
    ASSUME TypeOK, NEW i \in Nat, NEW v \in BOOLEAN, UpdateStatus("suspension", i, v)
    PROVE  UNCHANGED <<credentials, RevokedHandles>>
<1>1. tsl'["revocation"] = tsl["revocation"] /\ UNCHANGED <<mdoc, credentials>>
  BY DEF UpdateStatus, TypeOK, Lists
<1> QED
  BY <1>1 DEF RevokedHandles

\* The manager implements the registry: every credential has a status handle of
\* its own, and no operation un-revokes one (manager.rs, draw_index, revoke,
\* suspend, reinstate and revoke_mdoc).
THEOREM RegistryImplemented == Spec => ImplementsRegistry
<1>1. Init => HandlesAllocated /\ Registry!Init
  <2> SUFFICES ASSUME Init PROVE HandlesAllocated /\ Registry!Init
    OBVIOUS
  <2>1. HandlesAllocated /\ credentials = EmptyMap
    BY DEF Init, HandlesAllocated, EmptyMap
  <2>2. RevokedHandles = {}
    BY DEF Init, RevokedHandles, Handles, Lists
  <2> QED
    BY <2>1, <2>2 DEF Registry!Init, Registry!EmptyMap, EmptyMap
<1>2. ASSUME TypeOK, HandlesAllocated, [Next]_vars
      PROVE  HandlesAllocated' /\ [Registry!Next]_<<credentials, RevokedHandles>>
  <2>1. CASE AllocateEntry
    <3>1. PICK i \in DrawIndex(allocated["revocation"]) :
            /\ allocated' = [allocated EXCEPT !["revocation"] = @ \cup {i}]
            /\ Deliver("dc+sd-jwt", i)
            /\ UNCHANGED <<sl2021, tsl, mdoc, mdoc_allocated>>
      BY <2>1 DEF AllocateEntry
    <3>2. i \in Indices /\ "dc+sd-jwt" \in Formats
      BY DEF DrawIndex, Formats
    <3>3. allocated'["revocation"] = allocated["revocation"] \cup {i}
      BY <1>2, <3>1 DEF TypeOK, Lists
    <3>4. HandlesAllocated'
      BY <1>2, <3>1, <3>2, <3>3, DeliverAllocated
    <3>5. [Registry!Next]_<<credentials, RevokedHandles>>
      BY <1>2, <3>1, <3>2, DrawnIsFresh, DeliverRefines
    <3> QED
      BY <3>4, <3>5
  <2>2. CASE AllocateMdocIndex
    <3>1. PICK i \in DrawIndex(mdoc_allocated) :
            /\ mdoc_allocated' = mdoc_allocated \cup {i}
            /\ Deliver("mso_mdoc", i)
            /\ UNCHANGED <<sl2021, tsl, allocated, mdoc>>
      BY <2>2 DEF AllocateMdocIndex
    <3>2. i \in Indices /\ "mso_mdoc" \in Formats
      BY DEF DrawIndex, Formats
    <3>3. HandlesAllocated'
      BY <1>2, <3>1, <3>2, DeliverAllocated
    <3>4. [Registry!Next]_<<credentials, RevokedHandles>>
      BY <1>2, <3>1, <3>2, DrawnIsFresh, DeliverRefines
    <3> QED
      BY <3>3, <3>4
  <2>3. ASSUME NEW i \in Requested,
               Revoke(i) \/ Suspend(i) \/ Reinstate(i) \/ RevokeMdoc(i)
        PROVE  HandlesAllocated' /\ [Registry!Next]_<<credentials, RevokedHandles>>
    <3>1. i \in Nat
      BY CapacityAssumption
    <3>2. HandlesAllocated'
      BY <1>2, <2>3 DEF HandlesAllocated, Revoke, Suspend, Reinstate, RevokeMdoc, UpdateStatus
    <3>3. CASE Revoke(i)
      BY <1>2, <3>1, <3>2, <3>3, RevokeRefines
    <3>4. CASE Suspend(i)
      BY <1>2, <3>1, <3>2, <3>4, SuspensionRefines DEF Suspend
    <3>5. CASE Reinstate(i)
      BY <1>2, <3>1, <3>2, <3>5, SuspensionRefines DEF Reinstate
    <3>6. CASE RevokeMdoc(i)
      BY <1>2, <3>1, <3>2, <3>6, RevokeMdocRefines
    <3> QED
      BY <2>3, <3>3, <3>4, <3>5, <3>6
  <2>4. CASE UNCHANGED vars
    BY <1>2, <2>4 DEF vars, HandlesAllocated, RevokedHandles
  <2> QED
    BY <1>2, <2>1, <2>2, <2>3, <2>4 DEF Next
<1> QED
  BY <1>1, <1>2, TypeCorrect, PTL DEF Spec, ImplementsRegistry, Registry!Spec

-------------------------------------------------------------------------------
\* The publication of its lists.

\* The steps around the manager leave its state alone, so what is proved of the
\* manager holds of the composition (routes/status.rs only copies the lists).
THEOREM PublicationImplementsManager == PublicationSpec => Spec
<1>1. InitPublication => Init
  BY DEF InitPublication
<1>2. [PublicationNext]_all_vars => [Next]_vars
  BY DEF PublicationNext, Manage, CopyList, SignToken, Ask, Receive, GiveUp, Tick, all_vars
<1> QED
  BY <1>1, <1>2, PTL DEF PublicationSpec, Spec

-------------------------------------------------------------------------------
\* The invariant: what is recorded is no later than now and concerns exactly the
\* revoked handles; and at every station of a list from the manager to the relying
\* party's cache there is an instant such that what was revoked before it shows.

FollowsList == followed \in {"revocation", "mdoc"}

Shown(lst, instant) ==
    \A h \in DOMAIN revoked_at : revoked_at[h] < instant => ~SaysValid(lst, h)

HistoryInv ==
    /\ DOMAIN revoked_at = Revoked
    /\ \A h \in DOMAIN revoked_at : revoked_at[h] \in Int /\ revoked_at[h] <= 0

CopiedInv ==
    /\ DOMAIN fetch = {"at", "asked", "copied", "list"}
    /\ fetch.copied \in Int /\ -HANDLER_TIME <= fetch.copied /\ fetch.copied <= 0
    /\ fetch.asked <= fetch.copied
    /\ Shown(fetch.list.lst, fetch.copied)

\* A signed list may have been copied HANDLER_TIME before its iat, and not before
\* it was asked for.
SignedInv ==
    /\ DOMAIN fetch = {"at", "asked", "list", "iat"}
    /\ fetch.iat \in Int /\ fetch.iat <= 0
    /\ fetch.asked <= fetch.iat
    /\ Shown(fetch.list.lst, fetch.iat - HANDLER_TIME)
    /\ Shown(fetch.list.lst, fetch.asked)

FetchInv ==
    fetch # NONE =>
        /\ fetch.asked \in Int /\ -FETCH_TIMEOUT <= fetch.asked /\ fetch.asked <= 0
        /\ \/ fetch.at = "asked" /\ DOMAIN fetch = {"at", "asked"}
           \/ fetch.at = "copied" /\ CopiedInv
           \/ fetch.at = "signed" /\ SignedInv

CacheInv ==
    cache # NONE =>
        /\ DOMAIN cache = {"lst", "received"}
        /\ cache.received \in Int /\ -STATUS_LIST_TTL <= cache.received /\ cache.received <= 0
        /\ Shown(cache.lst, cache.received - FETCH_TIMEOUT)

PublicationInv == HistoryInv /\ FetchInv /\ CacheInv

-------------------------------------------------------------------------------
LEMMA TimesAreNaturals ==
    /\ STATUS_LIST_TTL \in Nat /\ TOKEN_LIFETIME \in Nat
    /\ HANDLER_TIME \in Nat /\ FETCH_TIMEOUT \in Nat
  BY PublicationAssumption

LEMMA InitPublicationInv == InitPublication => PublicationInv
<1> SUFFICES ASSUME InitPublication PROVE PublicationInv
  OBVIOUS
<1>1. fetch = NONE /\ cache = NONE /\ DOMAIN revoked_at = {}
  BY DEF InitPublication, EmptyMap
<1>2. ASSUME NEW h \in Revoked PROVE FALSE
  <2>1. h \in Handles /\ h.idx \in Indices
    BY DEF Revoked, Followed, Handles
  <2>2. mdoc[h.idx] = 0 /\ sl2021["revocation"][h.idx] = FALSE
    BY <2>1 DEF InitPublication, Init, Lists
  <2> QED
    BY <2>2 DEF Revoked
<1> QED
  BY <1>1, <1>2 DEF PublicationInv, HistoryInv, FetchInv, CacheInv

\* The list that is copied shows every revocation there has been.
LEMMA PublishedShowsRevoked ==
    ASSUME TypeOK, EncodingsAgree, HistoryInv, FollowsList,
           NEW h \in DOMAIN revoked_at
    PROVE  ~SaysValid((IF followed = "mdoc" THEN MdocStatusList
                       ELSE BuildTokenStatusList(followed)).lst, h)
<1>1. /\ h \in Revoked /\ h.format \in Formats /\ h.idx \in Indices
      /\ (h.format = "mso_mdoc") <=> (followed = "mdoc")
  BY DEF HistoryInv, Revoked, Followed, Handles
<1>2. CASE followed = "mdoc"
  <2>1. mdoc[h.idx] = 1
    BY <1>1, <1>2 DEF Revoked
  <2> QED
    BY <1>2, <2>1 DEF SaysValid, MdocStatusList
<1>3. CASE followed = "revocation"
  <2>1. sl2021["revocation"][h.idx]
    BY <1>1, <1>3 DEF Revoked
  <2>2. tsl["revocation"][h.idx] # "valid"
    BY <1>1, <2>1 DEF EncodingsAgree, Lists
  <2> QED
    BY <1>3, <2>2 DEF SaysValid, BuildTokenStatusList
<1> QED
  BY <1>2, <1>3 DEF FollowsList

\* What the relying party reads is the list that was signed.
LEMMA AnswerIsTheList ==
    ASSUME Answer # NONE PROVE Answer.lst = fetch.list.lst
<1>1. CASE followed = "mdoc"
  <2> DEFINE token == StatusListCwt(fetch.list, fetch.iat)
  <2>1. Answer = [uri |-> token.payload.uri, bits |-> token.payload.bits,
                  lst |-> token.payload.lst]
    BY <1>1 DEF Answer, VerifyStatusListCwt
  <2>2. token.payload.lst = fetch.list.lst
    BY DEF StatusListCwt, SignStatusListCwt, CoseSign
  <2> QED
    BY <2>1, <2>2
<1>2. CASE followed # "mdoc"
  <2> DEFINE jwt == StatusListJwt(fetch.list, fetch.iat)
  <2>1. Answer = [uri |-> jwt.payload.uri, bits |-> jwt.payload.bits, lst |-> jwt.payload.lst]
    BY <1>2 DEF Answer
  <2>2. jwt.payload.lst = fetch.list.lst
    BY DEF StatusListJwt, SignCompact
  <2> QED
    BY <2>1, <2>2
<1> QED
  BY <1>1, <1>2

\* A revocation made now is not before any instant recorded earlier.
LEMMA ManageKeeps ==
    ASSUME PublicationInv, Manage PROVE PublicationInv'
<1>1. UNCHANGED <<followed, fetch, cache>>
  BY DEF Manage
<1>2. /\ DOMAIN revoked_at' = Revoked'
      /\ \A h \in DOMAIN revoked_at' :
            \/ h \in DOMAIN revoked_at /\ revoked_at'[h] = revoked_at[h]
            \/ revoked_at'[h] = 0
  BY DEF Manage
<1>3. HistoryInv'
  BY <1>2 DEF PublicationInv, HistoryInv
<1>4. ASSUME NEW lst, NEW instant \in Int, instant <= 0, Shown(lst, instant)
      PROVE  \A h \in DOMAIN revoked_at' : revoked_at'[h] < instant => ~SaysValid(lst, h)
  BY <1>2, <1>4 DEF Shown
<1>5. \A lst, h : SaysValid(lst, h)' <=> SaysValid(lst, h)
  BY <1>1 DEF SaysValid
<1>6. FetchInv'
  <2>1. CASE fetch # NONE /\ fetch.at = "copied"
    BY <1>1, <1>4, <1>5, <2>1 DEF PublicationInv, FetchInv, CopiedInv, Shown, SaysValid
  <2>2. CASE fetch # NONE /\ fetch.at = "signed"
    BY <1>1, <1>4, <1>5, <2>2, TimesAreNaturals
       DEF PublicationInv, FetchInv, SignedInv, Shown, SaysValid
  <2> QED
    BY <1>1, <2>1, <2>2 DEF PublicationInv, FetchInv
<1>7. CacheInv'
  BY <1>1, <1>4, TimesAreNaturals DEF PublicationInv, CacheInv, Shown, SaysValid
<1> QED
  BY <1>3, <1>6, <1>7 DEF PublicationInv

\* A request that is under way, from being asked to being signed.
LEMMA FetchStepKeeps ==
    ASSUME PublicationInv, TypeOK, EncodingsAgree, FollowsList,
           Ask \/ CopyList \/ SignToken \/ GiveUp
    PROVE  PublicationInv'
<1>1. UNCHANGED <<vars, followed, cache, revoked_at>>
  BY DEF Ask, CopyList, SignToken, GiveUp
<1>2. HistoryInv'
  BY <1>1 DEF PublicationInv, HistoryInv, Revoked, Followed, vars
<1>3. CacheInv'
  BY <1>1 DEF PublicationInv, CacheInv, Shown, SaysValid
<1>4. CASE Ask
  <2>1. fetch' = [at |-> "asked", asked |-> 0]
    BY <1>4 DEF Ask
  <2> QED
    BY <1>2, <1>3, <2>1, TimesAreNaturals DEF PublicationInv, FetchInv
<1>5. CASE CopyList
  <2> DEFINE list == IF followed = "mdoc" THEN MdocStatusList ELSE BuildTokenStatusList(followed)
  <2>1. Shown(list.lst, 0)
    BY PublishedShowsRevoked DEF Shown, PublicationInv
  <2> HIDE DEF list
  <2>2. /\ fetch # NONE /\ fetch.at = "asked"
        /\ fetch' = [at |-> "copied", asked |-> fetch.asked, copied |-> 0, list |-> list]
    BY <1>5 DEF CopyList, list
  <2>3. fetch'.asked \in Int /\ -FETCH_TIMEOUT <= fetch'.asked /\ fetch'.asked <= 0
    BY <2>2 DEF PublicationInv, FetchInv
  <2>4. Shown(fetch.list.lst, fetch.copied)'
    BY <1>1, <2>1, <2>2 DEF Shown, SaysValid
  <2>5. CopiedInv'
    BY <2>2, <2>3, <2>4, TimesAreNaturals DEF CopiedInv
  <2> QED
    BY <1>2, <1>3, <2>2, <2>3, <2>5 DEF PublicationInv, FetchInv
<1>6. CASE SignToken
  <2>1. /\ fetch # NONE /\ fetch.at = "copied"
        /\ fetch' = [at |-> "signed", asked |-> fetch.asked, list |-> fetch.list, iat |-> 0]
    BY <1>6 DEF SignToken
  <2>2. /\ fetch.asked \in Int /\ -FETCH_TIMEOUT <= fetch.asked /\ fetch.asked <= 0
        /\ CopiedInv
    BY <2>1 DEF PublicationInv, FetchInv
  <2>3. Shown(fetch.list.lst, 0 - HANDLER_TIME) /\ Shown(fetch.list.lst, fetch.asked)
    BY <2>2, TimesAreNaturals DEF CopiedInv, Shown, PublicationInv, HistoryInv
  <2>4. SignedInv'
    BY <1>1, <2>1, <2>2, <2>3 DEF SignedInv, Shown, SaysValid
  <2> QED
    BY <1>2, <1>3, <2>1, <2>2, <2>4 DEF PublicationInv, FetchInv
<1>7. CASE GiveUp
  BY <1>2, <1>3, <1>7 DEF PublicationInv, FetchInv, GiveUp
<1> QED
  BY <1>4, <1>5, <1>6, <1>7

\* A token that is received was copied after it was asked for, which is not longer
\* than FETCH_TIMEOUT ago.
LEMMA ReceiveKeeps ==
    ASSUME PublicationInv, Receive PROVE PublicationInv'
<1>1. /\ UNCHANGED <<vars, followed, revoked_at>> /\ fetch' = NONE
      /\ fetch # NONE /\ fetch.at = "signed"
      /\ cache' = IF Answer # NONE THEN [lst |-> Answer.lst, received |-> 0] ELSE NONE
  BY DEF Receive
<1>2. HistoryInv'
  BY <1>1 DEF PublicationInv, HistoryInv, Revoked, Followed, vars
<1>3. FetchInv'
  BY <1>1 DEF FetchInv
<1>4. CacheInv'
  <2>1. CASE Answer = NONE
    BY <1>1, <2>1 DEF CacheInv
  <2>2. CASE Answer # NONE
    <3>1. cache' = [lst |-> fetch.list.lst, received |-> 0]
      BY <1>1, <2>2, AnswerIsTheList
    <3>2. fetch.asked \in Int /\ -FETCH_TIMEOUT <= fetch.asked /\ SignedInv
      BY <1>1 DEF PublicationInv, FetchInv
    <3>3. Shown(fetch.list.lst, 0 - FETCH_TIMEOUT)
      BY <3>2, TimesAreNaturals DEF SignedInv, Shown, PublicationInv, HistoryInv
    <3>4. Shown(cache.lst, cache.received - FETCH_TIMEOUT)'
      BY <1>1, <3>1, <3>3 DEF Shown, SaysValid
    <3> QED
      BY <3>1, <3>4, TimesAreNaturals DEF CacheInv
  <2> QED
    BY <2>1, <2>2
<1> QED
  BY <1>2, <1>3, <1>4 DEF PublicationInv

\* Time moves every instant back alike; only what is LONG_AGO stays where it is, and
\* an instant that a list is held against never is.
LEMMA TickKeeps ==
    ASSUME PublicationInv, Tick PROVE PublicationInv'
<1>1. /\ UNCHANGED <<vars, followed>>
      /\ DOMAIN revoked_at' = DOMAIN revoked_at
      /\ \A h \in DOMAIN revoked_at : revoked_at'[h] = Back(revoked_at[h])
  BY DEF Tick
<1>2. LONG_AGO \in Int /\ LONG_AGO < -HANDLER_TIME - FETCH_TIMEOUT - STATUS_LIST_TTL - 1
  BY TimesAreNaturals DEF LONG_AGO
<1>3. HistoryInv'
  <2>1. Revoked' = Revoked
    BY <1>1 DEF Revoked, Followed, vars
  <2>2. \A t \in Int : t <= 0 => Back(t) \in Int /\ Back(t) <= 0
    BY <1>2, TimesAreNaturals DEF Back
  <2> QED
    BY <1>1, <2>1, <2>2 DEF PublicationInv, HistoryInv
<1>4. ASSUME NEW lst, NEW instant \in Int, Shown(lst, instant)
      PROVE  \A h \in DOMAIN revoked_at' : revoked_at'[h] < instant - 1 => ~SaysValid(lst, h)'
  <2>1. ASSUME NEW h \in DOMAIN revoked_at, Back(revoked_at[h]) < instant - 1
        PROVE  revoked_at[h] < instant
    <3>1. revoked_at[h] \in Int
      BY DEF PublicationInv, HistoryInv
    <3> QED
      BY <1>2, <2>1, <3>1 DEF Back
  <2> QED
    BY <1>1, <1>4, <2>1 DEF Shown, SaysValid
<1>5. FetchInv'
  <2> SUFFICES ASSUME fetch # NONE PROVE FetchInv'
    BY DEF Tick, FetchInv
  <2>1. /\ fetch.asked \in Int /\ -FETCH_TIMEOUT < fetch.asked /\ fetch.asked <= 0
        /\ fetch.at = "copied" => -HANDLER_TIME < fetch.copied
    BY TimesAreNaturals DEF Tick, PublicationInv, FetchInv, CopiedInv
  <2>2. fetch' = [f \in DOMAIN fetch |-> IF f \in {"asked", "copied", "iat"}
                                         THEN Back(fetch[f]) ELSE fetch[f]]
    BY DEF Tick
  <2>3. Back(fetch.asked) = fetch.asked - 1
    BY <1>2, <2>1, TimesAreNaturals DEF Back
  <2>4. CASE fetch.at = "asked" /\ DOMAIN fetch = {"at", "asked"}
    <3>1. fetch'.at = "asked" /\ DOMAIN fetch' = {"at", "asked"}
          /\ fetch'.asked = fetch.asked - 1
      BY <2>2, <2>3, <2>4
    <3> QED
      BY <2>1, <3>1, TimesAreNaturals DEF FetchInv
  <2>5. CASE fetch.at = "copied" /\ CopiedInv
    <3>1. /\ fetch'.at = "copied" /\ DOMAIN fetch' = DOMAIN fetch
          /\ fetch'.asked = fetch.asked - 1 /\ fetch'.copied = Back(fetch.copied)
          /\ fetch'.list = fetch.list
      BY <2>2, <2>3, <2>5 DEF CopiedInv
    <3>2. fetch.copied \in Int /\ Back(fetch.copied) = fetch.copied - 1
      BY <1>2, <2>1, <2>5, TimesAreNaturals DEF Back, CopiedInv
    <3>3. Shown(fetch.list.lst, fetch.copied)'
      BY <1>4, <2>5, <3>1, <3>2 DEF CopiedInv, Shown
    <3>4. CopiedInv'
      BY <2>1, <2>5, <3>1, <3>2, <3>3, TimesAreNaturals DEF CopiedInv
    <3> QED
      BY <2>1, <3>1, <3>4, TimesAreNaturals DEF FetchInv
  <2>6. CASE fetch.at = "signed" /\ SignedInv
    <3>1. /\ fetch'.at = "signed" /\ DOMAIN fetch' = DOMAIN fetch
          /\ fetch'.asked = fetch.asked - 1 /\ fetch'.iat = Back(fetch.iat)
          /\ fetch'.list = fetch.list
      BY <2>2, <2>3, <2>6 DEF SignedInv
    <3>2. fetch.iat \in Int /\ Back(fetch.iat) = fetch.iat - 1
      BY <1>2, <2>1, <2>6, TimesAreNaturals DEF Back, SignedInv
    <3>3. Shown(fetch.list.lst, fetch.asked)'
      BY <1>4, <2>1, <2>6, <3>1 DEF SignedInv, Shown
    <3>4. Shown(fetch.list.lst, fetch.iat - HANDLER_TIME)'
      <4>1. fetch'.iat - HANDLER_TIME = (fetch.iat - HANDLER_TIME) - 1
        BY <3>1, <3>2, TimesAreNaturals
      <4>2. fetch.iat - HANDLER_TIME \in Int /\ Shown(fetch.list.lst, fetch.iat - HANDLER_TIME)
        BY <2>6, TimesAreNaturals DEF SignedInv
      <4> QED
        BY <1>4, <3>1, <4>1, <4>2 DEF Shown
    <3>5. SignedInv'
      BY <2>1, <2>6, <3>1, <3>2, <3>3, <3>4, TimesAreNaturals DEF SignedInv
    <3> QED
      BY <2>1, <3>1, <3>5, TimesAreNaturals DEF FetchInv
  <2> QED
    BY <2>4, <2>5, <2>6 DEF PublicationInv, FetchInv
<1>6. CacheInv'
  <2>1. CASE cache = NONE \/ cache.received = -Ttl
    BY <2>1 DEF Tick, CacheInv
  <2>2. CASE cache # NONE /\ cache.received # -Ttl
    <3>1. /\ DOMAIN cache = {"lst", "received"}
          /\ cache.received \in Int /\ -STATUS_LIST_TTL < cache.received /\ cache.received <= 0
          /\ Shown(cache.lst, cache.received - FETCH_TIMEOUT)
      BY <2>2, TimesAreNaturals DEF PublicationInv, CacheInv, Ttl
    <3>2. cache' = [cache EXCEPT !.received = Back(@)]
      BY <2>2 DEF Tick
    <3>3. Back(cache.received) = cache.received - 1
      BY <1>2, <3>1, TimesAreNaturals DEF Back
    <3>4. /\ DOMAIN cache' = {"lst", "received"} /\ cache'.lst = cache.lst
          /\ cache'.received = cache.received - 1
      BY <3>1, <3>2, <3>3
    <3>5. Shown(cache.lst, cache.received - FETCH_TIMEOUT)'
      <4>1. cache'.received - FETCH_TIMEOUT = (cache.received - FETCH_TIMEOUT) - 1
        BY <3>1, <3>4, TimesAreNaturals
      <4>2. cache.received - FETCH_TIMEOUT \in Int
        BY <3>1, TimesAreNaturals
      <4> QED
        BY <1>4, <3>1, <3>4, <4>1, <4>2 DEF Shown
    <3> QED
      BY <3>1, <3>4, <3>5, TimesAreNaturals DEF CacheInv
  <2> QED
    BY <2>1, <2>2
<1> QED
  BY <1>3, <1>5, <1>6 DEF PublicationInv

-------------------------------------------------------------------------------
LEMMA PublicationInvariant == PublicationSpec => []PublicationInv
<1>1. PublicationSpec => []TypeOK /\ []EncodingsAgree
  BY PublicationImplementsManager, TypeCorrect, EncodingsAlwaysAgree, PTL
<1>2. PublicationSpec => []FollowsList
  <2>1. InitPublication => FollowsList
    BY DEF InitPublication, FollowsList
  <2>2. FollowsList /\ [PublicationNext]_all_vars => FollowsList'
    BY DEF FollowsList, PublicationNext, Manage, CopyList, SignToken, Ask, Receive, GiveUp, Tick,
           all_vars, publication_vars
  <2> QED
    BY <2>1, <2>2, PTL DEF PublicationSpec
<1>3. ASSUME PublicationInv, TypeOK, EncodingsAgree, FollowsList,
             [PublicationNext]_all_vars
      PROVE  PublicationInv'
  <2>1. CASE UNCHANGED all_vars
    BY <1>3, <2>1 DEF all_vars, vars, publication_vars, PublicationInv, HistoryInv, Revoked,
                      Followed, FetchInv, CopiedInv, SignedInv, CacheInv, Shown, SaysValid
  <2> QED
    BY <1>3, <2>1, ManageKeeps, FetchStepKeeps, ReceiveKeeps, TickKeeps DEF PublicationNext
<1> QED
  BY <1>1, <1>2, <1>3, InitPublicationInv, PTL DEF PublicationSpec

\* A token whose iat is later than a revocation by more than a handler takes shows
\* it, and a relying party that keeps tokens for their ttl reads valid for at most
\* the ttl and the time it waits for an answer after a revocation, however copy,
\* signature and delivery straddle it (routes/status.rs, the ttl both handlers
\* write).
THEOREM RevocationsAreSeenInTime == PublicationSpec => []RevocationSeenInTime
<1>1. PublicationInv => RevocationSeenInTime
  <2> SUFFICES ASSUME PublicationInv, NEW h \in DOMAIN revoked_at
               PROVE  /\ fetch # NONE /\ fetch.at = "signed"
                            => (revoked_at[h] < fetch.iat - HANDLER_TIME
                                    => ~SaysValid(fetch.list.lst, h))
                      /\ cache # NONE
                            => (revoked_at[h] < -(STATUS_LIST_TTL + FETCH_TIMEOUT)
                                    => ~SaysValid(cache.lst, h))
    BY DEF RevocationSeenInTime
  <2>1. ASSUME fetch # NONE, fetch.at = "signed", revoked_at[h] < fetch.iat - HANDLER_TIME
        PROVE  ~SaysValid(fetch.list.lst, h)
    BY <2>1 DEF PublicationInv, FetchInv, SignedInv, Shown
  <2>2. ASSUME cache # NONE, revoked_at[h] < -(STATUS_LIST_TTL + FETCH_TIMEOUT)
        PROVE  ~SaysValid(cache.lst, h)
    <3>1. revoked_at[h] \in Int
      BY DEF PublicationInv, HistoryInv
    <3>2. /\ cache.received \in Int /\ -STATUS_LIST_TTL <= cache.received
          /\ Shown(cache.lst, cache.received - FETCH_TIMEOUT)
      BY <2>2 DEF PublicationInv, CacheInv
    <3>3. revoked_at[h] < cache.received - FETCH_TIMEOUT
      BY <2>2, <3>1, <3>2, TimesAreNaturals
    <3> QED
      BY <3>2, <3>3 DEF Shown
  <2> QED
    BY <2>1, <2>2
<1> QED
  BY <1>1, PublicationInvariant, PTL

=================================================================================
