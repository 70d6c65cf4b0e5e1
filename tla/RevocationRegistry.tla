--------------------------- MODULE RevocationRegistry ---------------------------
(***************************************************************************)
(* What the status manager promises to whoever checks a credential: every  *)
(* credential has a handle of its own, and a handle once revoked stays     *)
(* revoked.                                                                *)
(***************************************************************************)
EXTENDS HashMaps

CONSTANTS Credentials, Handles

VARIABLES handles,      \* credential -> its handle
          revoked       \* the handles reported as revoked

Init == handles = EmptyMap /\ revoked = {}

\* A new credential gets a handle no other credential has.
Issue(c, h) ==
    /\ c \notin DOMAIN handles
    /\ \A d \in DOMAIN handles : handles[d] # h
    /\ handles' = Put(handles, c, h)
    /\ UNCHANGED revoked

Revoke(h) ==
    /\ revoked' = revoked \cup {h}
    /\ UNCHANGED handles

Next ==
    \/ \E c \in Credentials, h \in Handles : Issue(c, h)
    \/ \E h \in Handles : Revoke(h)

Spec == Init /\ [][Next]_<<handles, revoked>>

===============================================================================
