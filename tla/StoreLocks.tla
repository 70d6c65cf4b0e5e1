------------------------------- MODULE StoreLocks -------------------------------
(***************************************************************************)
(* The mutexes of the in-memory stores.  Each map has a mutex of its own;  *)
(* a method that touches two maps holds the first mutex while it waits for *)
(* the second.  A call is the sequence of its lock and unlock steps; a     *)
(* method that returns early when its key is unknown has two such          *)
(* sequences.                                                              *)
(***************************************************************************)
EXTENDS Integers, Sequences

CONSTANTS Threads, Calls, NOBODY

Lock(m) == <<"lock", m>>
Unlock(m) == <<"unlock", m>>

\* A method that locks one mutex, and one that locks `inner` inside `outer`.
Single(m) == <<Lock(m), Unlock(m)>>
Nested(outer, inner) == <<Lock(outer), Lock(inner), Unlock(inner), Unlock(outer)>>

-------------------------------------------------------------------------------
\* InMemoryIssuerState.

StoreAuthorizationSession == {Single("sessions")}
GetAuthorizationSession   == {Single("sessions")}
SetAuthorizationCode      == {Single("sessions"), Nested("sessions", "code_to_uri")}
GetSessionByCode          == {Single("code_to_uri"), Nested("code_to_uri", "sessions")}

ConsumeAuthorizationCode  == {Single("code_to_uri"), Nested("code_to_uri", "sessions")}
RecordTokenForCode        == {Single("tokens_by_code")}

\* The first mutex is released before the second is taken.
RevokeTokensForCode ==
    {Single("tokens_by_code"), Single("tokens_by_code") \o Single("access_tokens")}

StoreAccessToken          == {Single("access_tokens")}
GetAccessGrant            == {Single("access_tokens")}

\* What PAR, the token endpoint and the credential endpoint call.
TokenCalls ==
    StoreAuthorizationSession \cup GetSessionByCode \cup ConsumeAuthorizationCode
      \cup RecordTokenForCode \cup RevokeTokensForCode \cup StoreAccessToken \cup GetAccessGrant

\* What the authorization endpoint calls.
DecisionCalls == GetAuthorizationSession \cup SetAuthorizationCode

-------------------------------------------------------------------------------
\* InMemoryVerifierState.

StoreSession      == {Nested("v_sessions", "state_to_id")}
GetSession        == {Single("v_sessions")}
GetSessionByState == {Single("state_to_id"), Nested("state_to_id", "v_sessions")}
DeleteSession     == {Single("v_sessions"), Nested("v_sessions", "state_to_id")}

\* Creating requests and serving them.
RequestCalls == StoreSession \cup GetSession

\* Processing a response.
ResponseCalls == GetSessionByState \cup DeleteSession

-------------------------------------------------------------------------------
Mutexes == {"sessions", "code_to_uri", "tokens_by_code", "access_tokens",
            "v_sessions", "state_to_id"}

VARIABLES owner,        \* mutex -> the thread that holds it
          rest          \* thread -> the steps left of its call

vars == <<owner, rest>>

Init ==
    /\ owner = [m \in Mutexes |-> NOBODY]
    /\ rest = [t \in Threads |-> <<>>]

Begin(t, call) ==
    /\ rest[t] = <<>>
    /\ rest' = [rest EXCEPT ![t] = call]
    /\ UNCHANGED owner

\* Waits until the mutex is free.
Acquire(t) ==
    /\ rest[t] # <<>> /\ Head(rest[t])[1] = "lock"
    /\ owner[Head(rest[t])[2]] = NOBODY
    /\ owner' = [owner EXCEPT ![Head(rest[t])[2]] = t]
    /\ rest' = [rest EXCEPT ![t] = Tail(@)]

Release(t) ==
    /\ rest[t] # <<>> /\ Head(rest[t])[1] = "unlock"
    /\ owner' = [owner EXCEPT ![Head(rest[t])[2]] = NOBODY]
    /\ rest' = [rest EXCEPT ![t] = Tail(@)]

Next == \E t \in Threads : Acquire(t) \/ Release(t) \/ \E call \in Calls : Begin(t, call)

Spec == Init /\ [][Next]_vars

-------------------------------------------------------------------------------
\* Properties.

\* The thread that t waits for, if it waits.
WaitsFor(t, u) ==
    rest[t] # <<>> /\ Head(rest[t])[1] = "lock" /\ owner[Head(rest[t])[2]] = u

\* There is never a group of threads each waiting for a mutex that another of
\* them holds, which would stop them for good (issuer/src/state.rs:
\* "Implementations must be thread-safe").
NoCircularWait ==
    ~ \E S \in SUBSET Threads : S # {} /\ \A t \in S : \E u \in S : WaitsFor(t, u)

===============================================================================
