------------------------------- MODULE HashMaps -------------------------------
(***************************************************************************)
(* The HashMap operations the in-memory stores use.  A map is a function   *)
(* whose domain is the set of keys present.                                *)
(***************************************************************************)

\* HashMap::insert: adds the key or overwrites its value.
Put(map, key, value) ==
    [k \in DOMAIN map \cup {key} |-> IF k = key THEN value ELSE map[k]]

\* HashMap::remove: no effect when the key is absent.
Drop(map, key) == [k \in DOMAIN map \ {key} |-> map[k]]

EmptyMap == [k \in {} |-> {}]

===============================================================================
