------------------------------ MODULE StatusArray ------------------------------
(***************************************************************************)
(* What a status list promises: an array of independent entries, all zero  *)
(* at first, of which one is changed at a time.                            *)
(***************************************************************************)
EXTENDS Integers

CONSTANTS Capacity,     \* number of entries
          Values        \* what an entry can hold

VARIABLE entries

Init == entries = [i \in 0..Capacity-1 |-> 0]

Set(i, v) == entries' = [entries EXCEPT ![i] = v]

Next == \E i \in 0..Capacity-1, v \in Values : Set(i, v)

Spec == Init /\ [][Next]_entries

===============================================================================
