---------------------------- MODULE UniqueTable -----------------------------
(***************************************************************************)
(* What a table with a unique key and soft deletion promises: at any time  *)
(* the rows have distinct keys; a row appears with a key that is free, may *)
(* move to another free key, and is never removed.  users by email,        *)
(* query_categories by key and roles by name are such tables.              *)
(***************************************************************************)
CONSTANTS
    Ids,        \* ids of rows
    Keys,       \* values of the unique column
    NoKey       \* the row does not exist

VARIABLE key    \* key[i]: the key of row i, or NoKey

Init == key = [i \in Ids |-> NoKey]

Free(k) == \A i \in Ids : key[i] # k

(* An insertion, or an update of the unique column. *)
Take(i, k) == Free(k) /\ key' = [key EXCEPT ![i] = k]

Next == \E i \in Ids, k \in Keys : Take(i, k)

Spec == Init /\ [][Next]_key
=============================================================================
