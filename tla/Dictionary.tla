----------------------------- MODULE Dictionary -----------------------------
(* What a hash table promises: a finite map from keys to items.              *)
CONSTANTS Data, Key, None
VARIABLES
    dict,           \* the item of each key, or None
    ret             \* the last operation, its argument and what it returned

Init == dict = [k \in {Key[d] : d \in Data} |-> None] /\ ret = <<"new", None, None>>

Insert(d) == ret' = <<"insert", d, dict[Key[d]]>> /\ dict' = [dict EXCEPT ![Key[d]] = d]

Delete(k) == ret' = <<"delete", k, dict[k]>> /\ dict' = [dict EXCEPT ![k] = None]

(* An insertion for which there is no memory. *)
Refuse(d) == ret' = <<"insert", d, None>> /\ dict[Key[d]] = None /\ UNCHANGED dict

Next == \/ \E d \in Data : Insert(d) \/ Refuse(d)
        \/ \E k \in DOMAIN dict : Delete(k)

Spec == Init /\ [][Next]_<<dict, ret>>
=============================================================================
