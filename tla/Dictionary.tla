----------------------------- MODULE Dictionary -----------------------------
(***************************************************************************)
(* What the flow and session tables promise: a dictionary from five tuples *)
(* to ids, in which no id belongs to two keys.                             *)
(***************************************************************************)
CONSTANTS Keys, Values, NoValue

VARIABLE dict

Init == dict = [key \in Keys |-> NoValue]

Add(key, value) ==
    /\ dict[key] = NoValue
    /\ \A other \in Keys : dict[other] # value
    /\ dict' = [dict EXCEPT ![key] = value]

Remove(key) ==
    /\ dict[key] # NoValue
    /\ dict' = [dict EXCEPT ![key] = NoValue]

Next == \E key \in Keys : Remove(key) \/ \E value \in Values : Add(key, value)

Spec == Init /\ [][Next]_dict
=============================================================================
