------------------------------ MODULE Dictionary ------------------------------
(***************************************************************************)
(* What a hash map promises: a function from the keys it has to values.    *)
(***************************************************************************)
CONSTANTS Keys, Values

VARIABLE dict

DInit == dict = <<>>

Assign(k, v) == dict' = [j \in DOMAIN dict \cup {k} |-> IF j = k THEN v ELSE dict[j]]
EraseKey(k)  == dict' = [j \in DOMAIN dict \ {k} |-> dict[j]]

\* operator[] of a key that is missing makes an entry with some value.
Touch(k) == IF k \in DOMAIN dict THEN UNCHANGED dict ELSE \E v \in Values : Assign(k, v)

DNext == \E k \in Keys : EraseKey(k) \/ Touch(k) \/ \E v \in Values : Assign(k, v)

DSpec == DInit /\ [][DNext]_dict
===============================================================================
