---------------------------- MODULE Dictionary ----------------------------
(* What bits/hashmap.h promises: a partial map from keys to values.  Every *)
(* call returns the value it found, or stored, or NULL.                    *)
CONSTANTS Key, Value, NULL

VARIABLES
  map,      \* the values stored, by key
  result    \* what the last call returned

Lookup(k) == IF k \in DOMAIN map THEN map[k] ELSE NULL

Init == map = <<>> /\ result = NULL

hashmap_get(k) == result' = Lookup(k) /\ UNCHANGED map

hashmap_set(k, v) ==
  /\ map' = [j \in DOMAIN map \cup {k} |-> IF j = k THEN v ELSE map[j]]
  /\ result' = v

hashmap_remove(k) ==
  /\ map' = [j \in DOMAIN map \ {k} |-> map[j]]
  /\ result' = Lookup(k)

Next == \E k \in Key : \/ hashmap_get(k)
                       \/ hashmap_remove(k)
                       \/ \E v \in Value : hashmap_set(k, v)

Spec == Init /\ [][Next]_<<map, result>>
===========================================================================
