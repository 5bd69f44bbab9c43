------------------------------ MODULE HashMaps ------------------------------
(***************************************************************************)
(* The std::collections::HashMap operations the gateway uses.  A map is a  *)
(* function whose domain is the set of keys present.                       *)
(***************************************************************************)
EXTENDS Functions

\* HashMap::new()
EmptyMap == [k \in {} |-> 0]

\* A map from some of the keys K to values in V.
IsMap(map, K, V) == DOMAIN map \subseteq K /\ map \in [DOMAIN map -> V]

\* map.insert(k, v): adds the entry or overwrites it.
Insert(map, k, v) ==
  [x \in DOMAIN map \cup {k} |-> IF x = k THEN v ELSE map[x]]

\* map.remove(k): a no-op when k is absent.
Without(map, k) == Restrict(map, DOMAIN map \ {k})
=============================================================================
