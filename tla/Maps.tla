-------------------------------- MODULE Maps --------------------------------
(***************************************************************************)
(* The two updates of a map (BTreeMap, HashMap), which is a function on    *)
(* the keys it holds.                                                      *)
(***************************************************************************)

EmptyMap == [k \in {} |-> k]

\* m with k bound to v, whether or not it was bound before.
With(m, k, v) == [x \in DOMAIN m \cup {k} |-> IF x = k THEN v ELSE m[x]]

\* m without k, whether or not it was bound before.
Without(m, k) == [x \in DOMAIN m \ {k} |-> m[x]]
=============================================================================
