------------------------------- MODULE HashMaps -------------------------------
(***************************************************************************)
(* The standard library's HashMap as a function whose domain is the set of  *)
(* its keys.                                                                *)
(***************************************************************************)
EXTENDS Functions

EmptyMap == [x \in {} |-> x]

\* HashMap::insert.
Put(f, x, v) == [y \in DOMAIN f \cup {x} |-> IF y = x THEN v ELSE f[y]]

\* HashMap::remove.
Without(f, x) == Restrict(f, DOMAIN f \ {x})

=============================================================================
