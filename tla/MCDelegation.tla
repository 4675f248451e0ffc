----------------------------- MODULE MCDelegation -----------------------------
(***************************************************************************)
(* A root scope, two that narrow it and one that lists a star among other  *)
(* items, on one dimension; the others are at the top or empty.            *)
(***************************************************************************)
EXTENDS Delegation, TLC

CONSTANTS i1, i2, v1, v2, x, y

Scope(items, purpose) ==
  [compartments |-> items, resource_types |-> <<Star>>, actions |-> <<>>, purpose |-> purpose]

MCScopes ==
  {Scope(<<Star>>, Star), Scope(<<x, Star>>, x), Scope(<<x, y>>, x), Scope(<<x>>, y)}

MCLifetimes == {0, 5}

Symmetry == Permutations({i1, i2}) \cup Permutations({v1, v2})
=============================================================================
